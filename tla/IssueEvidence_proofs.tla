------------------------ MODULE IssueEvidence_proofs ------------------------
(***************************************************************************)
(* The store implements the evidence ledger, and when everything was read  *)
(* the open issues are the gaps, for every number of workloads, roles and  *)
(* files, and of edits.                                                    *)
(*                                                                         *)
(* The refinement needs the types only: every transaction gives up rows of *)
(* planes that it reports as covered.  IssuesAreGaps is not inductive:     *)
(* AwsKnows and GithubKnows say, for each point of a collection that has   *)
(* read all of what still is, what of it is in the batch and what has      *)
(* arrived in the store already, and Settled that nothing is stored after  *)
(* the last of the two collections has evaluated.                          *)
(***************************************************************************)
EXTENDS IssueEvidence, TLAPS

\* What TypeOK says of the stored rows holds of those under way.
SeenIsSane ==
    /\ \A e \in aws.seen.runsAs : e[1] \in aws.seen.workloads
    /\ aws.seen.uses \subseteq aws.seen.workloads

\* A workload that names a model exists.
CloudIsSane == \A w \in cloud.model : cloud.role[w] # None

\* The account as an inventory.
IsCloud(inv) ==
    /\ inv.workloads = {w \in Workload : cloud.role[w] # None}
    /\ inv.runsAs = {<<w, cloud.role[w]>> : w \in inv.workloads}
    /\ inv.uses = cloud.model

\* The roles whose policy the posture batch looks at, as far as they permit more.
BroadRoles == {q \in cloud.broad : \E w \in cloud.model : cloud.role[w] = q}

\* A collection of the account that has read all of it carries what is there, or has
\* stored it.
AwsKnows ==
    aws.true =>
        /\ aws.pc # "reading"
        /\ aws.pc = "inventory" => IsCloud(aws.seen) /\ Workload \subseteq aws.full
        /\ aws.pc \in {"inventory", "posture"} => aws.broad = BroadRoles /\ "roles" \in aws.full
        /\ aws.pc # "inventory" => IsCloud(inventory)
        /\ aws.pc \in {"queueing", "evaluating", "idle"} => Open(findings.roles) = BroadRoles

\* The edges of the stored workloads to the source as it is.
IsMatch(match) ==
    /\ match.edges = {w \in inventory.workloads : source.reach[w] # {}}
    /\ \A w \in match.edges : match.reach[w] = source.reach[w]

\* So does a collection of the source that has read all of it.
GithubKnows ==
    /\ github.pc \in {"targets", "posture", "correlation", "recording"} => ~github.done
    /\ github.newest =>
        /\ github.pc # "targets"
        /\ github.pc = "queued" => github.done
        /\ github.pc = "posture" => github.calls = source.calls
        /\ github.pc \in {"posture", "correlation"} =>
              IsMatch(github.match) /\ github.full = {"calls", "edges"}
        /\ github.pc # "posture" => Open(findings.calls) = source.calls
        /\ github.pc \notin {"posture", "correlation"} => IsMatch(deployedBy)

\* The open issues are those that the stored evidence confirms.
Settled ==
    aws.pc = "idle" /\ aws.true /\ github.pc = "idle" /\ github.newest =>
        \A k \in Key : issues[k] = "open" <=> Confirmed(k)

\* The inductive invariant.
IInv == TypeOK /\ SeenIsSane /\ CloudIsSane /\ AwsKnows /\ GithubKnows /\ Settled

-----------------------------------------------------------------------------
(***************************************************************************)
(* Types.                                                                  *)
(***************************************************************************)
\* A batch of findings keeps the states of the rows, and opens what it names.
LEMMA UpsertFacts ==
  ASSUME NEW S, NEW rows \in [S -> FindingState], NEW found \in SUBSET S,
         NEW complete \in BOOLEAN
  PROVE  /\ Upsert(rows, found, complete) \in [S -> FindingState]
         /\ found \subseteq Open(Upsert(rows, found, complete))
         /\ Open(Upsert(rows, found, complete)) \subseteq Open(rows) \cup found
         /\ complete => Open(Upsert(rows, found, complete)) = found
         /\ ~complete => Open(rows) \subseteq Open(Upsert(rows, found, complete))
BY DEF Upsert, FindingState, Open

\* After a complete batch, what it names is what is open.
LEMMA CompleteBatch ==
  ASSUME NEW S, NEW rows \in [S -> FindingState], NEW found \in SUBSET S
  PROVE  Open(Upsert(rows, found, TRUE)) = found
BY UpsertFacts, TRUE \in BOOLEAN

\* The batches and jobs that a collection begins with.
LEMMA Beginnings ==
  /\ NoInventory \in Inventory /\ NoCorrelation \in Correlation
  /\ NoBatch \in AwsJob /\ NewJob \in GithubJob
  /\ [NoBatch EXCEPT !.pc = "idle"] \in AwsJob /\ [NewJob EXCEPT !.pc = "idle"] \in GithubJob
<1>1. NoInventory \in Inventory /\ NoCorrelation \in Correlation
  BY DEF NoInventory, Inventory, NoCorrelation, Correlation
<1>2. NoBatch \in AwsJob /\ [NoBatch EXCEPT !.pc = "idle"] \in AwsJob
  BY <1>1 DEF NoBatch, AwsJob
<1>3. NewJob \in GithubJob /\ [NewJob EXCEPT !.pc = "idle"] \in GithubJob
  BY <1>1 DEF NewJob, GithubJob
<1> QED
  BY <1>1, <1>2, <1>3

\* The steps of a worker that change its job in part.
LEMMA JobUpdates ==
  /\ \A x \in AwsJob :
        /\ \A pc \in {"idle", "posture", "evaluating"} : [x EXCEPT !.pc = pc] \in AwsJob
        /\ [x EXCEPT !.true = FALSE] \in AwsJob
        /\ [NoBatch EXCEPT !.pc = "queueing", !.true = x.true] \in AwsJob
  /\ \A x \in GithubJob :
        /\ \A pc \in {"idle", "evaluating", "correlation"} : [x EXCEPT !.pc = pc] \in GithubJob
        /\ \A b \in BOOLEAN : [x EXCEPT !.newest = b] \in GithubJob
        /\ [x EXCEPT !.pc = "evaluating", !.done = TRUE, !.pin = None] \in GithubJob
        /\ \A s \in SUBSET Workload : [x EXCEPT !.pc = "targets", !.targets = s] \in GithubJob
        /\ Analyzed(x) \in GithubJob
        /\ [Analyzed(x) EXCEPT !.pc = "recording"] \in GithubJob
        /\ \A b \in BOOLEAN : [Analyzed(x) EXCEPT !.pc = "recording", !.newest = b] \in GithubJob
        /\ \A b \in BOOLEAN : [Analyzed(x) EXCEPT !.pc = "queued", !.newest = b] \in GithubJob
<1>1. ASSUME NEW x \in AwsJob
      PROVE  /\ \A pc \in {"idle", "posture", "evaluating"} : [x EXCEPT !.pc = pc] \in AwsJob
             /\ [x EXCEPT !.true = FALSE] \in AwsJob
             /\ [NoBatch EXCEPT !.pc = "queueing", !.true = x.true] \in AwsJob
  BY Beginnings DEF AwsJob
<1>2. ASSUME NEW x \in GithubJob
      PROVE  /\ \A pc \in {"idle", "evaluating", "correlation"} : [x EXCEPT !.pc = pc] \in GithubJob
             /\ \A b \in BOOLEAN : [x EXCEPT !.newest = b] \in GithubJob
             /\ [x EXCEPT !.pc = "evaluating", !.done = TRUE, !.pin = None] \in GithubJob
             /\ \A s \in SUBSET Workload :
                   [x EXCEPT !.pc = "targets", !.targets = s] \in GithubJob
  BY DEF GithubJob
<1>3. ASSUME NEW x \in GithubJob PROVE Analyzed(x) \in GithubJob
  BY Beginnings DEF Analyzed, GithubJob
<1>4. ASSUME NEW x \in GithubJob, NEW b \in BOOLEAN
      PROVE  /\ [x EXCEPT !.pc = "recording"] \in GithubJob
             /\ [x EXCEPT !.pc = "recording", !.newest = b] \in GithubJob
             /\ [x EXCEPT !.pc = "queued", !.newest = b] \in GithubJob
  BY DEF GithubJob
<1> QED
  BY <1>1, <1>2, <1>3, <1>4

\* What an evaluation makes of the issues.
LEMMA EvaluatedFacts ==
  ASSUME TypeOK
  PROVE  /\ Evaluated \in [Key -> {"absent", "open", "unknown", "resolved"}]
         /\ \A k \in Key : Evaluated[k] = "open" <=> Confirmed(k)
BY DEF TypeOK, Evaluated

\* Every action keeps the types.
LEMMA TypeNext == TypeOK /\ SeenIsSane /\ [Next]_vars => TypeOK'
<1> SUFFICES ASSUME TypeOK, SeenIsSane, [Next]_vars
             PROVE  TypeOK'
  OBVIOUS
<1>0. /\ cloud \in Cloud /\ source \in Source /\ edits \in 0..MaxEdits
      /\ inventory \in Inventory /\ deployedBy \in Correlation
      /\ findings \in [roles : [Role -> FindingState], calls : [Path -> FindingState]]
      /\ coverage \subseteq Plane
      /\ issues \in [Key -> {"absent", "open", "unknown", "resolved"}]
      /\ aws \in AwsJob /\ github \in GithubJob
      /\ \A w \in Workload \ deployedBy.edges : deployedBy.reach[w] = {}
      /\ \A e \in inventory.runsAs : e[1] \in inventory.workloads
      /\ inventory.uses \subseteq inventory.workloads
  BY DEF TypeOK
<1>1. ASSUME UNCHANGED <<world, evidence>>, aws' \in AwsJob, github' \in GithubJob,
             issues' = issues \/ issues' = Evaluated
      PROVE  TypeOK'
  BY <1>0, <1>1, EvaluatedFacts DEF TypeOK, world, evidence
<1>2. CASE StartAws
  BY <1>0, <1>1, <1>2, Beginnings DEF StartAws
<1>3. CASE ReadAws
  <2>1. PICK services \in SUBSET Workload,
             observed \in SUBSET {w \in Workload : cloud.role[w] # None},
             denied \in SUBSET Role :
          LET seen == [workloads |-> observed,
                       runsAs |-> {<<w, cloud.role[w]>> : w \in observed},
                       uses |-> observed \cap cloud.model] IN
          /\ \A w \in services : cloud.role[w] # None => w \in observed
          /\ denied \subseteq Asked(seen)
          /\ aws' = [aws EXCEPT !.pc = "inventory", !.seen = seen,
                !.full = services \cup (IF denied = {} THEN {"roles"} ELSE {}),
                !.broad = (Asked(seen) \ denied) \cap cloud.broad,
                !.true = denied = {} /\ services = Workload]
    BY <1>3 DEF ReadAws
  <2> DEFINE seen == [workloads |-> observed,
                       runsAs |-> {<<w, cloud.role[w]>> : w \in observed},
                       uses |-> observed \cap cloud.model]
             full == services \cup (IF denied = {} THEN {"roles"} ELSE {})
             broad == (Asked(seen) \ denied) \cap cloud.broad
             true == denied = {} /\ services = Workload
  <2>2. \A w \in observed : w \in Workload /\ cloud.role[w] \in Role
    BY <1>0 DEF Cloud
  <2>3. seen \in Inventory
    BY <1>0, <2>2 DEF Inventory, Cloud
  <2>4. full \subseteq Plane /\ true \in BOOLEAN
    BY DEF Plane
  <2>5. broad \subseteq Role
    BY <1>0 DEF Cloud
  <2>6. aws' = [aws EXCEPT !.pc = "inventory", !.seen = seen, !.full = full,
                           !.broad = broad, !.true = true]
    BY <2>1
  <2> HIDE DEF seen, full, broad, true
  <2>7. aws' \in AwsJob
    BY <1>0, <2>3, <2>4, <2>5, <2>6 DEF AwsJob
  <2> QED
    BY <1>0, <1>1, <1>3, <2>7 DEF ReadAws
<1>4. CASE IngestInventory
  <2>1. inventory' \in Inventory /\ inventory'.uses \subseteq inventory'.workloads
        /\ \A e \in inventory'.runsAs : e[1] \in inventory'.workloads
    <3> DEFINE workloads == aws.seen.workloads \cup {w \in inventory.workloads : Kept(w)}
               runsAs == aws.seen.runsAs \cup {e \in inventory.runsAs : Kept(e[1])}
               uses == aws.seen.uses \cup {w \in inventory.uses : Kept(w)}
    <3>1. inventory' = [workloads |-> workloads, runsAs |-> runsAs, uses |-> uses]
      BY <1>4 DEF IngestInventory
    <3>2. workloads \subseteq Workload /\ runsAs \subseteq Workload \X Role /\ uses \subseteq Workload
      BY <1>0 DEF AwsJob, Inventory
    <3>3. uses \subseteq workloads /\ \A e \in runsAs : e[1] \in workloads
      BY <1>0 DEF SeenIsSane
    <3> HIDE DEF workloads, runsAs, uses
    <3> QED
      BY <3>1, <3>2, <3>3 DEF Inventory
  <2>2. coverage' \subseteq Plane
    BY <1>0, <1>4 DEF IngestInventory, Reported, AwsJob
  <2>3. aws' \in AwsJob /\ github' \in GithubJob
    BY <1>0, <1>4, JobUpdates DEF IngestInventory
  <2> QED
    BY <1>0, <1>4, <2>1, <2>2, <2>3 DEF IngestInventory, TypeOK, world
<1>5. CASE IngestRolePosture
  <2>1. findings' \in [roles : [Role -> FindingState], calls : [Path -> FindingState]]
    <3>1. Upsert(findings.roles, aws.broad, "roles" \in aws.full) \in [Role -> FindingState]
      <4>1. /\ findings.roles \in [Role -> FindingState] /\ aws.broad \in SUBSET Role
            /\ ("roles" \in aws.full) \in BOOLEAN
        BY <1>0 DEF AwsJob
      <4> QED
        BY <4>1, UpsertFacts
    <3> QED
      BY <1>0, <1>5, <3>1 DEF IngestRolePosture
  <2>2. coverage' \subseteq Plane
    BY <1>0, <1>5 DEF IngestRolePosture, Reported, AwsJob
  <2>3. aws' \in AwsJob
    BY <1>0, <1>5, JobUpdates DEF IngestRolePosture
  <2> QED
    BY <1>0, <1>5, <2>1, <2>2, <2>3 DEF IngestRolePosture, TypeOK, world
<1>6. CASE QueueSource
  BY <1>0, <1>1, <1>6, Beginnings, JobUpdates DEF QueueSource
<1>7. CASE EvaluateAws
  BY <1>0, <1>1, <1>7, JobUpdates DEF EvaluateAws
<1>8. CASE AwsRaises
  BY <1>0, <1>1, <1>8, Beginnings DEF AwsRaises
<1>9. CASE QueueGithub
  BY <1>0, <1>1, <1>9, Beginnings DEF QueueGithub
<1>10. CASE ClaimGithub
  <2>1. inventory.workloads \in SUBSET Workload
    BY <1>0 DEF Inventory
  <2> QED
    BY <1>0, <1>1, <1>10, <2>1, JobUpdates DEF ClaimGithub
<1>11. CASE Analyze
  <2> DEFINE pin == IF github.pin = None THEN source ELSE github.pin
             edges == {w \in github.targets : pin.reach[w] # {}}
  <2>1. PICK calls \in SUBSET pin.calls, matched \in SUBSET edges,
             reach \in [Workload -> SUBSET Path], full \in SUBSET {"calls", "edges"} :
          /\ "calls" \in full => calls = pin.calls
          /\ "edges" \in full => matched = edges
          /\ \A w \in Workload :
                /\ reach[w] \subseteq IF w \in matched THEN pin.reach[w] ELSE {}
                /\ "edges" \in full /\ w \in matched => reach[w] = pin.reach[w]
          /\ github' = [github EXCEPT !.pc = "posture", !.pin = pin, !.calls = calls,
                !.match = [edges |-> matched, reach |-> reach], !.full = full,
                !.newest = /\ pin = source /\ full = {"calls", "edges"}
                           /\ github.targets = inventory.workloads]
    BY <1>11 DEF Analyze
  <2>2. pin \in Source
    BY <1>0 DEF GithubJob
  <2> HIDE DEF pin
  <2>3. /\ calls \in SUBSET Path /\ matched \in SUBSET Workload /\ full \in SUBSET Plane
        /\ [edges |-> matched, reach |-> reach] \in Correlation
    BY <1>0, <2>2 DEF Source, GithubJob, Plane, Correlation
  <2>4. github' \in GithubJob
    BY <1>0, <2>1, <2>2, <2>3 DEF GithubJob
  <2> QED
    BY <1>0, <1>1, <1>11, <2>4 DEF Analyze
<1>12. CASE Unreadable
  BY <1>0, <1>1, <1>12, JobUpdates DEF Unreadable
<1>13. CASE IngestCallPosture
  <2>1. findings' \in [roles : [Role -> FindingState], calls : [Path -> FindingState]]
    <3>1. Upsert(findings.calls, github.calls, "calls" \in github.full) \in [Path -> FindingState]
      <4>1. /\ findings.calls \in [Path -> FindingState] /\ github.calls \in SUBSET Path
            /\ ("calls" \in github.full) \in BOOLEAN
        BY <1>0 DEF GithubJob
      <4> QED
        BY <4>1, UpsertFacts
    <3> QED
      BY <1>0, <1>13, <3>1 DEF IngestCallPosture
  <2>2. coverage' \subseteq Plane
    BY <1>0, <1>13 DEF IngestCallPosture, Reported, GithubJob
  <2>3. github' \in GithubJob
    BY <1>0, <1>13, JobUpdates DEF IngestCallPosture
  <2> QED
    BY <1>0, <1>13, <2>1, <2>2, <2>3 DEF IngestCallPosture, TypeOK, world
<1>14. CASE IngestCorrelation
  <2> DEFINE kept == IF "edges" \in github.full THEN {} ELSE deployedBy.edges
             edges == github.match.edges \cup kept
             reach == [w \in Workload |->
                          IF w \in github.match.edges THEN github.match.reach[w]
                          ELSE IF w \in kept THEN deployedBy.reach[w] ELSE {}]
  <2>1. deployedBy' = [edges |-> edges, reach |-> reach]
    BY <1>14 DEF IngestCorrelation
  <2>2. kept \subseteq Workload
    BY <1>0 DEF Correlation
  <2>3. /\ github.match.edges \subseteq Workload
        /\ github.match.reach \in [Workload -> SUBSET Path]
        /\ deployedBy.reach \in [Workload -> SUBSET Path]
    BY <1>0 DEF GithubJob, Correlation
  <2> HIDE DEF kept
  <2>4. /\ edges \subseteq Workload /\ reach \in [Workload -> SUBSET Path]
        /\ \A w \in Workload \ edges : reach[w] = {}
    BY <2>2, <2>3
  <2> HIDE DEF edges, reach
  <2>5. deployedBy' \in Correlation
        /\ \A w \in Workload \ deployedBy'.edges : deployedBy'.reach[w] = {}
    BY <2>1, <2>4 DEF Correlation
  <2>6. coverage' \subseteq Plane
    BY <1>0, <1>14 DEF IngestCorrelation, Reported, GithubJob
  <2>7. github' \in GithubJob
    BY <1>0, <1>14, JobUpdates DEF IngestCorrelation
  <2> QED
    BY <1>0, <1>14, <2>5, <2>6, <2>7 DEF IngestCorrelation, TypeOK, world
<1>15. CASE Record
  BY <1>0, <1>1, <1>15, JobUpdates DEF Record
<1>16. CASE EvaluateGithub
  BY <1>0, <1>1, <1>16, JobUpdates DEF EvaluateGithub
<1>17. CASE GithubRaises
  BY <1>0, <1>1, <1>17, JobUpdates, Beginnings DEF GithubRaises
<1>18. CASE EditCloud \/ EditSource
  <2>1. cloud' \in Cloud /\ source' \in Source /\ edits' \in 0..MaxEdits
    BY <1>0, <1>18, IssueEvidenceAssumption DEF EditCloud, EditSource
  <2>2. aws' \in AwsJob /\ github' \in GithubJob
    BY <1>0, <1>18, JobUpdates DEF EditCloud, EditSource
  <2>3. UNCHANGED <<evidence, issues>>
    BY <1>18 DEF EditCloud, EditSource
  <2> QED
    BY <1>0, <2>1, <2>2, <2>3 DEF TypeOK, evidence
<1>19. CASE UNCHANGED vars
  BY <1>0, <1>19 DEF vars, TypeOK
<1> QED
  BY <1>2, <1>3, <1>4, <1>5, <1>6, <1>7, <1>8, <1>9, <1>10, <1>11, <1>12, <1>13, <1>14, <1>15,
     <1>16, <1>17, <1>18, <1>19 DEF Next, AwsStep, GithubStep

-----------------------------------------------------------------------------
(***************************************************************************)
(* The refinement.                                                         *)
(***************************************************************************)
\* The rows that are held, by their kind.
LEMMA HeldRows ==
  \A i : i \in Held <=>
     \/ \E w \in inventory.workloads : i = <<"workload", w>>
     \/ \E w \in inventory.uses : i = <<"uses", w>>
     \/ \E e \in inventory.runsAs : i = <<"runs_as", e>>
     \/ \E w \in deployedBy.edges : i = <<"edge", w>>
     \/ \E q \in Open(findings.roles) : i = <<"role", q>>
     \/ \E p \in Open(findings.calls) : i = <<"call", p>>
BY DEF Held

\* The same of the next state.
LEMMA HeldRowsNext ==
  \A i : i \in Held' <=>
     \/ \E w \in inventory'.workloads : i = <<"workload", w>>
     \/ \E w \in inventory'.uses : i = <<"uses", w>>
     \/ \E e \in inventory'.runsAs : i = <<"runs_as", e>>
     \/ \E w \in deployedBy'.edges : i = <<"edge", w>>
     \/ \E q \in Open(findings'.roles) : i = <<"role", q>>
     \/ \E p \in Open(findings'.calls) : i = <<"call", p>>
BY DEF Held

\* The plane of each kind of row.
LEMMA RowPlanes ==
  /\ \A w : RowPlane(<<"workload", w>>) = w /\ RowPlane(<<"uses", w>>) = w
  /\ \A e : RowPlane(<<"runs_as", e>>) = e[1]
  /\ \A q : RowPlane(<<"role", q>>) = "roles"
  /\ \A p : RowPlane(<<"call", p>>) = "calls"
  /\ \A w : RowPlane(<<"edge", w>>) = "edges"
BY DEF RowPlane

\* A batch observes the planes it reports on.
LEMMA BatchObserves ==
  ASSUME TypeOK', NEW run \in SUBSET Plane, NEW full \in SUBSET Plane, Reported(run, full),
         \A i \in Held' \ Held : RowPlane(i) \in run,
         \A i \in Held \ Held' : RowPlane(i) \in run \cap full
  PROVE  Ledger!Next
<1>1. coverage' \subseteq Plane /\ coverage' \ run = coverage \ run
      /\ run \cap coverage' = run \cap full
  BY DEF Reported, TypeOK
<1>2. Held' \subseteq Rows
  <2> SUFFICES ASSUME NEW i \in Held'
               PROVE  i \in Rows
    OBVIOUS
  <2>1. /\ inventory'.workloads \subseteq Workload /\ inventory'.uses \subseteq Workload
        /\ inventory'.runsAs \subseteq Workload \X Role /\ deployedBy'.edges \subseteq Workload
        /\ Open(findings'.roles) \subseteq Role /\ Open(findings'.calls) \subseteq Path
    BY DEF TypeOK, Inventory, Correlation, Open
  <2> QED
    BY <2>1, HeldRowsNext DEF Rows
<1>3. Ledger!Observe(run)
  BY <1>1, <1>2 DEF Ledger!Observe
<1> QED
  BY <1>3 DEF Ledger!Next

\* Every step of the tenant observes some planes, or leaves the ledger.
LEMMA LedgerStep ==
  ASSUME TypeOK, TypeOK', [Next]_vars
  PROVE  [Ledger!Next]_<<Held, coverage>>
<1>0. /\ inventory \in Inventory /\ deployedBy \in Correlation
      /\ findings \in [roles : [Role -> FindingState], calls : [Path -> FindingState]]
      /\ aws \in AwsJob /\ github \in GithubJob
      /\ {"roles"} \in SUBSET Plane /\ {"calls"} \in SUBSET Plane /\ {"edges"} \in SUBSET Plane
      /\ Workload \in SUBSET Plane
      /\ aws.full \in SUBSET Plane /\ github.full \in SUBSET Plane
  BY DEF TypeOK, AwsJob, GithubJob, Plane
<1>1. ASSUME UNCHANGED evidence PROVE UNCHANGED <<Held, coverage>>
  BY <1>1 DEF evidence, Held
<1>2. CASE IngestInventory
  <2>1. /\ UNCHANGED <<deployedBy, findings>> /\ Reported(Workload, aws.full)
        /\ inventory'.workloads =
              aws.seen.workloads \cup {w \in inventory.workloads : w \notin aws.full}
        /\ inventory'.runsAs =
              aws.seen.runsAs \cup {e \in inventory.runsAs : e[1] \notin aws.full}
        /\ inventory'.uses = aws.seen.uses \cup {w \in inventory.uses : w \notin aws.full}
    BY <1>2 DEF IngestInventory, Kept
  <2>2. /\ inventory'.workloads \subseteq Workload /\ inventory'.uses \subseteq Workload
        /\ inventory'.runsAs \subseteq Workload \X Role
        /\ inventory.workloads \subseteq Workload /\ inventory.uses \subseteq Workload
        /\ inventory.runsAs \subseteq Workload \X Role
    BY DEF TypeOK, Inventory
  <2>3. ASSUME NEW i \in Held' \ Held PROVE RowPlane(i) \in Workload
    <3>1. \/ \E w \in inventory'.workloads : i = <<"workload", w>>
          \/ \E w \in inventory'.uses : i = <<"uses", w>>
          \/ \E e \in inventory'.runsAs : i = <<"runs_as", e>>
      BY <2>1, <2>3, HeldRows, HeldRowsNext
    <3> QED
      BY <2>2, <3>1, RowPlanes
  <2>4. ASSUME NEW i \in Held \ Held' PROVE RowPlane(i) \in Workload \cap aws.full
    <3>1. \/ \E w \in inventory.workloads \ inventory'.workloads : i = <<"workload", w>>
          \/ \E w \in inventory.uses \ inventory'.uses : i = <<"uses", w>>
          \/ \E e \in inventory.runsAs \ inventory'.runsAs : i = <<"runs_as", e>>
      BY <2>1, <2>4, HeldRows, HeldRowsNext
    <3> QED
      BY <2>1, <2>2, <3>1, RowPlanes
  <2> QED
    BY <1>0, <2>1, <2>3, <2>4, BatchObserves
<1>3. CASE IngestRolePosture
  <2> DEFINE rows == Upsert(findings.roles, aws.broad, "roles" \in aws.full)
  <2>1. /\ UNCHANGED <<inventory, deployedBy>> /\ Reported({"roles"}, aws.full)
        /\ findings'.roles = rows /\ findings'.calls = findings.calls
    BY <1>0, <1>3 DEF IngestRolePosture
  <2>2. "roles" \notin aws.full => Open(findings.roles) \subseteq Open(rows)
    <3>1. /\ findings.roles \in [Role -> FindingState] /\ aws.broad \in SUBSET Role
          /\ ("roles" \in aws.full) \in BOOLEAN
      BY <1>0 DEF AwsJob
    <3> QED
      BY <3>1, UpsertFacts
  <2> HIDE DEF rows
  <2>3. ASSUME NEW i \in Held' \ Held PROVE RowPlane(i) \in {"roles"}
    <3>1. \E q \in Open(findings'.roles) : i = <<"role", q>>
      BY <2>1, <2>3, HeldRows, HeldRowsNext
    <3> QED
      BY <3>1, RowPlanes
  <2>4. ASSUME NEW i \in Held \ Held' PROVE RowPlane(i) \in {"roles"} \cap aws.full
    <3>1. \E q \in Open(findings.roles) \ Open(rows) : i = <<"role", q>>
      BY <2>1, <2>4, HeldRows, HeldRowsNext
    <3> QED
      BY <2>2, <3>1, RowPlanes
  <2> QED
    BY <1>0, <2>1, <2>3, <2>4, BatchObserves
<1>4. CASE IngestCallPosture
  <2> DEFINE rows == Upsert(findings.calls, github.calls, "calls" \in github.full)
  <2>1. /\ UNCHANGED <<inventory, deployedBy>> /\ Reported({"calls"}, github.full)
        /\ findings'.calls = rows /\ findings'.roles = findings.roles
    BY <1>0, <1>4 DEF IngestCallPosture
  <2>2. "calls" \notin github.full => Open(findings.calls) \subseteq Open(rows)
    <3>1. /\ findings.calls \in [Path -> FindingState] /\ github.calls \in SUBSET Path
          /\ ("calls" \in github.full) \in BOOLEAN
      BY <1>0 DEF GithubJob
    <3> QED
      BY <3>1, UpsertFacts
  <2> HIDE DEF rows
  <2>3. ASSUME NEW i \in Held' \ Held PROVE RowPlane(i) \in {"calls"}
    <3>1. \E p \in Open(findings'.calls) : i = <<"call", p>>
      BY <2>1, <2>3, HeldRows, HeldRowsNext
    <3> QED
      BY <3>1, RowPlanes
  <2>4. ASSUME NEW i \in Held \ Held' PROVE RowPlane(i) \in {"calls"} \cap github.full
    <3>1. \E p \in Open(findings.calls) \ Open(rows) : i = <<"call", p>>
      BY <2>1, <2>4, HeldRows, HeldRowsNext
    <3> QED
      BY <2>2, <3>1, RowPlanes
  <2> QED
    BY <1>0, <2>1, <2>3, <2>4, BatchObserves
<1>5. CASE IngestCorrelation
  <2>1. /\ UNCHANGED <<inventory, findings>> /\ Reported({"edges"}, github.full)
        /\ "edges" \notin github.full => deployedBy.edges \subseteq deployedBy'.edges
    BY <1>5 DEF IngestCorrelation
  <2>3. ASSUME NEW i \in Held' \ Held PROVE RowPlane(i) \in {"edges"}
    <3>1. \E w \in deployedBy'.edges : i = <<"edge", w>>
      BY <2>1, <2>3, HeldRows, HeldRowsNext
    <3> QED
      BY <3>1, RowPlanes
  <2>4. ASSUME NEW i \in Held \ Held' PROVE RowPlane(i) \in {"edges"} \cap github.full
    <3>1. \E w \in deployedBy.edges \ deployedBy'.edges : i = <<"edge", w>>
      BY <2>1, <2>4, HeldRows, HeldRowsNext
    <3> QED
      BY <2>1, <3>1, RowPlanes
  <2> QED
    BY <1>0, <2>1, <2>3, <2>4, BatchObserves
<1>6. CASE \/ StartAws \/ ReadAws \/ QueueSource \/ EvaluateAws \/ AwsRaises
           \/ QueueGithub \/ ClaimGithub \/ Analyze \/ Unreadable \/ Record \/ EvaluateGithub
           \/ GithubRaises \/ EditCloud \/ EditSource \/ UNCHANGED vars
  <2>1. UNCHANGED evidence
    BY <1>6 DEF StartAws, ReadAws, QueueSource, EvaluateAws, AwsRaises, QueueGithub, ClaimGithub,
       Analyze, Unreadable, Record, EvaluateGithub, GithubRaises, EditCloud, EditSource, vars,
       evidence
  <2> QED
    BY <1>1, <2>1
<1> QED
  BY <1>2, <1>3, <1>4, <1>5, <1>6 DEF Next, AwsStep, GithubStep

\* At the start nothing is held.
LEMMA LedgerInit == Init => Ledger!Init
BY DEF Init, Ledger!Init, Held, NoInventory, NoCorrelation, Open

-----------------------------------------------------------------------------
(***************************************************************************)
(* What a collection knows.                                                *)
(***************************************************************************)
\* The batch that a read makes of the account.
LEMMA ReadFacts ==
  ASSUME TypeOK, ReadAws
  PROVE  /\ aws'.pc = "inventory"
         /\ \E observed \in SUBSET {w \in Workload : cloud.role[w] # None} :
              /\ aws'.seen = [workloads |-> observed,
                              runsAs |-> {<<w, cloud.role[w]>> : w \in observed},
                              uses |-> observed \cap cloud.model]
              /\ aws'.true =>
                    /\ {w \in Workload : cloud.role[w] # None} \subseteq observed
                    /\ Workload \subseteq aws'.full /\ "roles" \in aws'.full
                    /\ aws'.broad = Asked(aws'.seen) \cap cloud.broad
<1>0. aws \in AwsJob
  BY DEF TypeOK
<1>1. PICK services \in SUBSET Workload,
           observed \in SUBSET {w \in Workload : cloud.role[w] # None},
           denied \in SUBSET Role :
        LET seen == [workloads |-> observed,
                     runsAs |-> {<<w, cloud.role[w]>> : w \in observed},
                     uses |-> observed \cap cloud.model] IN
        /\ \A w \in services : cloud.role[w] # None => w \in observed
        /\ denied \subseteq Asked(seen)
        /\ aws' = [aws EXCEPT !.pc = "inventory", !.seen = seen,
              !.full = services \cup (IF denied = {} THEN {"roles"} ELSE {}),
              !.broad = (Asked(seen) \ denied) \cap cloud.broad,
              !.true = denied = {} /\ services = Workload]
  BY DEF ReadAws
<1> DEFINE seen == [workloads |-> observed,
                    runsAs |-> {<<w, cloud.role[w]>> : w \in observed},
                    uses |-> observed \cap cloud.model]
           full == services \cup (IF denied = {} THEN {"roles"} ELSE {})
           broad == (Asked(seen) \ denied) \cap cloud.broad
           true == denied = {} /\ services = Workload
<1>2. /\ true => /\ {w \in Workload : cloud.role[w] # None} \subseteq observed
                 /\ Workload \subseteq full /\ "roles" \in full
                 /\ broad = Asked(seen) \cap cloud.broad
      /\ aws' = [aws EXCEPT !.pc = "inventory", !.seen = seen, !.full = full,
                            !.broad = broad, !.true = true]
  BY <1>1
<1> HIDE DEF full, broad, true
<1>3. /\ aws'.pc = "inventory" /\ aws'.seen = seen /\ aws'.full = full /\ aws'.broad = broad
      /\ aws'.true = true
  <2> HIDE DEF seen
  <2> QED
    BY <1>0, <1>2 DEF AwsJob
<1> QED
  BY <1>2, <1>3

\* What the batch names of the stored exists, and the account stays sane.
LEMMA SaneStep ==
  ASSUME TypeOK, SeenIsSane, CloudIsSane, [Next]_vars
  PROVE  SeenIsSane' /\ CloudIsSane'
<1>0. aws \in AwsJob
  BY DEF TypeOK
<1>1. CloudIsSane'
  <2>1. cloud' = cloud \/ EditCloud
    BY DEF Next, AwsStep, GithubStep, StartAws, ReadAws, IngestInventory, IngestRolePosture,
       QueueSource, EvaluateAws, AwsRaises, QueueGithub, ClaimGithub, Analyze, Unreadable,
       IngestCallPosture, IngestCorrelation, Record, EvaluateGithub, GithubRaises, EditSource,
       vars, world
  <2> QED
    BY <2>1 DEF CloudIsSane, EditCloud
<1>2. CASE ReadAws
  <2>1. PICK observed \in SUBSET {w \in Workload : cloud.role[w] # None} :
          aws'.seen = [workloads |-> observed,
                       runsAs |-> {<<w, cloud.role[w]>> : w \in observed},
                       uses |-> observed \cap cloud.model]
    BY <1>0, <1>2, ReadFacts
  <2> QED
    BY <1>1, <2>1 DEF SeenIsSane
<1>3. CASE ~ReadAws
  <2>1. aws'.seen = aws.seen \/ aws'.seen = NoInventory
    <3>1. CASE StartAws \/ AwsRaises \/ IngestRolePosture
      <4>1. \/ aws' = NoBatch \/ aws' = [NoBatch EXCEPT !.pc = "idle"]
            \/ aws' = [NoBatch EXCEPT !.pc = "queueing", !.true = aws.true]
        BY <3>1 DEF StartAws, AwsRaises, IngestRolePosture
      <4>2. /\ NoBatch.seen = NoInventory /\ [NoBatch EXCEPT !.pc = "idle"].seen = NoInventory
            /\ \A b : [NoBatch EXCEPT !.pc = "queueing", !.true = b].seen = NoInventory
        BY DEF NoBatch
      <4> QED
        BY <4>1, <4>2
    <3>2. CASE IngestInventory \/ QueueSource \/ EvaluateAws \/ EditCloud
      BY <1>0, <3>2 DEF IngestInventory, QueueSource, EvaluateAws, EditCloud, AwsJob
    <3>3. CASE GithubStep \/ EditSource \/ UNCHANGED vars
      BY <3>3 DEF GithubStep, QueueGithub, ClaimGithub, Analyze, Unreadable, IngestCallPosture,
         IngestCorrelation, Record, EvaluateGithub, GithubRaises, EditSource, vars
    <3> QED
      BY <1>3, <3>1, <3>2, <3>3 DEF Next, AwsStep
  <2> QED
    BY <1>1, <2>1 DEF SeenIsSane, NoInventory
<1> QED
  BY <1>1, <1>2, <1>3

\* Of the account, a step that is not of its collection changes nothing this collection
\* relies on.
LEMMA AwsStays ==
  ASSUME AwsKnows, UNCHANGED <<cloud, aws, inventory>>, findings'.roles = findings.roles
  PROVE  AwsKnows'
BY DEF AwsKnows, IsCloud, BroadRoles

\* The collection of the account keeps to what it has read.
LEMMA AwsKnowsStep ==
  ASSUME TypeOK, CloudIsSane, AwsKnows, [Next]_vars
  PROVE  AwsKnows'
<1>0. /\ aws \in AwsJob /\ cloud \in Cloud /\ inventory \in Inventory
      /\ findings \in [roles : [Role -> FindingState], calls : [Path -> FindingState]]
  BY DEF TypeOK
<1>1. CASE StartAws \/ AwsRaises
  <2>1. ~aws'.true
    BY <1>1 DEF StartAws, AwsRaises, NoBatch
  <2> QED
    BY <2>1 DEF AwsKnows
<1>2. CASE ReadAws
  <2> SUFFICES ASSUME aws'.true
               PROVE  IsCloud(aws.seen)' /\ Workload \subseteq aws'.full /\ "roles" \in aws'.full
                      /\ aws'.broad = BroadRoles /\ BroadRoles' = BroadRoles
    BY <1>2, ReadFacts DEF AwsKnows
  <2>1. PICK observed \in SUBSET {w \in Workload : cloud.role[w] # None} :
          /\ aws'.seen = [workloads |-> observed,
                          runsAs |-> {<<w, cloud.role[w]>> : w \in observed},
                          uses |-> observed \cap cloud.model]
          /\ {w \in Workload : cloud.role[w] # None} \subseteq observed
          /\ Workload \subseteq aws'.full /\ "roles" \in aws'.full
          /\ aws'.broad = Asked(aws'.seen) \cap cloud.broad
    BY <1>0, <1>2, ReadFacts
  <2>2. cloud' = cloud
    BY <1>2 DEF ReadAws, world
  <2>3. cloud.model \subseteq Workload /\ cloud.broad \subseteq Role
    BY <1>0 DEF Cloud
  <2>4. aws'.seen.uses = cloud.model /\ aws'.seen.workloads = {w \in Workload : cloud.role[w] # None}
        /\ aws'.seen.runsAs = {<<w, cloud.role[w]>> : w \in aws'.seen.workloads}
    BY <2>1, <2>3 DEF CloudIsSane
  <2>5. IsCloud(aws.seen)'
    BY <2>2, <2>4 DEF IsCloud
  <2>6. aws'.broad = BroadRoles
    <3>1. \A q \in Role : q \in Asked(aws'.seen) <=> \E w \in cloud.model : cloud.role[w] = q
      BY <2>3, <2>4 DEF Asked, CloudIsSane
    <3> QED
      BY <2>1, <2>3, <3>1 DEF BroadRoles
  <2> QED
    BY <2>1, <2>2, <2>5, <2>6 DEF BroadRoles
<1>3. CASE IngestInventory
  <2> SUFFICES ASSUME aws.true
               PROVE  /\ aws'.pc = "posture" /\ aws'.broad = BroadRoles' /\ "roles" \in aws'.full
                      /\ IsCloud(inventory)'
    BY <1>0, <1>3 DEF IngestInventory, AwsJob, AwsKnows
  <2>1. /\ IsCloud(aws.seen) /\ Workload \subseteq aws.full
        /\ aws.broad = BroadRoles /\ "roles" \in aws.full
    BY <1>3 DEF IngestInventory, AwsKnows
  <2>2. \A w \in Workload : ~Kept(w)
    BY <2>1 DEF Kept
  <2>3. /\ \A w \in inventory.workloads \cup inventory.uses : ~Kept(w)
        /\ \A e \in inventory.runsAs : ~Kept(e[1])
    BY <1>0, <2>2 DEF Inventory
  <2>4. /\ inventory'.workloads = aws.seen.workloads /\ inventory'.runsAs = aws.seen.runsAs
        /\ inventory'.uses = aws.seen.uses
    BY <1>3, <2>3 DEF IngestInventory
  <2>5. cloud' = cloud /\ aws'.pc = "posture" /\ aws'.broad = aws.broad /\ aws'.full = aws.full
    BY <1>0, <1>3 DEF IngestInventory, AwsJob, world
  <2> QED
    BY <2>1, <2>4, <2>5 DEF IsCloud, BroadRoles
<1>4. CASE IngestRolePosture
  <2> SUFFICES ASSUME aws.true
               PROVE  /\ aws'.pc = "queueing" /\ IsCloud(inventory)'
                      /\ Open(findings'.roles) = BroadRoles'
    BY <1>0, <1>4 DEF IngestRolePosture, NoBatch, AwsKnows
  <2>1. IsCloud(inventory) /\ aws.broad = BroadRoles /\ "roles" \in aws.full
    BY <1>4 DEF IngestRolePosture, AwsKnows
  <2>2. Open(Upsert(findings.roles, aws.broad, TRUE)) = aws.broad
    <3>1. findings.roles \in [Role -> FindingState] /\ aws.broad \in SUBSET Role
      BY <1>0 DEF AwsJob
    <3> QED
      BY <3>1, CompleteBatch
  <2>3. findings'.roles = Upsert(findings.roles, aws.broad, TRUE)
    BY <1>0, <1>4, <2>1 DEF IngestRolePosture
  <2>4. cloud' = cloud /\ inventory' = inventory /\ aws'.pc = "queueing"
    BY <1>4 DEF IngestRolePosture, world, NoBatch
  <2>5. IsCloud(inventory)' /\ BroadRoles' = BroadRoles
    BY <2>1, <2>4 DEF IsCloud, BroadRoles
  <2>6. Open(findings'.roles) = BroadRoles
    BY <2>1, <2>2, <2>3
  <2> QED
    BY <2>4, <2>5, <2>6
<1>5. CASE QueueSource \/ EvaluateAws
  <2>1. /\ aws.pc \in {"queueing", "evaluating"} /\ aws'.pc \in {"evaluating", "idle"}
        /\ aws'.true = aws.true /\ UNCHANGED <<cloud, inventory, findings>>
    BY <1>0, <1>5 DEF QueueSource, EvaluateAws, AwsJob, world, evidence
  <2> QED
    BY <2>1 DEF AwsKnows, IsCloud, BroadRoles
<1>6. CASE EditCloud
  <2>1. ~aws'.true
    BY <1>0, <1>6 DEF EditCloud, AwsJob
  <2> QED
    BY <2>1 DEF AwsKnows
<1>7. CASE GithubStep \/ EditSource \/ UNCHANGED vars
  <2>1. UNCHANGED <<cloud, aws, inventory>> /\ findings'.roles = findings.roles
    BY <1>0, <1>7 DEF GithubStep, QueueGithub, ClaimGithub, Analyze, Unreadable,
       IngestCallPosture, IngestCorrelation, Record, EvaluateGithub, GithubRaises, EditSource,
       vars, world, evidence
  <2> QED
    BY <2>1, AwsStays
<1> QED
  BY <1>1, <1>2, <1>3, <1>4, <1>5, <1>6, <1>7 DEF Next, AwsStep

\* The match a complete analysis makes of a commit.
LEMMA AnalyzeFacts ==
  ASSUME TypeOK, Analyze
  PROVE  /\ github'.pc = "posture" /\ github'.done = github.done
         /\ github'.newest =>
               /\ github'.full = {"calls", "edges"} /\ github'.calls = source.calls
               /\ github'.match.edges = {w \in inventory.workloads : source.reach[w] # {}}
               /\ \A w \in github'.match.edges : github'.match.reach[w] = source.reach[w]
<1>0. github \in GithubJob /\ inventory.workloads \subseteq Workload
  BY DEF TypeOK, Inventory
<1> DEFINE pin == IF github.pin = None THEN source ELSE github.pin
           edges == {w \in github.targets : pin.reach[w] # {}}
<1>1. PICK calls \in SUBSET pin.calls, matched \in SUBSET edges,
           reach \in [Workload -> SUBSET Path], full \in SUBSET {"calls", "edges"} :
        /\ "calls" \in full => calls = pin.calls
        /\ "edges" \in full => matched = edges
        /\ \A w \in Workload :
              /\ reach[w] \subseteq IF w \in matched THEN pin.reach[w] ELSE {}
              /\ "edges" \in full /\ w \in matched => reach[w] = pin.reach[w]
        /\ github' = [github EXCEPT !.pc = "posture", !.pin = pin, !.calls = calls,
              !.match = [edges |-> matched, reach |-> reach], !.full = full,
              !.newest = /\ pin = source /\ full = {"calls", "edges"}
                         /\ github.targets = inventory.workloads]
  BY DEF Analyze
<1> DEFINE match == [edges |-> matched, reach |-> reach]
           newest == /\ pin = source /\ full = {"calls", "edges"}
                     /\ github.targets = inventory.workloads
<1>2. github' = [github EXCEPT !.pc = "posture", !.pin = pin, !.calls = calls,
              !.match = match, !.full = full, !.newest = newest]
  BY <1>1
<1>3. newest => /\ full = {"calls", "edges"} /\ calls = source.calls
                /\ match.edges = {w \in inventory.workloads : source.reach[w] # {}}
                /\ \A w \in match.edges : match.reach[w] = source.reach[w]
  BY <1>0, <1>1
<1> HIDE DEF pin, match, newest
<1>4. /\ github'.pc = "posture" /\ github'.done = github.done /\ github'.newest = newest
      /\ github'.full = full /\ github'.calls = calls /\ github'.match = match
  BY <1>0, <1>2 DEF GithubJob
<1> QED
  BY <1>3, <1>4

\* Of the source, a step that is not of its collection changes nothing this collection
\* relies on.
LEMMA GithubStays ==
  ASSUME GithubKnows, UNCHANGED <<source, github, deployedBy>>,
         findings'.calls = findings.calls, inventory'.workloads = inventory.workloads
  PROVE  GithubKnows'
BY DEF GithubKnows, IsMatch

\* The collection of the source keeps to what it has read.
LEMMA GithubKnowsStep ==
  ASSUME TypeOK, GithubKnows, [Next]_vars
  PROVE  GithubKnows'
<1>0. /\ github \in GithubJob /\ deployedBy \in Correlation /\ source \in Source
      /\ findings \in [roles : [Role -> FindingState], calls : [Path -> FindingState]]
      /\ inventory.workloads \subseteq Workload
  BY DEF TypeOK, Inventory
<1>1. CASE StartAws \/ ReadAws \/ IngestRolePosture \/ EvaluateAws \/ AwsRaises \/ EditCloud
           \/ UNCHANGED vars
  <2>1. UNCHANGED <<source, github, deployedBy>> /\ findings'.calls = findings.calls
        /\ inventory' = inventory
    BY <1>0, <1>1 DEF StartAws, ReadAws, IngestRolePosture, EvaluateAws, AwsRaises, EditCloud,
       vars, world, evidence
  <2> QED
    BY <2>1, GithubStays
<1>2. CASE IngestInventory
  <2>1. /\ github'.pc = github.pc /\ github'.done = github.done
        /\ github'.calls = github.calls /\ github'.match = github.match
        /\ github'.full = github.full
        /\ github'.newest => github.newest /\ inventory'.workloads = inventory.workloads
        /\ UNCHANGED <<source, deployedBy, findings>>
    BY <1>0, <1>2 DEF IngestInventory, GithubJob, world
  <2> QED
    BY <2>1 DEF GithubKnows, IsMatch
<1>3. CASE QueueSource \/ QueueGithub
  <2>1. UNCHANGED <<source, inventory, deployedBy, findings>>
        /\ (github' = github \/ github' = NewJob)
    BY <1>3 DEF QueueSource, QueueGithub, world, evidence
  <2>2. NewJob.pc = "queued" /\ ~NewJob.newest
    BY DEF NewJob
  <2> QED
    BY <2>1, <2>2, GithubStays DEF GithubKnows
<1>4. CASE ClaimGithub
  <2>1. UNCHANGED <<source, inventory, deployedBy, findings>> /\ github.pc = "queued"
        /\ github'.newest = github.newest /\ github'.done = github.done
        /\ github'.pc = IF github.done THEN "evaluating" ELSE "targets"
    BY <1>0, <1>4 DEF ClaimGithub, world, evidence, GithubJob
  <2> QED
    BY <2>1 DEF GithubKnows, IsMatch
<1>5. CASE Analyze
  <2>1. UNCHANGED <<source, inventory>> /\ github.pc = "targets"
    BY <1>5 DEF Analyze, world, evidence
  <2>2. ~github.done
    BY <2>1 DEF GithubKnows
  <2> QED
    BY <1>5, <2>1, <2>2, AnalyzeFacts DEF GithubKnows, IsMatch
<1>6. CASE Unreadable
  <2>1. github.pc = "targets" /\ github'.pc = "recording" /\ github'.done = github.done
        /\ ~github'.newest
    BY <1>0, <1>6 DEF Unreadable, Analyzed, GithubJob
  <2> QED
    BY <2>1 DEF GithubKnows
<1>7. CASE IngestCallPosture
  <2>1. /\ UNCHANGED <<source, inventory, deployedBy>> /\ github.pc = "posture"
        /\ github'.pc = "correlation" /\ github'.done = github.done
        /\ github'.newest = github.newest
        /\ github'.match = github.match /\ github'.full = github.full
        /\ findings'.calls = Upsert(findings.calls, github.calls, "calls" \in github.full)
    BY <1>0, <1>7 DEF IngestCallPosture, world, GithubJob
  <2>2. Open(Upsert(findings.calls, github.calls, TRUE)) = github.calls
    <3>1. findings.calls \in [Path -> FindingState] /\ github.calls \in SUBSET Path
      BY <1>0 DEF GithubJob
    <3> QED
      BY <3>1, CompleteBatch
  <2>3. github.newest => Open(findings'.calls) = source.calls /\ IsMatch(github.match)
                         /\ github.full = {"calls", "edges"}
    BY <2>1, <2>2 DEF GithubKnows
  <2>4. ~github.done
    BY <2>1 DEF GithubKnows
  <2> QED
    BY <2>1, <2>3, <2>4 DEF GithubKnows, IsMatch
<1>8. CASE IngestCorrelation
  <2>1. /\ UNCHANGED <<source, inventory, findings>> /\ github.pc = "correlation"
        /\ github'.pc = "recording" /\ github'.done = github.done
        /\ github'.newest = github.newest
    BY <1>0, <1>8 DEF IngestCorrelation, world, GithubJob, Analyzed
  <2>2. ~github.done
    BY <2>1 DEF GithubKnows
  <2>3. ASSUME github.newest PROVE IsMatch(deployedBy)'
    <3>1. IsMatch(github.match) /\ "edges" \in github.full
      BY <2>1, <2>3 DEF GithubKnows
    <3>2. github.match.edges \subseteq Workload
      BY <1>0 DEF GithubJob, Correlation
    <3>3. /\ deployedBy'.edges = github.match.edges
          /\ \A w \in github.match.edges : deployedBy'.reach[w] = github.match.reach[w]
      BY <1>8, <3>1, <3>2 DEF IngestCorrelation
    <3> QED
      BY <2>1, <3>1, <3>3 DEF IsMatch
  <2>4. github.newest => Open(findings'.calls) = source'.calls
    BY <2>1 DEF GithubKnows
  <2> QED
    BY <2>1, <2>2, <2>3, <2>4 DEF GithubKnows
<1>9. CASE Record \/ EvaluateGithub
  <2>1. /\ UNCHANGED <<source, inventory, deployedBy, findings>>
        /\ github.pc \in {"recording", "evaluating"} /\ github'.pc \in {"evaluating", "idle"}
        /\ github'.newest = github.newest
    BY <1>0, <1>9 DEF Record, EvaluateGithub, world, evidence, GithubJob
  <2> QED
    BY <2>1 DEF GithubKnows, IsMatch
<1>10. CASE GithubRaises
  <2>1. UNCHANGED <<source, inventory, deployedBy, findings>>
    BY <1>10 DEF GithubRaises, world, evidence
  <2>2. CASE github' = [NewJob EXCEPT !.pc = "idle"]
    BY <2>2 DEF GithubKnows, NewJob
  <2>3. CASE github' = [Analyzed(github) EXCEPT !.pc = "queued", !.newest = @ /\ github.done]
    <3>1. /\ github'.pc = "queued" /\ github'.done = github.done
          /\ github'.newest = (github.newest /\ github.done)
      BY <1>0, <2>3 DEF Analyzed, GithubJob
    <3> QED
      BY <2>1, <3>1 DEF GithubKnows, IsMatch
  <2> QED
    BY <1>10, <2>2, <2>3 DEF GithubRaises
<1>11. CASE EditSource
  <2>1. ~github'.newest /\ github'.pc = github.pc /\ github'.done = github.done
    BY <1>0, <1>11 DEF EditSource, GithubJob
  <2> QED
    BY <2>1 DEF GithubKnows
<1> QED
  BY <1>1, <1>2, <1>3, <1>4, <1>5, <1>6, <1>7, <1>8, <1>9, <1>10, <1>11
     DEF Next, AwsStep, GithubStep

\* Nothing is stored between the last evaluation and the end of its job.
LEMMA SettledStep ==
  ASSUME TypeOK, Settled, [Next]_vars
  PROVE  Settled'
<1>0. aws \in AwsJob /\ github \in GithubJob
  BY DEF TypeOK
<1> SUFFICES ASSUME aws'.pc = "idle", aws'.true, github'.pc = "idle", github'.newest
             PROVE  \A k \in Key : issues'[k] = "open" <=> Confirmed(k)'
  BY DEF Settled
<1>1. CASE EvaluateAws \/ EvaluateGithub
  <2>1. issues' = Evaluated /\ UNCHANGED evidence
    BY <1>1 DEF EvaluateAws, EvaluateGithub
  <2> QED
    BY <2>1, EvaluatedFacts DEF evidence, Confirmed, Joined
<1>3. ~StartAws /\ ~ReadAws /\ ~IngestInventory /\ ~IngestRolePosture /\ ~QueueSource
  <2>1. ~StartAws
    BY DEF StartAws, NoBatch
  <2>2. ~ReadAws
    BY ReadFacts
  <2>3. ~IngestInventory /\ ~QueueSource
    BY <1>0 DEF IngestInventory, QueueSource, AwsJob
  <2>4. ~IngestRolePosture
    <3>1. \A b : [NoBatch EXCEPT !.pc = "queueing", !.true = b].pc = "queueing"
      BY DEF NoBatch
    <3> QED
      BY <3>1 DEF IngestRolePosture
  <2> QED
    BY <2>1, <2>2, <2>3, <2>4
<1>4. ~AwsRaises /\ ~EditCloud /\ ~EditSource
  <2>1. ~AwsRaises
    BY DEF AwsRaises, NoBatch
  <2>2. ~EditCloud /\ ~EditSource
    BY <1>0 DEF EditCloud, EditSource, AwsJob, GithubJob
  <2> QED
    BY <2>1, <2>2
<1>6. ~QueueGithub /\ ~ClaimGithub /\ ~Analyze /\ ~Unreadable /\ ~IngestCallPosture
  <2>1. ~QueueGithub
    BY DEF QueueGithub, NewJob
  <2>2. ~ClaimGithub /\ ~IngestCallPosture
    BY <1>0 DEF ClaimGithub, IngestCallPosture, GithubJob
  <2>3. ~Analyze
    BY AnalyzeFacts
  <2>4. ~Unreadable
    BY <1>0 DEF Unreadable, Analyzed, GithubJob
  <2> QED
    BY <2>1, <2>2, <2>3, <2>4
<1>7. ~IngestCorrelation /\ ~Record /\ ~GithubRaises
  <2>1. ~IngestCorrelation
    BY <1>0 DEF IngestCorrelation, Analyzed, GithubJob
  <2>2. ~Record
    <3>1. [github EXCEPT !.pc = "evaluating", !.done = TRUE, !.pin = None].pc = "evaluating"
      BY <1>0 DEF GithubJob
    <3> QED
      BY <3>1 DEF Record
  <2>3. ~GithubRaises
    <3>1. ~[NewJob EXCEPT !.pc = "idle"].newest
      BY DEF NewJob
    <3>2. ASSUME GithubRaises
          PROVE  FALSE
      <4>1. CASE github' = [NewJob EXCEPT !.pc = "idle"]
        BY <4>1, <3>1
      <4>2. CASE github' = [Analyzed(github) EXCEPT !.pc = "queued",
                                                  !.newest = @ /\ github.done]
        <5>1. github'.pc = "queued"
          BY <4>2, <1>0 DEF Analyzed, GithubJob
        <5> QED
          BY <5>1
      <4> QED
        BY <3>2, <4>1, <4>2 DEF GithubRaises
    <3> QED
      BY <3>2
  <2> QED
    BY <2>1, <2>2, <2>3
<1>5. CASE UNCHANGED vars
  BY <1>5 DEF Settled, vars, Confirmed, Joined
<1> QED
  BY <1>1, <1>3, <1>4, <1>5, <1>6, <1>7 DEF Next, AwsStep, GithubStep

\* Every step keeps the invariant.
LEMMA Inductive == IInv /\ [Next]_vars => IInv'
BY TypeNext, SaneStep, AwsKnowsStep, GithubKnowsStep, SettledStep DEF IInv

\* At the start nothing is read, stored or evaluated.
LEMMA Initial == Init => IInv
<1> SUFFICES ASSUME Init
             PROVE  IInv
  OBVIOUS
<1>1. TypeOK
  <2>1. /\ inventory \in Inventory /\ deployedBy \in Correlation
        /\ aws \in AwsJob /\ github \in GithubJob
    BY Beginnings DEF Init
  <2>2. findings \in [roles : [Role -> FindingState], calls : [Path -> FindingState]]
    BY DEF Init, FindingState
  <2>3. issues \in [Key -> {"absent", "open", "unknown", "resolved"}] /\ edits \in 0..MaxEdits
    BY IssueEvidenceAssumption DEF Init
  <2>4. /\ \A w \in Workload \ deployedBy.edges : deployedBy.reach[w] = {}
        /\ \A e \in inventory.runsAs : e[1] \in inventory.workloads
        /\ inventory.uses \subseteq inventory.workloads
    BY DEF Init, NoCorrelation, NoInventory
  <2> QED
    BY <2>1, <2>2, <2>3, <2>4 DEF Init, TypeOK
<1>2. SeenIsSane /\ CloudIsSane
  BY DEF Init, SeenIsSane, CloudIsSane, NoBatch, NoInventory
<1>3. AwsKnows /\ GithubKnows /\ Settled
  BY DEF Init, AwsKnows, GithubKnows, Settled, NoBatch, NewJob
<1> QED
  BY <1>1, <1>2, <1>3 DEF IInv

-----------------------------------------------------------------------------
\* The inductive invariant of the tenant holds in every reachable state: of its rows and of
\* what its two collections carry.
THEOREM Invariance == Spec => []IInv
BY Initial, Inductive, PTL DEF Spec

\* The providers, the rows of evidence and the jobs keep their types.
THEOREM TypeCorrect == Spec => []TypeOK
<1>1. IInv => TypeOK
  BY DEF IInv
<1> QED
  BY <1>1, Invariance, PTL

\* The store implements the ledger, whatever is read in part, retried or lost: a row of
\* inventory, a finding or an edge is given up only by a transaction that reports its plane
\* as covered completely (ingest, ingest_findings).
THEOREM StoreIsLedger == Spec => LedgerSpec
<1>1. IInv /\ IInv' /\ [Next]_vars => [Ledger!Next]_<<Held, coverage>>
  BY LedgerStep DEF IInv
<1> QED
  BY <1>1, LedgerInit, Invariance, PTL DEF Spec, LedgerSpec, Ledger!Spec

\* When both collections have read all of what is there now, the open issues are exactly the
\* gaps (evaluate_issues), whatever came before.
THEOREM IssuesTellGaps == Spec => []IssuesAreGaps
<1>1. IInv => IssuesAreGaps
  <2> SUFFICES ASSUME IInv, aws.pc = "idle", aws.true, github.pc = "idle", github.newest,
                      NEW k \in Key
               PROVE  (issues[k] = "open") <=> Gap(k)
    BY DEF IssuesAreGaps
  <2>1. /\ IsCloud(inventory) /\ Open(findings.roles) = BroadRoles
        /\ Open(findings.calls) = source.calls /\ IsMatch(deployedBy)
    BY DEF IInv, AwsKnows, GithubKnows
  <2>2. PICK w \in Workload, q \in Role, p \in Path : k = <<w, q, p>>
    BY DEF Key
  <2>3. k[1] = w /\ k[2] = q /\ k[3] = p
    BY <2>2
  <2>4. /\ findings.roles \in [Role -> FindingState] /\ findings.calls \in [Path -> FindingState]
        /\ cloud.model \subseteq Workload /\ cloud.broad \subseteq Role
        /\ source.calls \subseteq Path /\ source.reach \in [Workload -> SUBSET Path]
    BY DEF IInv, TypeOK, Cloud, Source
  <2>5. /\ findings.roles[q] = "open" <=> q \in BroadRoles
        /\ findings.calls[p] = "open" <=> p \in source.calls
    BY <2>1, <2>4 DEF Open
  <2>6. /\ w \in deployedBy.edges /\ p \in deployedBy.reach[w] <=>
              cloud.role[w] # None /\ p \in source.reach[w]
    BY <2>1 DEF IsMatch, IsCloud
  <2>7. <<w, q>> \in inventory.runsAs <=> cloud.role[w] # None /\ cloud.role[w] = q
    BY <2>1 DEF IsCloud
  <2>8. w \in cloud.model => cloud.role[w] # None
    BY DEF IInv, CloudIsSane
  <2>9. Confirmed(k) <=> Gap(k)
    BY <2>1, <2>3, <2>5, <2>6, <2>7, <2>8 DEF Confirmed, Joined, Gap, IsCloud, BroadRoles
  <2> QED
    BY <2>9 DEF IInv, Settled
<1> QED
  BY <1>1, Invariance, PTL

=============================================================================
