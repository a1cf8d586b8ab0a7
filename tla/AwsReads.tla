------------------------------- MODULE AwsReads -------------------------------
(***************************************************************************)
(* The reads of the AWS connectors: AgentCore and Bedrock of a Region, the *)
(* compute services of a Region, one selected function, and one stack with  *)
(* its posture.                                                            *)
(***************************************************************************)
EXTENDS Reads

---------------------------------------------------------------------------
(* Every Region of a connection is read through one session.                *)

\* The role is assumed, and is of the account the connection was made for.
AwsSession == Before("get_caller_identity")

\* The Regions chosen, or all that are enabled: none at all is an error.
ConnectionRegions == Before("describe_regions")

OfConnection(plan) == Through(AwsSession \o ConnectionRegions, plan)

---------------------------------------------------------------------------
(* AgentCore.  Each list opens its planes; a runtime, gateway or memory    *)
(* stays in the batch when its detail cannot be read.                      *)

RuntimePlanes == {"runtime", "endpoint", "runtime relationship"}
GatewayPlanes == {"gateway", "target", "gateway relationship"}
MemoryPlanes == {"memory", "memory relationship"}

CollectWorkloadIdentities ==
    <<List("list_workload_identities", {}, {"identity"}, Rows({"workload identity"}, "identity"))>>

\* Whom a resource runs as: its workload identity and its role.
PrincipalRows(resource, plane, relationship) ==
    Rows({"workload identity", "role"}, plane)
        \cup Rows({resource \o " runs as"}, relationship)

CollectRuntimeEndpoints ==
    <<Read("list_agent_runtime_endpoints", {"list_agent_runtimes"}, {},
           {"endpoint", "runtime relationship"}, {"endpoint", "runtime relationship"},
           Rows({"endpoint"}, "endpoint")
               \cup Rows({"runtime exposes"}, "runtime relationship"))>>

\* A principal of another account or partition is left out, with a warning.
CollectRuntimes ==
    <<List("list_agent_runtimes", {}, RuntimePlanes, Rows({"runtime"}, "runtime")),
      Noting(Detail("get_agent_runtime", {"list_agent_runtimes"},
                    {"runtime", "runtime relationship"},
                    PrincipalRows("runtime", "runtime", "runtime relationship")),
             {"runtime relationship"})>>
        \o CollectRuntimeEndpoints

CollectGatewayTargets ==
    <<Read("list_gateway_targets", {"list_gateways"}, {},
           {"target", "gateway relationship"}, {"target", "gateway relationship"},
           Rows({"target"}, "target") \cup Rows({"gateway exposes"}, "gateway relationship")),
      Detail("get_gateway_target", {"list_gateway_targets"},
             {"target", "gateway relationship"}, {})>>

CollectGateways ==
    <<List("list_gateways", {}, GatewayPlanes, Rows({"gateway"}, "gateway")),
      Noting(Detail("get_gateway", {"list_gateways"}, {"gateway", "gateway relationship"},
                    PrincipalRows("gateway", "gateway", "gateway relationship")),
             {"gateway relationship"})>>
        \o CollectGatewayTargets

CollectMemories ==
    <<List("list_memories", {}, MemoryPlanes, Rows({"memory"}, "memory")),
      Noting(Detail("get_memory", {"list_memories"}, MemoryPlanes,
                    Rows({"role"}, "memory")
                        \cup Rows({"memory runs as"}, "memory relationship")),
             {"memory relationship"})>>

AgentCore ==
    OfConnection(Plan(CollectWorkloadIdentities \o CollectRuntimes \o CollectGateways
                          \o CollectMemories,
                      {"workload identity", "role"}, "withdrawn"))

---------------------------------------------------------------------------
(* Bedrock agents and guardrails.  The planes of attachments depend on both lists. *)

GuardrailPlanes == {"guardrail", "guardrail relationship"}
AgentPlanes == {"agent", "agent relationship", "guardrail relationship"}

CollectGuardrails ==
    <<List("list_guardrails", {}, GuardrailPlanes, Rows({"guardrail"}, "guardrail")),
      Detail("get_guardrail", {"list_guardrails"}, GuardrailPlanes, {})>>

CollectAgents == <<List("list_agents", {}, AgentPlanes, Rows({"agent"}, "agent"))>>

\* An attachment is recorded only if the guardrail itself was listed, and is a
\* warning for both relationship planes if it is missing from that list.
AgentRelationships ==
    <<Noting(Detail("get_agent", {"list_agents"}, AgentPlanes,
                    Rows({"model", "role"}, "agent")
                        \cup Rows({"agent uses", "agent runs as"}, "agent relationship")),
             AgentPlanes),
      Noting(With(Parse("guardrail of agent", {"get_agent"}, {},
                        Rows({"protected by"}, "guardrail relationship")),
                  {"list_guardrails"}),
             {"agent relationship", "guardrail relationship"})>>

Bedrock ==
    OfConnection(Plan(CollectGuardrails \o CollectAgents \o AgentRelationships, {}, "withdrawn"))

---------------------------------------------------------------------------
(* The compute services of a Region: two planes each, failed by the list   *)
(* and partial by any item of it.  A model shown by two services is        *)
(* recorded in the plane of the first.                                     *)

ServicePlanes(service) == {service, service \o " relationship"}

\* What a classified resource adds to the batch.
ServiceRows(service, others) ==
    Rows({service \o " resource", service \o " workload"} \cup others, service)
        \cup Rows({service \o " hosted on", service \o " runs as"}, service \o " relationship")

ModelUse(service) == Rows({service \o " uses"}, service \o " relationship")

CollectLambda ==
    <<List("list_functions", {}, ServicePlanes("lambda"), {}),
      Detail("get_function_configuration", {"list_functions"}, ServicePlanes("lambda"),
             ServiceRows("lambda", {"role", "model"}) \cup ModelUse("lambda")),
      Detail("get_function", {"get_function_configuration"}, ServicePlanes("lambda"), {})>>

CollectEcs ==
    <<List("list_task_definition_families", {}, ServicePlanes("ecs"), {}),
      Detail("describe_task_definition", {"list_task_definition_families"}, ServicePlanes("ecs"),
             ServiceRows("ecs", {"role", "model"}) \cup ModelUse("ecs")),
      Detail("describe_images", {"describe_task_definition"}, ServicePlanes("ecs"), {})>>

CollectEks ==
    <<List("list_clusters", {}, ServicePlanes("eks"), {}),
      Detail("describe_cluster", {"list_clusters"}, ServicePlanes("eks"),
             ServiceRows("eks", {"role"}))>>

CollectSagemaker ==
    <<List("list_endpoints", {}, ServicePlanes("sagemaker"), {}),
      Detail("describe_endpoint", {"list_endpoints"}, ServicePlanes("sagemaker"),
             ServiceRows("sagemaker", {"role"}))>>

Compute ==
    OfConnection(Plan(CollectLambda \o CollectEcs \o CollectEks \o CollectSagemaker,
                      {"model"}, "withdrawn"))

\* One selected function: the read proves its exact identity or fails both planes.
SelectedLambda ==
    Through(AwsSession,
            Plan(<<Read("read_lambda", {}, ServicePlanes("lambda"), {}, {},
                        ServiceRows("lambda", {"role", "model"}) \cup ModelUse("lambda"))>>,
                 {}, "withdrawn"))

\* The configuration is the coverage itself; no row depends on it.
BedrockLogging ==
    OfConnection(Plan(<<Read("get_model_invocation_logging_configuration", {},
                             {"invocation logging"}, {}, {}, {})>>,
                      {}, "withdrawn"))

---------------------------------------------------------------------------
(* One CloudFormation stack: both planes are one coverage state, the stack  *)
(* listing fails it and every other read only makes it partial.            *)

StackPlanes == {"stack", "stack relationship"}

StackResources == <<Read("list_stack_resources", {}, StackPlanes, {}, {}, {})>>

\* Without the template the deployment artifact of a workload is unknown.
StackTemplateResources == <<Detail("get_template", {}, StackPlanes, {})>>

\* A workload is recorded only with a model; it makes the inferred agent.
StackLambda ==
    <<Detail("get_function_configuration", {"list_stack_resources"}, StackPlanes,
             Rows({"function", "role", "model", "agent"}, "stack")
                 \cup Rows({"function hosts agent", "function runs as", "function uses"},
                           "stack relationship"))>>

StackEcsTask ==
    <<Detail("describe_task_definition", {"list_stack_resources"}, StackPlanes,
             Rows({"task", "role", "model", "agent"}, "stack")
                 \cup Rows({"task hosts agent", "task runs as", "task uses"},
                           "stack relationship"))>>

Stack ==
    Plan(StackResources \o StackTemplateResources \o StackLambda \o StackEcsTask,
         {}, "withdrawn")

---------------------------------------------------------------------------
(* The posture of a stack: one plane of findings, authoritative for the    *)
(* stack.  Roles and log groups are looked at only for workloads with a    *)
(* model, so a workload that cannot be read hides its findings.            *)

LambdaTargets == <<Detail("get_function_configuration", {"list_stack_resources"}, {"findings"}, {})>>

EcsTargets == <<Detail("describe_task_definition", {"list_stack_resources"}, {"findings"}, {})>>

Targets == {"get_function_configuration", "describe_task_definition"}

\* Inline and attached policies of the role, each document, one finding if any
\* statement allows a wildcard model.
OverbroadBedrockPermissions ==
    <<Detail("role policies", Targets, {"findings"}, Rows({"role finding"}, "findings"))>>

\* A log group that does not exist has no finding.
LogRetention ==
    <<Detail("describe_log_groups", Targets, {"findings"}, Rows({"retention finding"}, "findings"))>>

InvocationLogging ==
    <<Detail("get_model_invocation_logging_configuration", {}, {"findings"},
             Rows({"logging finding"}, "findings"))>>

StackPosture ==
    Plan(<<Read("list_stack_resources", {}, {"findings"}, {}, {}, {})>>
             \o LambdaTargets \o EcsTargets
             \o OverbroadBedrockPermissions \o LogRetention \o InvocationLogging,
         {}, "withdrawn")

---------------------------------------------------------------------------
(* Bedrock management events of CloudTrail, read per event name.  An        *)
(* unusable event, a broken page token or the record limit is a warning;    *)
(* a refused lookup fails the plane.                                       *)

LookupEvents ==
    <<Noting(List("lookup_events", {}, {"activity"}, Rows({"invocation"}, "activity")),
             {"activity"})>>

BedrockActivity == OfConnection(Plan(LookupEvents, {}, "kept"))

=============================================================================
