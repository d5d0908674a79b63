------------------------------ MODULE Contract ------------------------------
(***************************************************************************)
(* The public contract of the flow commands: the messages of the flow IDL  *)
(* with the rules their IsValid checks, the codes each command may answer, *)
(* and what every command does with an invocation before its runtime runs  *)
(* (cmd/execute.go).  The runtime of module Flow decides on a Route as     *)
(* [kind, to]; on the wire a Route is a message of which one field is set. *)
(*                                                                         *)
(* An absent or present field is a set of at most one value; Nil is the    *)
(* empty Step id and NoSummary the empty text of a request that leaves     *)
(* them out.  Titles, names, Prompts, Skills and executors are copied from *)
(* a validated bundle, decide nothing and are left out.                    *)
(***************************************************************************)
EXTENDS Flow

Optional(v, none) == {v} \ {none}
Get(field, none) == IF field = {} THEN none ELSE CHOOSE v \in field : TRUE
Field(S) == {{}} \cup {{v} : v \in S}

-----------------------------------------------------------------------------
(* Enums: the texts that decode.  "unspecified" is the zero value, which a *)
(* message that leaves the field out has and every IsValid refuses.        *)

Unspecified == "unspecified"

EvidenceSource == {Unspecified, "human", "system", "ai", "file", "url"}
WorkflowStatus == {Unspecified, "running", "completed"}
StepStatus == {Unspecified, "ready", "in_progress", "fixing", "blocked", "awaiting_confirmation"}
ProgressStatus == {Unspecified, "in_progress", "fixing", "blocked"}
RouteDirection == {Unspecified, "flow", "loop"}
InitEffect == {Unspecified, "initialized"}
ProgressEffect == {Unspecified, "status_updated"}
ResultEffect == {Unspecified, "advanced", "looped", "completed", "started", "jumped"}
TransitionDirection == {Unspecified, "flow", "loop", "start", "jump"}
RequirementScope == {Unspecified, "none", "new", "existing", "optional"}

Defined(enum, v) == v \in enum \ {Unspecified}

-----------------------------------------------------------------------------
(* Requests of a report *)

RouteSelection ==
    [next_step_id : Field({Nil} \cup Step), back_step_id : Field({Nil} \cup Step),
     terminal : Field(BOOLEAN), start_current_step : Field(BOOLEAN),
     jump_step_id : Field({Nil} \cup Step)]

NoSelection ==
    [next_step_id |-> {}, back_step_id |-> {}, terminal |-> {}, start_current_step |-> {},
     jump_step_id |-> {}]

CountSetFields(selection) ==
    Cardinality({f \in DOMAIN selection : selection[f] # {}})

\* manifest is what the manifest.json says that a file refers to, if it does.
Evidence == [source : EvidenceSource, manifest : ManifestOutcomes \cup {NoValue}]

FlowProgressRequest ==
    [step_id : {Nil} \cup Step, status : ProgressStatus, summary : {NoSummary} \cup Summaries,
     evidence : SUBSET Evidence]

FlowResultRequest ==
    [step_id : {Nil} \cup Step, condition_results : {<< >>} \cup ResultSequences,
     summary : {NoSummary} \cup Summaries, route : SUBSET RouteSelection,
     evidence : SUBSET Evidence]

RouteSelectionIsValid(selection) ==
    Nil \notin selection.next_step_id \cup selection.back_step_id \cup selection.jump_step_id

EvidenceIsValid(item) == Defined(EvidenceSource, item.source)

FlowProgressRequestIsValid(request) ==
    /\ request.step_id # Nil
    /\ Defined(ProgressStatus, request.status)
    /\ request.summary # NoSummary

FlowResultRequestIsValid(request) ==
    /\ request.step_id # Nil
    /\ request.condition_results # << >>
    /\ request.summary # NoSummary
    /\ request.route # {}
    /\ \A selection \in request.route : RouteSelectionIsValid(selection)

ValidateEvidence(evidence) == \A item \in evidence : EvidenceIsValid(item)

ValidateProgressRequest(request) ==
    FlowProgressRequestIsValid(request) /\ ValidateEvidence(request.evidence)

ValidateResultRequest(request) ==
    /\ FlowResultRequestIsValid(request)
    /\ \A selection \in request.route :
          /\ CountSetFields(selection) = 1
          /\ FALSE \notin selection.terminal
          /\ FALSE \notin selection.start_current_step
    /\ ValidateEvidence(request.evidence)

\* The Route a selection stands for: the fields in the order they are asked.
SelectedRoute(selection) ==
    IF selection.start_current_step # {} THEN [kind |-> "start", to |-> Terminal]
    ELSE IF selection.jump_step_id # {}
    THEN [kind |-> "jump", to |-> Get(selection.jump_step_id, Nil)]
    ELSE IF selection.terminal # {} THEN [kind |-> "terminal", to |-> Terminal]
    ELSE IF selection.next_step_id # {}
    THEN [kind |-> "next", to |-> Get(selection.next_step_id, Nil)]
    ELSE [kind |-> "back", to |-> Get(selection.back_step_id, Nil)]

\* verifyEvidenceOutcomeMatches: exactly one file is a manifest.json
ClaimedOutcome(evidence) ==
    LET manifests == {item \in evidence : item.source = "file" /\ item.manifest # NoValue} IN
    IF Cardinality(manifests) = 1 THEN (CHOOSE item \in manifests : TRUE).manifest ELSE NoValue

HasHumanEvidence(evidence) == \E item \in evidence : item.source = "human"

\* The report that the runtime of module Flow decides on.
Understood(request) ==
    [step |-> request.step_id, route |-> SelectedRoute(Get(request.route, NoSelection)),
     results |-> request.condition_results, human |-> HasHumanEvidence(request.evidence),
     manifest |-> ClaimedOutcome(request.evidence), summary |-> request.summary]

-----------------------------------------------------------------------------
(* What `flow status` and the answers show *)

Execution == [status : StepStatus, summary : Field(Summaries \cup {WorkflowInitialized})]

ConditionView ==
    [id : Definition.conditions \cup CommonConditions, values : SUBSET (Values \cup Step),
     source : {"none", "trace_document_url", "verify_evidence_outcome"}]

RouteWhen == SUBSET (SUBSET (Definition.conditions \cup CommonConditions))

AvailableRoute == [direction : RouteDirection, when : RouteWhen, route : RouteSelection]

CurrentTask ==
    [step_id : {Nil} \cup Step, execution : Execution, conditions : SUBSET ConditionView,
     available_routes : SUBSET AvailableRoute, common_conditions : SUBSET ConditionView]

RegisteredOutput == [value : Values, producer_step_id : {Nil} \cup Step]

FlowStateMessage ==
    [status : WorkflowStatus, current : SUBSET CurrentTask,
     outputs : UNION {[keys -> RegisteredOutput] : keys \in SUBSET Keys(Definition)},
     skipped_step_ids : SUBSET Step]

FlowInitResponse == [effect : InitEffect, state : FlowStateMessage]

FlowStatusResponse == [state : FlowStateMessage]

FlowProgressResponse == [effect : ProgressEffect, state : FlowStateMessage]

Transition ==
    [direction : TransitionDirection, from_step_id : {Nil} \cup Step, to_step_id : Field(Step)]

FlowResultResponse ==
    [effect : ResultEffect, event_id : Field({"event"}), transition : Transition,
     state : FlowStateMessage, invalidated_outputs : SUBSET Keys(Definition)]

\* flow/result.go: the direction of the Transition of each effect
Direction(effect) ==
    CASE effect = "looped"  -> "loop"
      [] effect = "started" -> "start"
      [] effect = "jumped"  -> "jump"
      [] OTHER              -> "flow"

ExecutionIsValid(execution) == Defined(StepStatus, execution.status)

RouteWhenIsValid(when) == when # {}

AvailableRouteIsValid(route) ==
    /\ Defined(RouteDirection, route.direction)
    /\ RouteWhenIsValid(route.when)
    /\ RouteSelectionIsValid(route.route)

RegisteredOutputIsValid(output) == output.producer_step_id # Nil

\* The generated rules do not reach into lists and maps: of the views and
\* Outputs that an answer shows none is checked before it is sent.
CurrentTaskIsValid(task) == task.step_id # Nil /\ ExecutionIsValid(task.execution)

FlowStateIsValid(state) ==
    /\ Defined(WorkflowStatus, state.status)
    /\ \A task \in state.current : CurrentTaskIsValid(task)

FlowInitResponseIsValid(response) ==
    Defined(InitEffect, response.effect) /\ FlowStateIsValid(response.state)

FlowStatusResponseIsValid(response) == FlowStateIsValid(response.state)

FlowProgressResponseIsValid(response) ==
    Defined(ProgressEffect, response.effect) /\ FlowStateIsValid(response.state)

TransitionIsValid(transition) ==
    Defined(TransitionDirection, transition.direction) /\ transition.from_step_id # Nil

FlowResultResponseIsValid(response) ==
    /\ Defined(ResultEffect, response.effect)
    /\ TransitionIsValid(response.transition)
    /\ FlowStateIsValid(response.state)

-----------------------------------------------------------------------------
(* The codes a command may answer *)

ErrorCode ==
    {"INVALID_ARGUMENT", "INVALID_INPUT_JSON", "ROOT_REQUIRED", "WORKFLOW_REQUIRED",
     "ALREADY_INITIALIZED", "NOT_INITIALIZED", "STATE_CORRUPT", "STATE_SCHEMA_UNSUPPORTED",
     "STATE_CONFLICT", "STEP_NOT_CURRENT", "REPORT_NOT_ALLOWED", "WORKFLOW_NOT_FOUND",
     "WORKFLOW_MISMATCH", "WORKFLOW_INVALID", "LOCAL_COMMIT_FAILED", "INTERNAL",
     "CONDITION_NOT_ALLOWED", "CONDITION_CONFLICT", "OUTPUT_INVALID", "ROUTE_NOT_MATCHED",
     "ROUTE_AMBIGUOUS", "ROUTE_NOT_ALLOWED", "PROTECTED_DOCUMENT", "UPSTREAM_AUTH_FAILED",
     "NETWORK_FAILED", "TRACE_UPDATE_FAILED", "REGISTRY_UPDATE_FAILED",
     "CONFIGURATION_FETCH_FAILED"}

\* ERROR_SPECS: whether a retry may help, and the exit code that says whose
\* the failure is (2 the request's, 5 the installation's, 1 any other).
ErrorSpecs ==
    [code \in ErrorCode |->
        [retryable |-> code \in {"CONFIGURATION_FETCH_FAILED", "STATE_CONFLICT", "NETWORK_FAILED",
                                 "TRACE_UPDATE_FAILED", "REGISTRY_UPDATE_FAILED"},
         exit_code |-> CASE code \in {"INVALID_ARGUMENT", "INVALID_INPUT_JSON", "ROOT_REQUIRED",
                                      "WORKFLOW_REQUIRED", "CONDITION_NOT_ALLOWED",
                                      "CONDITION_CONFLICT", "OUTPUT_INVALID",
                                      "ROUTE_NOT_ALLOWED"} -> 2
                         [] code \in {"STATE_CORRUPT", "STATE_SCHEMA_UNSUPPORTED",
                                      "WORKFLOW_INVALID", "LOCAL_COMMIT_FAILED", "INTERNAL",
                                      "ROUTE_AMBIGUOUS"} -> 5
                         [] OTHER -> 1]]

CommandSpec(scope, supportsDryRun, errors) ==
    [scope |-> scope, supportsDryRun |-> supportsDryRun,
     errors |-> {"INVALID_ARGUMENT", "INVALID_INPUT_JSON"} \cup errors]

\* Every command that works on a Requirement may find these.
RequirementErrors ==
    {"ROOT_REQUIRED", "NOT_INITIALIZED", "STATE_CORRUPT", "STATE_SCHEMA_UNSUPPORTED",
     "WORKFLOW_MISMATCH"}

ReportErrors ==
    RequirementErrors \cup
    {"STATE_CONFLICT", "STEP_NOT_CURRENT", "REPORT_NOT_ALLOWED", "WORKFLOW_INVALID",
     "LOCAL_COMMIT_FAILED", "INTERNAL"}

ResultErrors ==
    ReportErrors \cup
    {"CONDITION_NOT_ALLOWED", "CONDITION_CONFLICT", "OUTPUT_INVALID", "ROUTE_NOT_MATCHED",
     "ROUTE_AMBIGUOUS", "ROUTE_NOT_ALLOWED"}

WriteErrors == RequirementErrors \cup {"LOCAL_COMMIT_FAILED"}

\* The table of the commands, by their names.
Commands ==
    {"flow.init", "flow.status", "flow.skills", "flow.report.progress",
     "flow.report.result", "trace.bind", "trace.status", "trace.render", "trace.sync",
     "card.render", "version", "doctor", "config.drift", "config.rebind",
     "verify.doctor", "verify.smoke", "verify.snapshot", "verify.cleanup",
     "dashboard"}

CommandSpecs ==
    [command \in Commands |->
        CASE command = "flow.init" -> CommandSpec("new", TRUE,
              {"ROOT_REQUIRED", "WORKFLOW_REQUIRED", "ALREADY_INITIALIZED", "WORKFLOW_NOT_FOUND",
               "WORKFLOW_INVALID", "LOCAL_COMMIT_FAILED", "INTERNAL", "CONFIGURATION_FETCH_FAILED"})
          [] command = "flow.status" ->
              CommandSpec("existing", FALSE, RequirementErrors \cup {"INTERNAL"})
          [] command = "flow.skills" ->
              CommandSpec("existing", FALSE, RequirementErrors \cup {"INTERNAL"})
          [] command = "flow.report.progress" -> CommandSpec("existing", TRUE, ReportErrors)
          [] command = "flow.report.result" -> CommandSpec("existing", TRUE, ResultErrors)
          [] command = "trace.bind" -> CommandSpec("existing", TRUE,
              WriteErrors \cup {"PROTECTED_DOCUMENT", "INTERNAL"})
          [] command = "trace.status" -> CommandSpec("existing", FALSE, RequirementErrors)
          [] command = "trace.render" -> CommandSpec("existing", TRUE, WriteErrors)
          [] command = "trace.sync" -> CommandSpec("existing", TRUE,
              WriteErrors \cup {"UPSTREAM_AUTH_FAILED", "NETWORK_FAILED", "TRACE_UPDATE_FAILED",
                                "REGISTRY_UPDATE_FAILED"})
          [] command = "card.render" ->
              CommandSpec("existing", TRUE, WriteErrors \cup {"INTERNAL"})
          [] command = "version" -> CommandSpec("none", FALSE, {"INTERNAL"})
          [] command = "doctor" -> CommandSpec("optional", FALSE, {})
          [] command = "config.drift" -> CommandSpec("none", FALSE, {"INTERNAL"})
          [] command = "config.rebind" -> CommandSpec("existing", FALSE,
              WriteErrors \cup {"WORKFLOW_INVALID", "INTERNAL"})
          [] command = "verify.doctor" -> CommandSpec("none", FALSE, {"INTERNAL"})
          [] command = "verify.smoke" ->
              CommandSpec("none", FALSE, {"LOCAL_COMMIT_FAILED", "INTERNAL"})
          [] command = "verify.snapshot" ->
              CommandSpec("existing", FALSE, WriteErrors \cup {"INTERNAL"})
          [] command = "verify.cleanup" ->
              CommandSpec("none", TRUE, {"LOCAL_COMMIT_FAILED", "INTERNAL"})
          [] command = "dashboard" -> CommandSpec("none", FALSE, {"INTERNAL"})]

Errors(command) == CommandSpecs[command].errors

-----------------------------------------------------------------------------
(* cmd/execute.go: what is refused before the runtime of a command runs *)

\* request says what comes of decoding and IsValid, with bothForms when --input
\* comes with typed flags; configuration is what PrepareCurrent finds, and loads
\* whether the Requirement can be read.
Invocation ==
    [root : {"absent", "not a directory", "directory"}, dryRun : BOOLEAN,
     bothForms : BOOLEAN, request : {"valid", "invalid", "malformed"},
     dataRoot : BOOLEAN, loads : BOOLEAN, configuration : {"prepared", "invalid", "locked"}]

\* commandRequest, then IsValid
RequestRefusal(invocation) ==
    IF invocation.bothForms THEN "INVALID_ARGUMENT"
    ELSE IF invocation.request = "malformed" THEN "INVALID_INPUT_JSON"
    ELSE IF invocation.request = "invalid" THEN "INVALID_ARGUMENT"
    ELSE OK

SkipsConfiguration ==
    {"version", "doctor", "config.drift", "config.rebind", "verify.doctor", "verify.smoke",
     "verify.snapshot", "verify.cleanup"}

\* A Requirement that cannot be read is its own refusal, which the runtime gives.
NeedsConfiguration(command, invocation) ==
    /\ command # "flow.init"
    /\ CommandSpecs[command].scope = "existing" => invocation.loads

ConfigurationRefusal_AlwaysInvalid(command, invocation) ==
    CASE invocation.configuration = "prepared" -> OK
      [] invocation.configuration = "invalid"  -> "WORKFLOW_INVALID"
      [] OTHER -> "INTERNAL"

\* normalizeConfigurationError
ConfigurationRefusal(command, invocation) ==
    CASE invocation.configuration = "prepared" -> OK
      [] invocation.configuration = "invalid" /\ "WORKFLOW_INVALID" \in Errors(command) ->
            "WORKFLOW_INVALID"
      [] OTHER -> "INTERNAL"

RunOperation(command, invocation) ==
    LET spec == CommandSpecs[command] IN
    IF invocation.root = "absent" /\ spec.scope \in {"new", "existing"} THEN "ROOT_REQUIRED"
    ELSE IF invocation.dryRun /\ ~spec.supportsDryRun THEN "INVALID_ARGUMENT"
    ELSE IF RequestRefusal(invocation) # OK THEN RequestRefusal(invocation)
    ELSE IF invocation.root = "not a directory" THEN "INVALID_ARGUMENT"
    ELSE IF command \in SkipsConfiguration THEN OK
    ELSE IF ~invocation.dataRoot THEN "INTERNAL"
    ELSE IF NeedsConfiguration(command, invocation)
    THEN ConfigurationRefusal(command, invocation)
    ELSE OK

-----------------------------------------------------------------------------
(* Part of a property of module Persistence *)

\* The dashboard serves until it is stopped and does not go through runOperation.
Operations == Commands \ {"dashboard"}

\* The three commands whose contract leaves out a code that runOperation answers.
LeaveOutInternal == {"trace.status", "trace.render", "trace.sync"}

\* Whatever is refused before a runtime runs is refused with a code that the
\* contract of the command lists, but for INTERNAL where it is left out.
RefusedAsContracted ==
    \A command \in Operations, invocation \in Invocation :
        LET code == RunOperation(command, invocation) IN
        code \in Errors(command) \cup {OK} \/ (code = "INTERNAL" /\ command \in LeaveOutInternal)
=============================================================================
