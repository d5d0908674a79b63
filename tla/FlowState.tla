------------------------------ MODULE FlowState ------------------------------
(***************************************************************************)
(* The durable facts of one Requirement and the functions that decide them *)
(* (internal/state/model.go, internal/flow/result.go).  The package has    *)
(* two independent readings of a report: the runtime EVALUATES it against  *)
(* the current State, and every load and commit REPLAYS the Event history  *)
(* and compares the outcome with the State file.                           *)
(*                                                                         *)
(* A State is [step, status, summary, outputs, skipped, trace]: the        *)
(* cursor, its reported facts, the Output Registry (every Output key, with *)
(* producer = Nil when it is not registered), the skipped Steps and the    *)
(* bound Trace document.                                                   *)
(*                                                                         *)
(* An operator named X_Y stands before X and is X with the fault Y: the    *)
(* change of the code that the property it is paired with would catch.     *)
(***************************************************************************)
EXTENDS Bundle

CONSTANTS
    Values,       \* Output values; the URLs of documents are among them
    NoValue,      \* no value: an unregistered Output, an unbound Trace
    Summaries     \* Summary and Evidence of a report, taken together

Nil == 0                           \* CurrentStepID when the Workflow is completed
NoStatus == "no status"
NoSummary == "no summary"
WorkflowInitialized == "workflow initialized"
Running == {"in_progress", "fixing", "blocked"}
Statuses == Running \cup {"ready", "awaiting_confirmation"}
CommonConditions == {"start_confirmed", "jump_requested"}
Controls == {"started", "jumped"}  \* effects of the common control Routes
NoEffect == "no effect"

NoOutput == [producer |-> Nil, value |-> NoValue]
Unregistered(d) == [k \in Keys(d) |-> NoOutput]

-----------------------------------------------------------------------------
(* state/model.go: the functions evaluation and replay share *)

EntryStepStatus(d) == IF d.controls THEN "awaiting_confirmation" ELSE "ready"

ResultTargetStatus_AlwaysConfirms(d, effect) ==
    CASE effect = "started"   -> "in_progress"
      [] effect = "looped"    -> "fixing"
      [] effect = "completed" -> NoStatus
      [] OTHER                -> "awaiting_confirmation"

ResultTargetStatus(d, effect) ==
    CASE effect = "started"   -> "in_progress"
      [] effect = "looped"    -> "fixing"
      [] effect = "completed" -> NoStatus
      [] OTHER                -> EntryStepStatus(d)

JumpedSkippedSteps(skipped, source, target) ==
    IF target > source
    THEN skipped \cup source..(target - 1)
    ELSE {s \in skipped : s < target}

InvalidatedOutputs_KeepsTarget(target, outputs) ==
    {k \in DOMAIN outputs : outputs[k].producer > target}

InvalidatedOutputs_ClearsAll(target, outputs) ==
    {k \in DOMAIN outputs : outputs[k].producer # Nil}

InvalidatedOutputs(target, outputs) ==
    {k \in DOMAIN outputs : outputs[k].producer >= target}

\* The keys of the Outputs a Result registers; common controls register none.
AcceptedKeys(d, effect, results) ==
    IF effect \in Controls THEN {}
    ELSE {d.key[results[i].id] : i \in DOMAIN results}

AcceptedOutput_ProducedByTarget(d, payload, key) ==
    [producer |-> payload.to,
     value |-> payload.results[CHOOSE i \in DOMAIN payload.results :
                                  d.key[payload.results[i].id] = key].value]

AcceptedOutput(d, payload, key) ==
    [producer |-> payload.from,
     value |-> payload.results[CHOOSE i \in DOMAIN payload.results :
                                  d.key[payload.results[i].id] = key].value]

ApplyFlowResult(d, current, payload, entryStatus) ==
    [step    |-> payload.to,
     status  |-> IF payload.effect = "completed" THEN NoStatus ELSE entryStatus,
     summary |-> IF payload.effect = "completed" THEN NoSummary ELSE payload.summary,
     outputs |-> [k \in DOMAIN current.outputs |->
                    IF k \in AcceptedKeys(d, payload.effect, payload.results)
                    THEN AcceptedOutput(d, payload, k)
                    ELSE IF k \in payload.invalidated THEN NoOutput
                    ELSE current.outputs[k]],
     skipped |-> IF payload.effect = "jumped"
                 THEN JumpedSkippedSteps(current.skipped, payload.from, payload.to)
                 ELSE current.skipped,
     trace   |-> current.trace]

\* State.Validate: a completed Workflow has no facts of a current Step.
Validate(current) ==
    IF current.step = Nil
    THEN current.status = NoStatus /\ current.summary = NoSummary
    ELSE current.status \in Statuses

\* State.ValidateAgainst
ValidateAgainst(d, current) ==
    /\ current.step # Nil =>
          /\ current.step \in Steps(d)
          /\ current.status = "awaiting_confirmation" => d.controls
          /\ current.status = "ready" => ~d.controls
    /\ \A k \in DOMAIN current.outputs : current.outputs[k].producer # Nil =>
          /\ current.outputs[k].producer \in Steps(d)
          /\ \E c \in d.conditions : d.key[c] = k /\ current.outputs[k].value \in d.valid[c]
          /\ current.outputs[k].producer \notin current.skipped
    /\ current.skipped \subseteq Steps(d)

-----------------------------------------------------------------------------
(* flow/result.go: evaluateResult.  A Result request is [step, route,      *)
(* results, human, manifest, summary]; route is [kind, to]; results is a   *)
(* sequence of [id, value]; human says whether some Evidence has source    *)
(* human; manifest is the outcome of the one manifest.json among the       *)
(* Evidence, NoValue when there is not exactly one.                        *)

OK == "ok"

SourceMatches(d, current, request, result) ==
    CASE d.source[result.id] = "trace_document_url" ->
            current.trace # NoValue /\ result.value = current.trace
      [] d.source[result.id] = "verify_evidence_outcome" ->
            request.manifest # NoValue /\ result.value = request.manifest
      [] OTHER -> TRUE

ResultFault_IgnoresGroups(d, current, request, i) ==
    LET result == request.results[i]
        earlier == {request.results[j].id : j \in 1..(i - 1)}
    IN  IF result.id \in earlier THEN "CONDITION_CONFLICT"
        ELSE IF result.id \notin RelevantConditionIDs(d, request.step) THEN "CONDITION_NOT_ALLOWED"
        ELSE IF result.value \notin d.valid[result.id] THEN "OUTPUT_INVALID"
        ELSE IF ~SourceMatches(d, current, request, result) THEN "OUTPUT_INVALID"
        ELSE OK

\* What the loop over ConditionResults answers to the i-th of them.
ResultFault(d, current, request, i) ==
    LET result == request.results[i]
        earlier == {request.results[j].id : j \in 1..(i - 1)}
        known == earlier \cap d.conditions
    IN  IF result.id \in earlier THEN "CONDITION_CONFLICT"
        ELSE IF result.id \notin RelevantConditionIDs(d, request.step) THEN "CONDITION_NOT_ALLOWED"
        ELSE IF ~NoExclusivePair(d, {result.id} \cup known) THEN "CONDITION_CONFLICT"
        ELSE IF result.value \notin d.valid[result.id] THEN "OUTPUT_INVALID"
        ELSE IF ~SourceMatches(d, current, request, result) THEN "OUTPUT_INVALID"
        ELSE IF \E c \in known : d.key[c] = d.key[result.id] THEN "CONDITION_CONFLICT"
        ELSE OK

\* The loop stops at its first fault.
ConditionsRefusal(d, current, request) ==
    LET faults == {i \in DOMAIN request.results : ResultFault(d, current, request, i) # OK}
    IN  IF faults = {} THEN OK
        ELSE ResultFault(d, current, request, CHOOSE i \in faults : \A j \in faults : i <= j)

Reported(request) == {request.results[i].id : i \in DOMAIN request.results}

RouteRefusal(routes, target, conditions) ==
    IF Available(routes, target) = {} THEN "ROUTE_NOT_ALLOWED"
    ELSE IF Matching(routes, target, conditions) = {} THEN "ROUTE_NOT_MATCHED"
    ELSE IF \E i, j \in Matching(routes, target, conditions) : i # j THEN "ROUTE_AMBIGUOUS"
    ELSE OK

RoutesFor(d, request) ==
    IF request.route.kind = "back" THEN d.loops[request.step] ELSE d.flows[request.step]

BusinessRefusal_IgnoresStatus(d, current, request) ==
    IF ConditionsRefusal(d, current, request) # OK
    THEN ConditionsRefusal(d, current, request)
    ELSE RouteRefusal(RoutesFor(d, request), request.route.to, Reported(request))

BusinessRefusal(d, current, request) ==
    IF current.status = "awaiting_confirmation" THEN "REPORT_NOT_ALLOWED"
    ELSE IF ConditionsRefusal(d, current, request) # OK
    THEN ConditionsRefusal(d, current, request)
    ELSE RouteRefusal(RoutesFor(d, request), request.route.to, Reported(request))

\* evaluateCommonControl
ControlCondition(kind) == IF kind = "start" THEN "start_confirmed" ELSE "jump_requested"

ControlRefusal(d, current, request) ==
    LET start == request.route.kind = "start"
        result == request.results[1]
    IN  IF ~d.controls THEN "ROUTE_NOT_ALLOWED"
        ELSE IF start /\ current.status # "awaiting_confirmation" THEN "ROUTE_NOT_ALLOWED"
        ELSE IF ~start /\ request.route.to \notin Steps(d) THEN "ROUTE_NOT_ALLOWED"
        ELSE IF Len(request.results) # 1 THEN "CONDITION_NOT_ALLOWED"
        ELSE IF result.id # ControlCondition(request.route.kind) THEN "CONDITION_NOT_ALLOWED"
        ELSE IF result.value \notin d.commonValid[result.id] THEN "OUTPUT_INVALID"
        ELSE IF ~request.human THEN "REPORT_NOT_ALLOWED"
        ELSE IF ~start /\ result.value # request.route.to THEN "OUTPUT_INVALID"
        ELSE OK

IsControl(request) == request.route.kind \in {"start", "jump"}

\* requireCurrentStep, then evaluateResult
CurrentStepRefusal(current, step) ==
    IF current.step = Nil THEN "REPORT_NOT_ALLOWED"
    ELSE IF step # current.step THEN "STEP_NOT_CURRENT"
    ELSE OK

ResultRefusal(d, current, request) ==
    IF CurrentStepRefusal(current, request.step) # OK
    THEN CurrentStepRefusal(current, request.step)
    ELSE IF IsControl(request) THEN ControlRefusal(d, current, request)
    ELSE BusinessRefusal(d, current, request)

Effect(kind) ==
    CASE kind = "next" -> "advanced"
      [] kind = "terminal" -> "completed"
      [] kind = "back" -> "looped"
      [] kind = "start" -> "started"
      [] kind = "jump" -> "jumped"

\* The payload of the Event a Result that is not refused becomes.
ResultPayload(d, current, request) ==
    LET effect == Effect(request.route.kind) IN
    [kind |-> "flow.result", effect |-> effect,
     from |-> request.step,
     to |-> CASE effect = "started" -> request.step
              [] effect = "completed" -> Nil
              [] OTHER -> request.route.to,
     results |-> request.results, human |-> request.human, summary |-> request.summary,
     accepted |-> AcceptedKeys(d, effect, request.results),
     invalidated |-> IF effect \in {"looped", "jumped"}
                     THEN InvalidatedOutputs(request.route.to, current.outputs)
                     ELSE {}]

EvaluatedState(d, current, request) ==
    LET payload == ResultPayload(d, current, request)
    IN  ApplyFlowResult(d, current, payload, ResultTargetStatus(d, payload.effect))

-----------------------------------------------------------------------------
(* state/model.go: what a new Event must satisfy, and the replay of one *)

\* validateResultPayload
WellFormedResult(d, event) ==
    /\ event.results # << >>
    /\ \A i, j \in DOMAIN event.results :
          event.results[i].id = event.results[j].id => i = j
    /\ event.effect # "completed" => event.to # Nil
    /\ event.effect = "completed" => event.to = Nil
    /\ event.effect = "started" => event.to = event.from /\ event.invalidated = {}
    /\ event.effect \in Controls => event.human /\ event.accepted = {}

\* validateResultAgainst with registeredOutputs: the report names exactly one Route.
SelectsOneRoute(d, event) ==
    IF event.effect \in Controls
    THEN /\ d.controls
         /\ Len(event.results) = 1
         /\ event.results[1].id = IF event.effect = "started" THEN "start_confirmed"
                                  ELSE "jump_requested"
         /\ event.results[1].value \in d.commonValid[event.results[1].id]
         /\ event.effect = "jumped" =>
               event.results[1].value = event.to /\ event.to \in Steps(d)
    ELSE LET ids == {event.results[i].id : i \in DOMAIN event.results}
             routes == IF event.effect = "looped" THEN d.loops[event.from]
                       ELSE d.flows[event.from]
         IN  /\ event.from \in Steps(d)
             /\ ids \subseteq RelevantConditionIDs(d, event.from)
             /\ NoExclusivePair(d, ids)
             /\ \A i \in DOMAIN event.results :
                   event.results[i].value \in d.valid[event.results[i].id]
             /\ \A i, j \in DOMAIN event.results :
                   d.key[event.results[i].id] = d.key[event.results[j].id] => i = j
             /\ \E i \in DOMAIN routes : Matching(routes, event.to, ids) = {i}
             /\ event.effect # "looped" => event.invalidated = {}

\* DecodeEvent and Event.ValidateAgainst, as validateCommit calls them.
ValidNewEvent(d, event) ==
    CASE event.kind = "flow.initialized" ->
            event.step = FirstStepID /\ event.status = EntryStepStatus(d)
      [] event.kind = "flow.progressed" ->
            /\ event.from \in Steps(d)
            /\ event.fromStatus \in Statuses
            /\ event.to \in Running
      [] event.kind = "flow.result" -> WellFormedResult(d, event) /\ SelectsOneRoute(d, event)
      [] event.kind = "trace.document_bound" -> TRUE

\* ValidateHistory replays on a State whose status is left empty after a
\* Result; `pending` is that Result's effect, which decides it at the tail.
EmptyReplay(d) ==
    [step |-> Nil, status |-> NoStatus, summary |-> NoSummary,
     outputs |-> Unregistered(d), skipped |-> {}, trace |-> NoValue,
     pending |-> NoEffect]

\* validateHistoricalResultAgainst and the checks of the replay loop
ReplaysResult(d, replayed, event) ==
    /\ event.from \in Steps(d)
    /\ event.effect # "completed" => event.to \in Steps(d)
    /\ event.effect \notin Controls =>
          /\ \A i \in DOMAIN event.results :
                /\ event.results[i].id \in d.conditions
                /\ event.results[i].value \in d.valid[event.results[i].id]
          /\ \A i, j \in DOMAIN event.results :
                d.key[event.results[i].id] = d.key[event.results[j].id] => i = j
    /\ event.accepted = AcceptedKeys(d, event.effect, event.results)
    /\ replayed.step = event.from
    /\ replayed.status # NoStatus =>
          /\ event.effect = "started" => replayed.status = "awaiting_confirmation"
          /\ event.effect \notin Controls => replayed.status # "awaiting_confirmation"
    /\ event.invalidated =
          IF event.effect \in {"looped", "jumped"}
          THEN InvalidatedOutputs(event.to, replayed.outputs)
          ELSE {}

Replays(d, replayed, event) ==
    CASE event.kind = "flow.initialized" ->
            replayed = EmptyReplay(d) /\ event.step = FirstStepID
      [] event.kind = "flow.progressed" ->
            /\ event.from \in Steps(d)
            /\ replayed.step = event.from
            /\ replayed.status \in {NoStatus, event.fromStatus}
            /\ replayed.status # "awaiting_confirmation"
      [] event.kind = "flow.result" -> ReplaysResult(d, replayed, event)
      [] event.kind = "trace.document_bound" -> replayed.trace = event.previous

Replay(d, replayed, event) ==
    CASE event.kind = "flow.initialized" ->
            [replayed EXCEPT !.step = event.step, !.status = event.status,
                             !.summary = WorkflowInitialized]
      [] event.kind = "flow.progressed" ->
            [replayed EXCEPT !.status = event.to, !.summary = event.summary,
                             !.pending = NoEffect]
      [] event.kind = "flow.result" ->
            LET status == IF event.effect = "started"
                          THEN ResultTargetStatus(d, event.effect) ELSE NoStatus
                applied == ApplyFlowResult(d, replayed, event, status)
            IN  [step |-> applied.step, status |-> applied.status,
                 summary |-> applied.summary, outputs |-> applied.outputs,
                 skipped |-> applied.skipped, trace |-> applied.trace,
                 pending |-> event.effect]
      [] event.kind = "trace.document_bound" -> [replayed EXCEPT !.trace = event.document]

ReplayedState_ForgetsFixing(d, replayed) ==
    [step |-> replayed.step,
     status |-> IF replayed.step # Nil /\ replayed.status = NoStatus
                THEN EntryStepStatus(d) ELSE replayed.status,
     summary |-> replayed.summary, outputs |-> replayed.outputs,
     skipped |-> replayed.skipped, trace |-> replayed.trace]

\* The State the history ends in.
ReplayedState(d, replayed) ==
    [step |-> replayed.step,
     status |-> IF replayed.step # Nil /\ replayed.status = NoStatus
                THEN ResultTargetStatus(d, replayed.pending) ELSE replayed.status,
     summary |-> replayed.summary, outputs |-> replayed.outputs,
     skipped |-> replayed.skipped, trace |-> replayed.trace]
=============================================================================
