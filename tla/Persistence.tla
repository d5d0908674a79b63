----------------------------- MODULE Persistence -----------------------------
(***************************************************************************)
(* What a commit leaves on disk (state/persistence.go, card/projection.go  *)
(* with the generated storage IDL): state.json, output/state.json, a line  *)
(* of events.jsonl and card/projection.json, as a command writes them and  *)
(* as the next one reads them back.  The runtime decides on plain values   *)
(* where "" and nil say "none"; on disk a field is absent or present, an   *)
(* enum has its own names, and the payload of an Event is a union.  The    *)
(* two conversions are separate code and each refuses what it cannot       *)
(* convert.                                                                *)
(***************************************************************************)
EXTENDS StorageIDL

-----------------------------------------------------------------------------
(* state.json and output/state.json *)

FlowStateToIDL(state) ==
    [current_step_id      |-> Optional(state.step, Nil),
     current_step_status  |-> IF state.step = Nil THEN {} ELSE {state.status},
     current_step_summary |-> Optional(state.summary, NoSummary),
     integrations         |->
        [trace |-> {[document_url |-> document] : document \in Optional(state.trace, NoValue)}],
     skipped_step_ids     |-> state.skipped]

FlowStateFromIDL(stored, outputs) ==
    [step    |-> Get(stored.current_step_id, Nil),
     status  |-> Get(stored.current_step_status, NoStatus),
     summary |-> Get(stored.current_step_summary, NoSummary),
     outputs |-> outputs,
     skipped |-> stored.skipped_step_ids,
     trace   |-> Get({binding.document_url : binding \in stored.integrations.trace}, NoValue)]

\* The file holds the registered keys only.
OutputsToStorageIDL(outputs) ==
    [k \in {k \in DOMAIN outputs : outputs[k].producer # Nil} |->
        [value |-> outputs[k].value, producer_step_id |-> outputs[k].producer]]

OutputsFromStorageIDL(stored) ==
    [k \in Keys(Definition) |->
        IF k \in DOMAIN stored
        THEN [producer |-> stored[k].producer_step_id, value |-> stored[k].value]
        ELSE NoOutput]

\* Encode and EncodeOutputRegistry, then Decode and DecodeOutputRegistry
ReadBack(state) ==
    FlowStateFromIDL(FlowStateToIDL(state),
                     OutputsFromStorageIDL(OutputsToStorageIDL(state.outputs)))

\* The State comes back from its two files as it was.
StateReadsBack(state) ==
    LET stored == FlowStateToIDL(state) IN
    /\ Validate(state) /\ stored \in StoredFlowState /\ StoredFlowStateIsValid(stored)
    /\ OutputsToStorageIDL(state.outputs) \in OutputRegistry
    /\ Validate(ReadBack(state))
    /\ ReadBack(state) = state

-----------------------------------------------------------------------------
(* card/projection.json: written after every commit that changes what it   *)
(* shows, and compared with the State by card render                       *)

WriteProjection(state) ==
    LET stored == FlowStateToIDL(state) IN
    [current_step_id      |-> stored.current_step_id,
     current_step_status  |-> stored.current_step_status,
     current_step_summary |-> stored.current_step_summary,
     outputs              |-> OutputsToStorageIDL(state.outputs),
     trace_document_url   |-> Optional(state.trace, NoValue),
     skipped_step_ids     |-> stored.skipped_step_ids]

\* The State a projection stands for, by way of the message of state.json.
LoadProjection(stored) ==
    FlowStateFromIDL(
        [current_step_id      |-> stored.current_step_id,
         current_step_status  |-> stored.current_step_status,
         current_step_summary |-> stored.current_step_summary,
         integrations         |->
            [trace |-> {[document_url |-> document] : document \in stored.trace_document_url}],
         skipped_step_ids     |-> stored.skipped_step_ids],
        OutputsFromStorageIDL(stored.outputs))

ProjectionNeedsRebuild(stored, state) == LoadProjection(stored) # state

\* What is written for a State is accepted, and is not stale for it.
ProjectionReadsBack(state) ==
    LET stored == WriteProjection(state) IN
    /\ ValidateAgainst(Definition, state)
    /\ stored \in CardProjection /\ CardProjectionIsValid(stored)
    /\ StoredFlowStateIsValid(FlowStateToIDL(LoadProjection(stored)))
    /\ Validate(LoadProjection(stored)) /\ ValidateAgainst(Definition, LoadProjection(stored))
    /\ ~ProjectionNeedsRebuild(stored, state)

-----------------------------------------------------------------------------
(* events.jsonl *)

EventKind(kind) ==
    CASE kind = "flow.initialized"     -> "flow_initialized"
      [] kind = "flow.progressed"      -> "flow_progressed"
      [] kind = "flow.result"          -> "flow_result"
      [] kind = "trace.document_bound" -> "trace_document_bound"
      [] kind = "trace.sync_started"   -> "trace_sync_started"
      [] kind = "trace.synced"         -> "trace_synced"

\* Of the Evidence of a report, whether a human gave some.
EvidenceToIDL(human) == IF human THEN {[source |-> "human"]} ELSE {}

HumanFromIDL(evidence) == \E item \in evidence : item.source = "human"

FlowResultToIDL_OmitsReturns(event) ==
    [condition_results |-> event.results, summary |-> event.summary,
     evidence |-> EvidenceToIDL(event.human),
     effect |-> event.effect,
     transition |-> [direction |-> Direction(event.effect), from_step_id |-> event.from,
                     to_step_id |-> Optional(event.to, event.from)],
     output_changes |-> [accepted |-> event.accepted, invalidated |-> event.invalidated]]

FlowResultToIDL(event) ==
    [condition_results |-> event.results, summary |-> event.summary,
     evidence |-> EvidenceToIDL(event.human),
     effect |-> event.effect,
     transition |-> [direction |-> Direction(event.effect), from_step_id |-> event.from,
                     to_step_id |-> Optional(event.to, Nil)],
     output_changes |-> [accepted |-> event.accepted, invalidated |-> event.invalidated]]

FlowResultFromIDL(stored) ==
    [kind |-> "flow.result", effect |-> stored.effect,
     from |-> stored.transition.from_step_id, to |-> Get(stored.transition.to_step_id, Nil),
     results |-> stored.condition_results, human |-> HumanFromIDL(stored.evidence),
     summary |-> stored.summary,
     accepted |-> stored.output_changes.accepted,
     invalidated |-> stored.output_changes.invalidated]

\* The four codes a target can fail with are upper case in the runtime.
ErrorCodes ==
    [TRACE_UPDATE_FAILED |-> "trace_update_failed", REGISTRY_UPDATE_FAILED |-> "registry_update_failed",
     NETWORK_FAILED |-> "network_failed", UPSTREAM_AUTH_FAILED |-> "upstream_auth_failed"]

\* An Event trace.synced has one result for each of its targets.
TraceSyncedToIDL(event) ==
    [outcome |-> event.outcome,
     targets |-> {[target |-> t, status |-> event.targets[t].status,
                   error |-> {[code |-> ErrorCodes[c]] :
                                c \in Optional(event.targets[t].error, OK)}] :
                     t \in DOMAIN event.targets}]

TraceSyncedFromIDL(stored) ==
    [kind |-> "trace.synced", outcome |-> stored.outcome,
     targets |-> [t \in {r.target : r \in stored.targets} |->
        LET result == CHOOSE r \in stored.targets : r.target = t IN
        [status |-> result.status,
         error |-> Get({c \in DOMAIN ErrorCodes : [code |-> ErrorCodes[c]] \in result.error}, OK)]]]

Payload(event) ==
    CASE event.kind = "flow.initialized" ->
            [step_id |-> event.step, step_status |-> event.status]
      [] event.kind = "flow.progressed" ->
            [from_step_id |-> event.from, from_step_status |-> event.fromStatus,
             to_step_status |-> event.to, summary |-> event.summary]
      [] event.kind = "flow.result" -> FlowResultToIDL(event)
      [] event.kind = "trace.document_bound" ->
            [document_url |-> event.document,
             previous_document_url |-> Optional(event.previous, NoValue)]
      [] event.kind = "trace.sync_started" -> [targets |-> event.targets]
      [] event.kind = "trace.synced" -> TraceSyncedToIDL(event)

EventPayloadToIDL(event) ==
    [member \in EventKinds \ {Unspecified} |->
        IF member = EventKind(event.kind) THEN {Payload(event)} ELSE {}]

EventPayloadFromIDL(kind, payload) ==
    LET stored == Get(payload[EventKind(kind)], Nil) IN
    CASE kind = "flow.initialized" ->
            [kind |-> kind, step |-> stored.step_id, status |-> stored.step_status]
      [] kind = "flow.progressed" ->
            [kind |-> kind, from |-> stored.from_step_id, fromStatus |-> stored.from_step_status,
             to |-> stored.to_step_status, summary |-> stored.summary]
      [] kind = "flow.result" -> FlowResultFromIDL(stored)
      [] kind = "trace.document_bound" ->
            [kind |-> kind, document |-> stored.document_url,
             previous |-> Get(stored.previous_document_url, NoValue)]
      [] kind = "trace.sync_started" -> [kind |-> kind, targets |-> stored.targets]
      [] kind = "trace.synced" -> TraceSyncedFromIDL(stored)

\* ValidateEventPayload, which both directions call.
ValidateEventPayload(event) ==
    CASE event.kind = "flow.initialized" ->
            event.step # Nil /\ event.status \in {"ready", "awaiting_confirmation"}
      [] event.kind = "flow.progressed" ->
            /\ event.from # Nil /\ event.fromStatus \in Statuses /\ event.to \in Running
            /\ event.summary # NoSummary
      [] event.kind = "flow.result" ->
            WellFormedResult(Definition, event) /\ event.from # Nil /\ event.summary # NoSummary
      [] event.kind = "trace.document_bound" -> event.document # NoValue
      [] event.kind = "trace.sync_started" -> event.targets # {}
      [] event.kind = "trace.synced" ->
            /\ DOMAIN event.targets # {}
            /\ \A t \in DOMAIN event.targets :
                  event.targets[t].status = "failed" <=> event.targets[t].error # OK

EncodeEvent(event) ==
    [kind |-> EventKind(event.kind), payload |-> EventPayloadToIDL(event)]

DecodeEvent(stored, kind) == EventPayloadFromIDL(kind, stored.payload)

\* The line comes back as the Event that was committed, with exactly one member
\* of the union, that of its kind, and no target result in it is malformed.
EventReadsBack(event) ==
    LET stored == EncodeEvent(event) IN
    /\ ValidateEventPayload(event)
    /\ stored \in StoredEvent /\ StoredEventIsValid(stored)
    /\ CountSetFieldsEventPayload(stored.payload) = 1
    /\ stored.payload[stored.kind] # {}
    /\ \A synced \in stored.payload.trace_synced : \A result \in synced.targets :
          TraceTargetResultIsValid(result)
    /\ DecodeEvent(stored, event.kind) = event

-----------------------------------------------------------------------------
(* trace/sync.go: the two Events of a sync; what its targets answer is free *)

TargetSets ==
    {{"trace_document", "registry"}, {"trace_document", "registry", "cli_log_document"}}

TargetResult(t) ==
    {[status |-> "succeeded", error |-> OK]}
    \cup {[status |-> "failed", error |-> c] : c \in DOMAIN ErrorCodes}
    \cup IF t = "registry" THEN {[status |-> "skipped", error |-> OK]} ELSE {}

Skipped(targets) == [t \in targets |-> [status |-> "skipped", error |-> OK]]

SyncOutcome(results) ==
    LET statuses == {results[t].status : t \in DOMAIN results} IN
    CASE "failed" \in statuses   -> "partial"
      [] statuses = {"skipped"}  -> "skipped"
      [] OTHER                   -> "succeeded"

SyncResults(targets) ==
    IF current.trace = NoValue THEN {Skipped(targets)}
    ELSE {results \in [targets -> UNION {TargetResult(t) : t \in targets}] :
             \A t \in targets : results[t] \in TargetResult(t)}

SyncEvents ==
    (UNION {{[kind |-> "trace.synced", outcome |-> SyncOutcome(results), targets |-> results] :
               results \in SyncResults(targets)} : targets \in TargetSets})
    \cup {[kind |-> "trace.sync_started", targets |-> targets] :
               targets \in {set \in TargetSets : current.trace # NoValue}}

-----------------------------------------------------------------------------
(* Properties *)

\* Every commit a command could make now: the State and the Event it writes
\* and, for a flow command, the answer it has checked before.
InitCommits ==
    {[next |-> next, event |-> [kind |-> "flow.initialized", step |-> next.step,
                                status |-> next.status],
      shows |-> InitResponse(next).state,
      valid |-> FlowInitResponseIsValid(InitResponse(next))] :
        next \in {state \in {[Blank EXCEPT !.step = FirstStepID,
                                          !.status = EntryStepStatus(Definition),
                                          !.summary = WorkflowInitialized]} : ~initialized}}

ResultCommit(request) ==
    LET next     == EvaluatedState(Definition, current, request)
        event    == ResultPayload(Definition, current, request)
        response == ResultResponse(next, event, FALSE)
    IN  [next |-> next, event |-> event, shows |-> response.state,
         valid |-> /\ FlowResultResponseIsValid(response)
                   /\ response.transition = FlowResultToIDL(event).transition]

ProgressCommits ==
    {[next |-> next,
      event |-> [kind |-> "flow.progressed", from |-> current.step, fromStatus |-> current.status,
                 to |-> next.status, summary |-> next.summary],
      shows |-> ProgressResponse(next).state,
      valid |-> FlowProgressResponseIsValid(ProgressResponse(next))] :
        next \in UNION {{[current EXCEPT !.status = status, !.summary = summary] :
                            summary \in Summaries} :
                            status \in {s \in Running : ProgressRefusal(current.step) = OK}}}

TraceCommits ==
    {[next |-> [current EXCEPT !.trace = document],
      event |-> [kind |-> "trace.document_bound", previous |-> current.trace,
                 document |-> document],
      shows |-> Project(current), valid |-> TRUE] :
        document \in {d \in Documents : BindRefusal(d) = OK}}
    \cup
    {[next |-> current, event |-> event, shows |-> Project(current), valid |-> TRUE] :
        event \in {e \in SyncEvents : LoadRefusal = OK}}

NextCommits ==
    InitCommits \cup ProgressCommits \cup TraceCommits \cup
    {ResultCommit(request) : request \in {r \in Requests : initialized /\ Accepted(r)}}

\* The answer a command sends is valid and shows what the next `flow status`
\* reads from disk, though it was projected before anything was written; every
\* Route, Condition and Output that it shows satisfies the rules of its own
\* message, which the generated rules of the answer do not descend to.
AnswersAreKept ==
    \A commit \in NextCommits :
        LET status == StatusResponse(ReadBack(commit.next)) IN
        /\ commit.valid
        /\ commit.shows = status.state
        /\ FlowStatusResponseIsValid(status)
        /\ \A task \in status.state.current : \A view \in task.available_routes :
              AvailableRouteIsValid(view)
        /\ \A k \in DOMAIN status.state.outputs : RegisteredOutputIsValid(status.state.outputs[k])

\* Whatever a command accepts it can write, and the next command reads it back
\* as it was: no combination of an effect, a status, a Route to the Step it
\* starts from, a completed Workflow or an empty Registry is lost between the
\* two conversions or refused by the validation of only one of them, which
\* would leave the Requirement unreadable after a command that answered OK.  The
\* Card projection made of a State is accepted by the next card render, which
\* takes it for stale exactly when the State has changed since; and the answer the
\* caller got shows what is on disk.
CommitsAreReadable ==
    /\ AnswersAreKept
    /\ initialized => StateReadsBack(current)
    /\ \A commit \in NextCommits :
          /\ StateReadsBack(commit.next) /\ EventReadsBack(commit.event)
          /\ ProjectionReadsBack(commit.next)
          /\ initialized /\ commit.next # current =>
                ProjectionNeedsRebuild(WriteProjection(current), commit.next)

\* A dry run, which stops before the commit, foretells it, but for a Step that
\* a Jump would skip with an Output of its own still registered.
DryRunForetells ==
    \A request \in Requests :
        initialized /\ ResultRefusal(Definition, current, request) = OK =>
            LET next == EvaluatedState(Definition, current, request) IN
            CASE CommitRefusal(next, ResultPayload(Definition, current, request)) = OK -> TRUE
              [] CommitRefusal(next, ResultPayload(Definition, current, request)) = "INTERNAL" ->
                    \E k \in Keys(Definition) : next.outputs[k].producer \in next.skipped
              [] OTHER -> FALSE

\* A refusal is one that the contract of its command lists: before the runtime
\* of a command runs, whatever the invocation, and in the runtime, where it is
\* moreover none that a retry of the same request could help; and what a dry run
\* accepts is not refused by the report itself.
RefusalsAreContracted ==
    LET known(command, code) ==
            code = OK \/ (code \in Errors(command) /\ ~ErrorSpecs[code].retryable)
    IN  /\ RefusedAsContracted
        /\ DryRunForetells
        /\ \A request \in Requests :
              known("flow.report.result",
                    IF LoadRefusal # OK THEN LoadRefusal
                    ELSE ResultRefusal(Definition, current, request))
        /\ \A step \in Step : known("flow.report.progress", ProgressRefusal(step))
        /\ \A document \in Documents :
              BindRefusal(document) # "unchanged" => known("trace.bind", BindRefusal(document))
=============================================================================
