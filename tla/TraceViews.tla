------------------------------ MODULE TraceViews ------------------------------
(***************************************************************************)
(* What a reader of the Trace sees of the committed facts: the local       *)
(* projections trace/events.md and trace/config.json                       *)
(* (store/trace_projection.go), the answer of `trace status`               *)
(* (trace/runtime.go) and the Registry row (trace/sync.go).  Each of them  *)
(* reads the State and the Events by code of its own.                      *)
(*                                                                         *)
(* Wording, Skills, times and links are left out; whether the Step has a   *)
(* human executor is free.  Module Projections has the order in which the  *)
(* views are written.                                                      *)
(***************************************************************************)
EXTENDS TraceIDL

-----------------------------------------------------------------------------
(* A sync of a bound Requirement *)

\* What State.Validate accepts: a binding made before the Registry was turned
\* off keeps its CLI log document.
Bindings ==
    {binding \in [registry : Resolved, cli_log_document_url : BOOLEAN] :
        ~Disabled(binding.registry) =>
            binding.cli_log_document_url = binding.registry.require_cli_log_document}

RequestedProfile(request) ==
    LET profile == Get(request.registry, "") IN IF profile = "" THEN "production" ELSE profile

\* What `trace bind` asks of a request before module Flow decides on the document,
\* with the Registry that the profile resolves to.
BindRequestRefusal(request, registry) ==
    IF \/ ~TraceBindRequestIsValid(request)
       \/ registry.profile # RequestedProfile(request)
       \/ registry.require_cli_log_document # request.cli_log_document_url
    THEN "INVALID_ARGUMENT" ELSE OK

BindResponse(code) == [effect |-> IF code = OK THEN "bound" ELSE code]

PlannedSyncTargets(binding) ==
    {"trace_document", "registry"} \cup
    IF binding.cli_log_document_url THEN {"cli_log_document"} ELSE {}

\* code is what a failed lark-cli names: one of ErrorCode, another that
\* names authentication, or any other text.
LarkReplies == ErrorCode \cup {Unspecified, "other AUTH", "other"}

LarkFailure_TakesAnyCode(code, fallback) ==
    IF code \in ErrorCode THEN code
    ELSE IF code = "other AUTH" THEN "UPSTREAM_AUTH_FAILED"
    ELSE fallback

LarkFailure(code, fallback) ==
    IF code \in DOMAIN ErrorCodes THEN code
    ELSE IF code = "other AUTH" THEN "UPSTREAM_AUTH_FAILED"
    ELSE fallback

-----------------------------------------------------------------------------
(* trace/config.json *)

NoTraceConfig ==
    [trace_document_url |-> {}, cli_log_document_url |-> FALSE, registry_profile |-> {},
     registry |-> {}, last_sync_at |-> 0, last_sync_error |-> {},
     target_last_sync_at |-> [t \in PublicTarget \ {Unspecified} |-> 0],
     target_last_sync_error |-> [t \in PublicTarget \ {Unspecified} |-> OK]]

\* A binding is a set of at most one.
BoundConfig(bound) ==
    [NoTraceConfig EXCEPT
        !.trace_document_url   = {binding.document_url : binding \in bound},
        !.cli_log_document_url = \E binding \in bound : binding.cli_log_document_url,
        !.registry_profile     = {binding.registry.profile : binding \in bound},
        !.registry             = {binding.registry.coordinates : binding \in bound}]

Having(event, status) == {t \in DOMAIN event.targets : event.targets[t].status = status}

ApplySync_KeepsErrors(config, event, now) ==
    [config EXCEPT
        !.target_last_sync_at =
            [t \in DOMAIN @ |-> IF t \in Having(event, "succeeded") THEN now ELSE @[t]],
        !.target_last_sync_error =
            [t \in DOMAIN @ |-> IF t \in Having(event, "failed") THEN event.targets[t].error
                                ELSE @[t]],
        !.last_sync_at = IF event.outcome = "succeeded" THEN now ELSE @,
        !.last_sync_error =
            CASE event.outcome = "succeeded" -> {}
              [] event.outcome = "partial" ->
                    {<<t, event.targets[t].error>> : t \in Having(event, "failed")}
              [] OTHER -> @]

ApplySync(config, event, now) ==
    [config EXCEPT
        !.target_last_sync_at =
            [t \in DOMAIN @ |-> IF t \in Having(event, "succeeded") THEN now ELSE @[t]],
        !.target_last_sync_error =
            [t \in DOMAIN @ |-> IF t \in Having(event, "succeeded") THEN OK
                                ELSE IF t \in Having(event, "failed") THEN event.targets[t].error
                                ELSE @[t]],
        !.last_sync_at = IF event.outcome = "succeeded" THEN now ELSE @,
        !.last_sync_error =
            CASE event.outcome = "succeeded" -> {}
              [] event.outcome = "partial" ->
                    {<<t, event.targets[t].error>> : t \in Having(event, "failed")}
              [] OTHER -> @]

Syncs(events) == {i \in DOMAIN events : events[i].kind = "trace.synced"}

RenderTraceConfig(bound, events) ==
    LET after[n \in 0..Len(events)] ==
            IF n = 0 THEN BoundConfig(bound)
            ELSE IF n \in Syncs(events) THEN ApplySync(after[n - 1], events[n], n)
            ELSE after[n - 1]
        config == after[Len(events)]
    IN  {c \in {config} : (bound # {} \/ Syncs(events) # {}) /\ TraceConfigIsValid(config)}

-----------------------------------------------------------------------------
(* `trace status` and `trace render` *)

\* Of a result that cannot be shown there is none.
PublicTargets(targets) ==
    {[target |-> t, status |-> targets[t].status,
      error |-> {[code |-> code] : code \in Optional(targets[t].error, OK)}] : t \in DOMAIN targets}

LatestSync(events) ==
    {[occurred_at |-> i, outcome |-> events[i].outcome, targets |-> PublicTargets(events[i].targets)] :
        i \in {i \in Syncs(events) : \A j \in Syncs(events) : j <= i}}

StatusOfTrace(bound, events) ==
    [document_url |-> {binding.document_url : binding \in bound},
     registry |-> {[profile |-> binding.registry.profile,
                    coordinates |-> binding.registry.coordinates] : binding \in bound},
     event_count |-> Len(events), last_sync |-> LatestSync(events),
     cli_log_document_url |-> \E binding \in bound : binding.cli_log_document_url]

RenderResponse(events) == [event_count |-> Len(events), projection_path |-> "events.md"]

SyncResponse(event) == [outcome |-> event.outcome, targets |-> PublicTargets(event.targets)]

-----------------------------------------------------------------------------
(* trace/events.md *)

\* A Step with a human executor reads "Human Review" unless it awaits confirmation.
StatusLabel(state, human) ==
    IF human /\ state.step # Nil /\ DisplayStatus(state) # "awaiting_confirmation"
    THEN "Human Review"
    ELSE DisplayStatus(state)

ConditionRows(state) ==
    IF state.step = Nil THEN {}
    ELSE IF state.status = "awaiting_confirmation"
    THEN IF Definition.controls THEN CommonConditions ELSE {}
    ELSE RelevantConditionIDs(Definition, state.step)

OutputRows(state) ==
    {[key |-> k, producer |-> state.outputs[k].producer, value |-> state.outputs[k].value] :
        k \in {k \in DOMAIN state.outputs : state.outputs[k].producer # Nil}}

\* A row of the Trace Log; the empty target of a completion reads as Done.
LogRow(event) ==
    CASE event.kind = "flow.initialized" ->
            [from |-> "new", to |-> event.step, result |-> "started"]
      [] event.kind = "flow.progressed" ->
            [from |-> event.from, to |-> event.from, result |-> event.to]
      [] event.kind = "flow.result" ->
            [from |-> event.from, to |-> event.to, result |-> event.effect]
      [] event.kind = "trace.document_bound" ->
            [from |-> "none", to |-> "none", result |-> "passed"]
      [] event.kind = "trace.sync_started" ->
            [from |-> "none", to |-> "none", result |-> "started"]
      [] event.kind = "trace.synced" ->
            [from |-> "none", to |-> "none", result |-> event.outcome]

-----------------------------------------------------------------------------
(* The Registry row *)

RegistryStatus(state, human) ==
    IF DisplayStatus(state) \in {"done", "blocked"} THEN DisplayStatus(state)
    ELSE IF human /\ state.step # Nil THEN "human review"
    ELSE "in progress"

\* A completed Workflow is shown where it ended.
RegistryLocation(state) == IF state.step = Nil THEN Definition.steps ELSE state.step

\* latestFlowAudit: what the row says of the last flow Event, if there is one.
Audit(event) ==
    CASE event.kind = "flow.progressed" ->
            {[from |-> event.from, status |-> event.to]}
      [] event.kind = "flow.result" ->
            {[effect |-> event.effect, from |-> event.from, to |-> event.to,
              conditions |-> {event.results[i].id : i \in DOMAIN event.results},
              accepted |-> event.accepted, invalidated |-> event.invalidated]}
      [] OTHER -> {}

-----------------------------------------------------------------------------
(* Properties *)

\* What a target answers, with one code for all failures.
Answers(binding, t) ==
    IF t = "registry" /\ Disabled(binding.registry) THEN {[status |-> "skipped", error |-> OK]}
    ELSE {[status |-> "succeeded", error |-> OK], [status |-> "failed", error |-> "NETWORK_FAILED"]}

Synced(results) ==
    [kind |-> "trace.synced", outcome |-> SyncOutcome(results), targets |-> results]

SyncsOf(binding) ==
    LET targets == PlannedSyncTargets(binding) IN
    {Synced(results) :
        results \in {r \in [targets -> UNION {Answers(binding, t) : t \in targets}] :
                        \A t \in targets : r[t] \in Answers(binding, t)}}

\* Bound: up to MaxSyncs syncs, perhaps after one before the Trace was bound.
MaxSyncs == 3

Histories(binding) ==
    LET bound  == UNION {[1..n -> SyncsOf(binding)] : n \in 0..MaxSyncs}
        before == {<<Synced(Skipped(targets))>> : targets \in TargetSets}
    IN  {earlier \o later : earlier \in {<<>>} \cup before, later \in bound}

\* Environments: none, all or one of the variables is set.
FewBindings ==
    {[document_url |-> d, registry |-> b.registry,
      cli_log_document_url |-> b.cli_log_document_url] :
        d \in Documents,
        b \in {b \in Bindings :
                  {c \in Coordinates : b.registry.coordinates[c] = "environment"}
                     \in {{}, {"url"}, Coordinates}}}

Attempts(events, t) ==
    {i \in Syncs(events) : t \in Having(events[i], "succeeded") \cup Having(events[i], "failed")}

LastOf(S) == CHOOSE i \in S \cup {0} : \A j \in S : j <= i

TargetShownRight(config, events, t) ==
    LET tries     == Attempts(events, t)
        successes == {i \in tries : t \in Having(events[i], "succeeded")}
    IN  /\ config.target_last_sync_at[t] = LastOf(successes)
        /\ config.target_last_sync_error[t] =
              IF tries = {} THEN OK ELSE events[LastOf(tries)].targets[t].error

\* trace/config.json, folded forward over all syncs, and `trace status`, which
\* looks for the last one, tell of the same syncs, whatever failed in which order.
\* A target that has recovered is not shown as failing and one that fails again
\* keeps its last success; the error of the whole is that of the targets; both
\* name one Registry; the answer is valid but where the Registry is turned off.
\* What a bind request asks for is a binding that the State accepts, and every
\* failure has a code that can be written down.
SyncViewsAgree ==
    /\ \A binding \in FewBindings : \A events \in Histories(binding) :
          LET status == StatusOfTrace({binding}, events) IN
          \E config \in RenderTraceConfig({binding}, events) :
             /\ \A t \in PublicTarget \ {Unspecified} : TargetShownRight(config, events, t)
             /\ config.last_sync_error =
                   {<<t, config.target_last_sync_error[t]>> :
                       t \in {t \in PublicTarget \ {Unspecified} :
                                 config.target_last_sync_error[t] # OK}}
             /\ \A sync \in status.last_sync :
                   /\ sync.outcome = "succeeded" =>
                         config.last_sync_at = sync.occurred_at /\ config.last_sync_error = {}
                   /\ sync.outcome # "skipped" =>
                         config.last_sync_error =
                            {<<r.target, (CHOOSE e \in r.error : TRUE).code>> :
                                r \in {r \in sync.targets : r.status = "failed"}}
             /\ config.registry = {r.coordinates : r \in status.registry}
             /\ config.trace_document_url = status.document_url
             /\ config \in TraceConfig /\ status \in TraceStatusResponse
             /\ ~Disabled(binding.registry) => TraceStatusResponseIsValid(status)
             /\ \A sync \in status.last_sync : \A result \in sync.targets :
                   PublicTargetResultIsValid(result)
             /\ TraceRenderResponseIsValid(RenderResponse(events))
    /\ \A request \in TraceBindRequest, registry \in Resolved :
          BindRequestRefusal(request, registry) = OK =>
             [registry |-> registry, cli_log_document_url |-> request.cli_log_document_url]
                \in Bindings
    /\ \A code \in LarkReplies, fallback \in DOMAIN ErrorCodes :
          LarkFailure(code, fallback) \in DOMAIN ErrorCodes

\* The views of a State beside `flow status`: a Condition is listed for a report
\* exactly when a Route that the status shows asks for it (jumps are listed only
\* at a Step that awaits confirmation) and an agent is told its values; the
\* panorama and the Registry row say done exactly when no Step is left to work
\* at, and otherwise name the one the agent works at.
StateViewsAgree ==
    /\ \A human \in BOOLEAN :
          /\ StatusLabel(current, human) = "done" <=> Tasks = {}
          /\ RegistryStatus(current, human) = "done" <=> Tasks = {}
    /\ Tasks = {} => ConditionRows(current) = {}
    /\ \A task \in Tasks :
          LET asked == UNION (UNION {view.when : view \in task.available_routes})
              rows  == ConditionRows(current)
          IN  /\ rows \ {"jump_requested"} = asked \ {"jump_requested"}
              /\ rows \subseteq {c.id : c \in Shown(task)}
              /\ RegistryLocation(current) = task.step_id
    /\ {r.key : r \in OutputRows(current)} = DOMAIN Project(current).outputs

\* A row of the Trace Log and the audit line of the Registry, read back from the
\* line that a commit writes, lead from the State before it to the State after:
\* a reader who follows them knows the Step, its status, and which Outputs there
\* are, of every effect and of the last one too.
CommitViewsAgree ==
    \A commit \in NextCommits :
        LET event == DecodeEvent(EncodeEvent(commit.event), commit.event.kind)
            row   == LogRow(event)
            next  == commit.next
        IN  /\ event.kind \in {"flow.progressed", "flow.result"} =>
                  row.from = current.step /\ row.to = next.step
            /\ event.kind = "flow.initialized" => row.to = next.step
            /\ event.kind = "flow.progressed" => row.result = next.status
            /\ \A audit \in Audit(event) :
                  /\ audit.from = current.step
                  /\ event.kind = "flow.progressed" => audit.status = next.status
                  /\ event.kind = "flow.result" =>
                        /\ audit.to = next.step
                        /\ {r.key : r \in OutputRows(next)} =
                              ({r.key : r \in OutputRows(current)} \ audit.invalidated)
                              \cup audit.accepted
            /\ (event.kind = "flow.result") = (\E audit \in Audit(event) : "effect" \in DOMAIN audit)
            /\ event.kind = "trace.document_bound" =>
                  TraceBindResponseIsValid(BindResponse(BindRefusal(event.document)))
            /\ event.kind = "trace.synced" => TraceSyncResponseIsValid(SyncResponse(event))

\* Every reader of the Trace is told the same story, that of the commits.
TraceViewsAgree ==
    /\ SyncViewsAgree
    /\ initialized => StateViewsAgree
    /\ CommitViewsAgree
=============================================================================
