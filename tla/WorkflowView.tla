---------------------------- MODULE WorkflowView ----------------------------
(***************************************************************************)
(* What `flow status` and the answers of the flow commands show to an      *)
(* agent (internal/workflowview) beside what `flow report` then accepts    *)
(* (internal/flow): two readings of one Workflow by code that shares       *)
(* nothing but the definition.  Names, Prompts and Skills decide nothing   *)
(* and are left out.                                                       *)
(***************************************************************************)
EXTENDS Contract

\* conditionViews: what a report may carry, the values it may have and the
\* fact they must agree with.
ConditionViews(step) ==
    {[id |-> c, values |-> Definition.valid[c], source |-> Definition.source[c]] :
        c \in RelevantConditionIDs(Definition, step)}

CommonConditionViews ==
    IF Definition.controls
    THEN {[id |-> c, values |-> Definition.commonValid[c], source |-> "none"] : c \in CommonConditions}
    ELSE {}

\* A Route as it is shown: the selection that takes it, and what it asks for.
FlowRouteViews(routes) ==
    {[direction |-> "flow", when |-> routes[i].when,
      route |-> IF routes[i].to = Terminal THEN [NoSelection EXCEPT !.terminal = {TRUE}]
                ELSE [NoSelection EXCEPT !.next_step_id = {routes[i].to}]] : i \in DOMAIN routes}

LoopRouteViews(routes) ==
    {[direction |-> "loop", when |-> routes[i].when,
      route |-> [NoSelection EXCEPT !.back_step_id = {routes[i].to}]] : i \in DOMAIN routes}

AvailableRouteViews(step) ==
    FlowRouteViews(Definition.flows[step]) \cup LoopRouteViews(Definition.loops[step])

CommonStartRouteView ==
    [direction |-> "flow", when |-> {{"start_confirmed"}},
     route |-> [NoSelection EXCEPT !.start_current_step = {TRUE}]]

CommonJumpRouteViews ==
    IF Definition.controls
    THEN {[direction |-> "flow", when |-> {{"jump_requested"}},
           route |-> [NoSelection EXCEPT !.jump_step_id = {s}]] : s \in Step}
    ELSE {}

RegisteredOutputs(outputs) ==
    [k \in {k \in DOMAIN outputs : outputs[k].producer # Nil} |->
        [value |-> outputs[k].value, producer_step_id |-> outputs[k].producer]]

\* A Step that awaits confirmation shows the controls alone.
Task(state) ==
    LET awaiting == state.status = "awaiting_confirmation" IN
    [step_id |-> state.step,
     execution |-> [status |-> state.status, summary |-> Optional(state.summary, NoSummary)],
     conditions |-> IF awaiting THEN {} ELSE ConditionViews(state.step),
     available_routes |->
        CommonJumpRouteViews \cup
        IF awaiting THEN {CommonStartRouteView} ELSE AvailableRouteViews(state.step),
     common_conditions |-> CommonConditionViews]

Project(state) ==
    LET runs == state.step # Nil /\ Definition.flows[state.step] # << >> IN
    [status |-> IF runs THEN "running" ELSE "completed",
     current |-> IF runs THEN {Task(state)} ELSE {},
     outputs |-> RegisteredOutputs(state.outputs), skipped_step_ids |-> state.skipped]

\* The answers of flow init, status, report progress and report result.
InitResponse(next) == [effect |-> "initialized", state |-> Project(next)]

StatusResponse(state) == [state |-> Project(state)]

ProgressResponse(next) == [effect |-> "status_updated", state |-> Project(next)]

ResultResponse(next, event, dryRun) ==
    [effect |-> event.effect, event_id |-> IF dryRun THEN {} ELSE {"event"},
     transition |-> [direction |-> Direction(event.effect), from_step_id |-> event.from,
                     to_step_id |-> Optional(event.to, Nil)],
     state |-> Project(next), invalidated_outputs |-> event.invalidated]

-----------------------------------------------------------------------------
(* display.go: the panorama of the Card, the Trace and the Registry row *)

DisplayStatus(state) == IF state.step = Nil THEN "done" ELSE state.status

DisplayStepState(state, s) ==
    IF s \in state.skipped THEN "skipped"
    ELSE IF state.step = Nil \/ s < state.step THEN "completed"
    ELSE IF s = state.step THEN "current"
    ELSE "pending"

\* The share of the Steps that lie before the current one, rounded.
ProgressPercent(state) ==
    IF state.step = Nil THEN 100
    ELSE ((state.step - 1) * 100 + Definition.steps \div 2) \div Definition.steps

Display(state) ==
    [status |-> DisplayStatus(state), progress |-> ProgressPercent(state),
     steps |-> [s \in Step |-> DisplayStepState(state, s)]]

-----------------------------------------------------------------------------
(* Properties *)

\* The selection that spells out a Route, as the help of `flow report result` has it.
Selection(route) ==
    CASE route.kind = "next"     -> [NoSelection EXCEPT !.next_step_id = {route.to}]
      [] route.kind = "back"     -> [NoSelection EXCEPT !.back_step_id = {route.to}]
      [] route.kind = "terminal" -> [NoSelection EXCEPT !.terminal = {TRUE}]
      [] route.kind = "start"    -> [NoSelection EXCEPT !.start_current_step = {TRUE}]
      [] route.kind = "jump"     -> [NoSelection EXCEPT !.jump_step_id = {route.to}]

\* The request that an agent writes for a selection it was shown.
Submission(step, selection, results, evidence, summary) ==
    [step_id |-> step, condition_results |-> results, summary |-> summary,
     route |-> {selection}, evidence |-> evidence]

\* A request that passes the validation says one thing: the Route that is taken
\* is the one its selection spells out, no other field of it is dropped, and
\* neither `terminal: false` nor an empty Step id selects anything.
RequestsAreUnderstood ==
    \A selection \in RouteSelection, results \in ResultSequences, summary \in Summaries :
        LET request == Submission(FirstStepID, selection, results, {}, summary) IN
        ValidateResultRequest(request) =>
            /\ Selection(Understood(request).route) = selection
            /\ Understood(request) \in Requests

Tasks == Project(current).current

Shown(task) == task.conditions \cup task.common_conditions

Offers(task, request) ==
    /\ \E view \in task.available_routes :
          view.route = Selection(request.route) /\ Matches(view.when, Reported(request))
    /\ \A i \in DOMAIN request.results : \E view \in Shown(task) :
          view.id = request.results[i].id /\ request.results[i].value \in view.values

\* Nothing is accepted that the status did not offer (the help of `flow report
\* result`: submit only current.conditions, a route equals one of
\* current.available_routes): no Result on another Route or with another
\* Condition, in particular none but the controls at a Step that is shown as
\* awaiting confirmation, and no progress there; and no request selects
\* anything but what it is understood to select.
OnlyOfferedIsAccepted ==
    /\ RequestsAreUnderstood
    /\ initialized =>
        /\ \A request \in Requests :
              Accepted(request) => \E task \in Tasks : Offers(task, request)
        /\ \A step \in Step :
              ProgressRefusal(step) = OK =>
                  \A task \in Tasks : task.execution.status # "awaiting_confirmation"

\* The fact that a Condition must agree with is at hand.
Obtainable(view) ==
    CASE view.source = "trace_document_url" -> current.trace \in view.values
      [] view.source = "verify_evidence_outcome" -> view.values \cap ManifestOutcomes # {}
      [] OTHER -> view.values # {}

\* Confirmation by a human, with at most one verification manifest.
EvidenceOffered ==
    {{[source |-> "human", manifest |-> NoValue]} \cup manifest :
        manifest \in {{}} \cup {{[source |-> "file", manifest |-> outcome]} :
                                  outcome \in ManifestOutcomes}}

\* The bundles whose status can be followed to the letter: no Jump, which a Loop
\* could come back behind, and groups of Conditions that one report can hold: no
\* more of them than it may carry, no two with one Output key, and one manifest.
\* Summaries and the reports of valid values are among those that are checked.
Followable ==
    /\ ~Definition.controls
    /\ Summaries # {}
    /\ \A s \in Step : \A view \in AvailableRouteViews(s) : \A group \in view.when :
          /\ IsFiniteSet(group) /\ Cardinality(group) <= MaxResults
          /\ \A c, e \in group : c # e =>
                /\ Definition.key[c] # Definition.key[e]
                /\ Definition.source[c] = "verify_evidence_outcome" =>
                      Definition.source[e] # "verify_evidence_outcome"
          /\ \A c \in group : \A v \in Definition.valid[c] : [id |-> c, value |-> v] \in Reportable

\* Whatever the status offers works: a report of any of the groups of Conditions
\* that a shown Route asks for, with values that are shown as valid, that Route
\* copied as it is shown, and evidence from a human, is a valid request and is
\* accepted.  So an agent that follows the status is never stuck: one Route of
\* each Step leads forward.
OfferedIsAccepted ==
    initialized =>
        \A task \in Tasks : \A view \in task.available_routes : \A group \in view.when :
            (\A c \in Shown(task) : c.id \in group => Obtainable(c)) =>
                \E results \in ResultSequences, evidence \in EvidenceOffered,
                   summary \in Summaries :
                    LET request == Submission(task.step_id, view.route, results, evidence, summary)
                    IN  /\ ValidateResultRequest(request)
                        /\ Reported(Understood(request)) = group
                        /\ Accepted(Understood(request))

\* The bundles whose panorama can be told from the position and the skipped Steps:
\* each Flow Route leads to the next Step, no two Steps can register one Output
\* key, and the share of a Step does not round to 100 percent.
OneStepAtATime ==
    /\ Definition.steps < 200
    /\ \A s \in Step : \A i \in DOMAIN Definition.flows[s] :
          Definition.flows[s][i].to = IF s = Definition.steps THEN Terminal ELSE s + 1
    /\ \A s, t \in Step :
          \A c \in RelevantConditionIDs(Definition, s), e \in RelevantConditionIDs(Definition, t) :
              Definition.key[c] = Definition.key[e] => s = t

\* The panorama tells the truth on every path of Loops, Jumps and starts, though
\* it is computed from a position and a set of skipped Steps alone: a Step shown
\* as completed has an Output of its own registered, one shown as skipped has
\* none, no Step but the one an agent is asked to work at is shown as current,
\* and the Workflow is shown as done, and at 100 percent, exactly when every Step
\* is left behind.  (A Step that a Jump has skipped and a Loop has come back to
\* is still shown as skipped.)
ShownDoneIsDone ==
    initialized =>
        LET shown == Display(current)
            left(s) == shown.steps[s] \in {"completed", "skipped"} /\ s # current.step
            produced(s) == \E k \in Keys(Definition) : current.outputs[k].producer = s
        IN  /\ \A s \in Step : shown.steps[s] = "completed" => produced(s)
            /\ \A s \in Step : shown.steps[s] = "skipped" => ~produced(s)
            /\ \A s \in Step :
                  shown.steps[s] = "current" => \E task \in Tasks : task.step_id = s
            /\ shown.progress = 100 <=> shown.status = "done"
            /\ shown.status = "done" <=> \A s \in Step : left(s)

=============================================================================
