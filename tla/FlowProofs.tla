----------------------------- MODULE FlowProofs -----------------------------
(***************************************************************************)
(* Proofs about modules Flow, WorkflowView, Contract, Persistence and      *)
(* TraceViews, for every validated bundle and every set of reports.        *)
(***************************************************************************)
EXTENDS TraceViews, TLAPS, WellFoundedInduction, FiniteSetTheorems

-----------------------------------------------------------------------------
(* Operators *)

\* Every set of naturals with a member has a least one: the loop over
\* ConditionResults has a first fault when it has any.
LEMMA LeastNatural ==
    ASSUME NEW T, T \subseteq Nat, T # {}
    PROVE  \E x \in T : \A y \in T : x <= y
<1> DEFINE Less == OpToRel(<, Nat)
<1>1. IsWellFoundedOn(Less, Nat)
  BY NatLessThanWellFounded
<1>2. \A x, y \in Nat : x < y => <<x, y>> \in Less
  BY DEF OpToRel
<1> HIDE DEF Less
<1>3. PICK x \in T : \A y \in T : <<y, x>> \notin Less
  BY <1>1, WFMin
<1>4. \A y \in T : ~(y < x)
  BY <1>2, <1>3
<1>5. \A y \in T : y \in Nat /\ x \in Nat
  OBVIOUS
<1> QED
  BY <1>3, <1>4, <1>5

\* The pairwise static check of validateFlowAmbiguity and validateLoopAmbiguity
\* is enough: no set of Conditions that respects the exclusive groups matches
\* two Routes with one target.
LEMMA StaticCheckSuffices ==
    ASSUME NEW d, NEW routes, NEW to, NEW conditions,
           DOMAIN routes \subseteq Nat,
           ~AmbiguousRoutes(d, routes),
           NoExclusivePair(d, conditions)
    PROVE  \A i, j \in Matching(routes, to, conditions) : i = j
<1> SUFFICES ASSUME NEW i \in Matching(routes, to, conditions),
                    NEW j \in Matching(routes, to, conditions),
                    i # j
             PROVE  FALSE
  OBVIOUS
<1>1. /\ i \in DOMAIN routes /\ j \in DOMAIN routes
      /\ routes[i].to = to /\ routes[j].to = to
      /\ Matches(routes[i].when, conditions)
      /\ Matches(routes[j].when, conditions)
  BY DEF Matching, Available
<1>2. PICK g \in routes[i].when : g \subseteq conditions
  BY <1>1 DEF Matches
<1>3. PICK h \in routes[j].when : h \subseteq conditions
  BY <1>1 DEF Matches
<1>4. GroupsCompatible(d, g, h) /\ GroupsCompatible(d, h, g)
  BY <1>2, <1>3 DEF GroupsCompatible, NoExclusivePair
<1>5. /\ WhensOverlap(d, routes[i].when, routes[j].when)
      /\ WhensOverlap(d, routes[j].when, routes[i].when)
  BY <1>2, <1>3, <1>4 DEF WhensOverlap
<1>6. i < j \/ j < i
  BY <1>1
<1> QED
  BY <1>1, <1>5, <1>6 DEF AmbiguousRoutes

\* What the bundle checks leave for the proofs: Routes lead to real Steps, and
\* the Conditions a Step can be sent are declared.
LEMMA BundleFacts ==
    /\ FirstStepID \in Step
    /\ Step \subseteq Nat /\ Nil \notin Step
    /\ \A s \in Step :
          /\ DOMAIN Definition.flows[s] \subseteq Nat
          /\ DOMAIN Definition.loops[s] \subseteq Nat
          /\ ~AmbiguousRoutes(Definition, Definition.flows[s])
          /\ ~AmbiguousRoutes(Definition, Definition.loops[s])
          /\ RelevantConditionIDs(Definition, s) \subseteq Definition.conditions
    /\ \A c \in Definition.conditions : Definition.valid[c] \subseteq Values
<1> USE BundleAssumption DEF IsBundle, ValidBundle, Step, Steps
<1>1. FirstStepID \in Step /\ Step \subseteq Nat /\ Nil \notin Step
  BY DEF FirstStepID, Nil
<1>2. ASSUME NEW s \in Step
      PROVE  /\ DOMAIN Definition.flows[s] \subseteq Nat
             /\ DOMAIN Definition.loops[s] \subseteq Nat
  <2>1. \A S : \A q \in Seq(S) : DOMAIN q \subseteq Nat
    OBVIOUS
  <2> QED
    BY <2>1
<1>3. ASSUME NEW s \in Step
      PROVE  /\ ~AmbiguousRoutes(Definition, Definition.flows[s])
             /\ ~AmbiguousRoutes(Definition, Definition.loops[s])
  BY DEF ValidFlows, ValidLoops
<1>4. ASSUME NEW s \in Step
      PROVE  RelevantConditionIDs(Definition, s) \subseteq Definition.conditions
  OBVIOUS
<1> QED
  BY <1>1, <1>2, <1>3, <1>4

-----------------------------------------------------------------------------
(* Evaluation *)

\* The fields of a request, and where each kind of Route may lead.
LEMMA RequestTypes ==
    ASSUME NEW request \in Requests
    PROVE  /\ request.step \in Step
           /\ request.summary \in Summaries
           /\ request.results \in Seq(Reportable)
           /\ DOMAIN request.results \subseteq Nat \ {0}
           /\ request.route.kind \in {"next", "terminal", "back", "start", "jump"}
           /\ request.route.to \in Step \cup {Terminal}
           /\ request.route.kind \in {"next", "back", "jump"} => request.route.to \in Step
           /\ request.route.kind = "terminal" => request.route.to = Terminal
<1>1. \A q \in ResultSequences : q \in Seq(Reportable) /\ DOMAIN q \subseteq Nat \ {0}
  <2> SUFFICES ASSUME NEW n \in 1..MaxResults, NEW q \in [1..n -> Reportable]
               PROVE  q \in Seq(Reportable) /\ DOMAIN q \subseteq Nat \ {0}
    BY DEF ResultSequences
  <2> QED
    BY ParametersAssumption
<1>2. CASE request \in BusinessRequests
  BY <1>1, <1>2 DEF BusinessRequests
<1>3. CASE request \in ControlRequests
  BY <1>1, <1>3 DEF ControlRequests
<1> QED
  BY <1>2, <1>3 DEF Requests

\* A report that passes the loop over its ConditionResults passes it at each.
LEMMA NoFault ==
    ASSUME NEW request, DOMAIN request.results \subseteq Nat \ {0},
           ConditionsRefusal(Definition, current, request) = OK
    PROVE  \A i \in DOMAIN request.results :
              ResultFault(Definition, current, request, i) = OK
<1> DEFINE faults == {i \in DOMAIN request.results :
                         ResultFault(Definition, current, request, i) # OK}
<1> SUFFICES ASSUME faults # {} PROVE FALSE
  OBVIOUS
<1>1. \E i \in faults : \A j \in faults : i <= j
  <2>1. faults \subseteq Nat
    OBVIOUS
  <2> HIDE DEF faults
  <2> QED
    BY <2>1, LeastNatural
<1>2. PICK i \in faults : i = CHOOSE k \in faults : \A j \in faults : k <= j
  BY <1>1
<1>3. ConditionsRefusal(Definition, current, request)
         = ResultFault(Definition, current, request, i)
  BY <1>2 DEF ConditionsRefusal
<1> QED
  BY <1>3

\* What a fault-free list of ConditionResults satisfies.
SoundResults(step, results) ==
    LET ids == {results[i].id : i \in DOMAIN results} IN
    /\ ids \subseteq RelevantConditionIDs(Definition, step)
    /\ NoExclusivePair(Definition, ids)
    /\ \A i \in DOMAIN results : results[i].value \in Definition.valid[results[i].id]
    /\ \A i, j \in DOMAIN results : results[i].id = results[j].id => i = j
    /\ \A i, j \in DOMAIN results :
          Definition.key[results[i].id] = Definition.key[results[j].id] => i = j

\* Results that pass the checks are of the Step, valid, and one to each Condition and key.
LEMMA FaultFreeResults ==
    ASSUME NEW request, request.step \in Step,
           DOMAIN request.results \subseteq Nat \ {0},
           ConditionsRefusal(Definition, current, request) = OK
    PROVE  SoundResults(request.step, request.results)
<1> DEFINE results == request.results
           earlier(i) == {results[j].id : j \in 1..(i - 1)}
           known(i) == earlier(i) \cap Definition.conditions
<1>1. \A i \in DOMAIN results :
         /\ results[i].id \notin earlier(i)
         /\ results[i].id \in RelevantConditionIDs(Definition, request.step)
         /\ NoExclusivePair(Definition, {results[i].id} \cup known(i))
         /\ results[i].value \in Definition.valid[results[i].id]
         /\ ~\E c \in known(i) : Definition.key[c] = Definition.key[results[i].id]
  BY NoFault DEF ResultFault, OK
<1>2. \A i \in DOMAIN results : results[i].id \in Definition.conditions
  BY <1>1, BundleFacts
<1>3. \A i, j \in DOMAIN results : j < i => results[j].id \in earlier(i) \cap known(i)
  BY <1>2
<1> HIDE DEF earlier, known
<1>4. \A i, j \in DOMAIN results : i = j \/ i < j \/ j < i
  OBVIOUS
<1>5. \A i, j \in DOMAIN results : results[i].id = results[j].id => i = j
  BY <1>1, <1>3, <1>4
<1>6. \A i, j \in DOMAIN results :
         Definition.key[results[i].id] = Definition.key[results[j].id] => i = j
  BY <1>1, <1>3, <1>4
<1>7. NoExclusivePair(Definition, {results[i].id : i \in DOMAIN results})
  BY <1>1, <1>3, <1>4 DEF NoExclusivePair
<1> QED
  BY <1>1, <1>5, <1>6, <1>7 DEF SoundResults

-----------------------------------------------------------------------------
(* Evaluation and replay agree *)

\* The inductive invariant: the committed history replays to the State that is
\* written, and that State passes the checks of every load.
IInv ==
    /\ TypeOK
    /\ HistoryAgrees
    /\ RouteNeverAmbiguous
    /\ IF initialized
       THEN ValidateAgainst(Definition, current) /\ Validate(current)
       ELSE replayed = EmptyReplay(Definition)

\* What the replayed State shares with the current one: all but the status,
\* which the replay leaves open after a Result.
LEMMA ReplayedFields ==
    ASSUME IInv
    PROVE  /\ replayed.step = current.step
           /\ replayed.outputs = current.outputs
           /\ replayed.skipped = current.skipped
           /\ replayed.trace = current.trace
           /\ replayed.summary = current.summary
           /\ replayed.status \in {NoStatus, current.status}
  BY DEF IInv, HistoryAgrees, ReplayedState

\* A State is its six fields.
LEMMA SameFields ==
    ASSUME NEW x \in States,
           NEW y, y = [step |-> y.step, status |-> y.status, summary |-> y.summary,
                       outputs |-> y.outputs, skipped |-> y.skipped, trace |-> y.trace],
           x.step = y.step, x.status = y.status, x.summary = y.summary,
           x.outputs = y.outputs, x.skipped = y.skipped, x.trace = y.trace
    PROVE  x = y
  BY DEF States

\* An accepted back, start or jump makes an Event that is valid and replays.
LEMMA AcceptedControl ==
    ASSUME IInv, NEW request \in Requests, IsControl(request),
           ResultRefusal(Definition, current, request) = OK
    PROVE  LET payload == ResultPayload(Definition, current, request) IN
           /\ ValidNewEvent(Definition, payload)
           /\ Replays(Definition, replayed, payload)
           /\ payload.effect \in Controls
           /\ payload.from = current.step /\ payload.from \in Step /\ payload.to \in Step
<1> DEFINE payload == ResultPayload(Definition, current, request)
           kind == request.route.kind
<1>1. /\ current.step = request.step /\ current.step \in Step
      /\ ControlRefusal(Definition, current, request) = OK
  BY RequestTypes DEF ResultRefusal, CurrentStepRefusal, OK
<1>2. /\ Definition.controls
      /\ kind = "start" => current.status = "awaiting_confirmation"
      /\ Len(request.results) = 1
      /\ request.results[1].id = ControlCondition(kind)
      /\ request.results[1].value \in Definition.commonValid[request.results[1].id]
      /\ request.human
      /\ kind # "start" => /\ request.route.to \in Step
                          /\ request.results[1].value = request.route.to
  BY <1>1 DEF ControlRefusal, OK, Step
<1>3. \/ kind = "start" /\ payload.effect = "started" /\ payload.to = current.step
      \/ kind = "jump" /\ payload.effect = "jumped" /\ payload.to = request.route.to
  BY <1>1 DEF IsControl, Effect, ResultPayload
<1>4. /\ payload.kind = "flow.result" /\ payload.from = current.step
      /\ payload.results = request.results /\ payload.human = request.human
      /\ payload.accepted = {}
      /\ payload.invalidated =
            IF payload.effect = "jumped"
            THEN InvalidatedOutputs(payload.to, current.outputs) ELSE {}
      /\ payload.effect \in Controls
  BY <1>1, <1>3 DEF ResultPayload, AcceptedKeys, Controls, Effect
<1>5. payload.to \in Step /\ payload.to # Nil
  BY <1>1, <1>2, <1>3, BundleFacts
<1>6. \A i, j \in DOMAIN request.results : i = j
  BY <1>2, RequestTypes
<1> HIDE DEF payload, kind
<1>7. WellFormedResult(Definition, payload)
  BY <1>2, <1>3, <1>4, <1>5, <1>6 DEF WellFormedResult
<1>8. SelectsOneRoute(Definition, payload)
  BY <1>2, <1>3, <1>4, <1>5 DEF SelectsOneRoute, ControlCondition, Step, Controls
<1>9. ReplaysResult(Definition, replayed, payload)
  BY <1>1, <1>2, <1>3, <1>4, <1>5, ReplayedFields
     DEF ReplaysResult, Step, Controls, AcceptedKeys, NoStatus
<1> QED
  BY <1>1, <1>4, <1>5, <1>7, <1>8, <1>9 DEF ValidNewEvent, Replays, payload

\* So does an accepted business result, which advances, loops or completes.
LEMMA AcceptedBusiness ==
    ASSUME IInv, NEW request \in Requests, ~IsControl(request),
           ResultRefusal(Definition, current, request) = OK
    PROVE  LET payload == ResultPayload(Definition, current, request) IN
           /\ ValidNewEvent(Definition, payload)
           /\ Replays(Definition, replayed, payload)
           /\ payload.effect \in {"advanced", "looped", "completed"}
           /\ payload.from = current.step /\ payload.from \in Step
           /\ payload.to \in Step \cup {Nil}
           /\ payload.effect = "completed" <=> payload.to = Nil
           /\ SoundResults(current.step, payload.results)
<1> DEFINE payload == ResultPayload(Definition, current, request)
           kind == request.route.kind
           ids == {request.results[i].id : i \in DOMAIN request.results}
           routes == RoutesFor(Definition, request)
<1>1. /\ current.step = request.step /\ current.step \in Step
      /\ BusinessRefusal(Definition, current, request) = OK
  BY RequestTypes DEF ResultRefusal, CurrentStepRefusal, OK
<1>2. /\ current.status # "awaiting_confirmation"
      /\ ConditionsRefusal(Definition, current, request) = OK
      /\ RouteRefusal(routes, request.route.to, ids) = OK
  BY <1>1 DEF BusinessRefusal, Reported, OK
<1>3. SoundResults(current.step, request.results)
  BY <1>1, <1>2, FaultFreeResults, RequestTypes
<1>4. \/ kind = "next" /\ payload.effect = "advanced" /\ payload.to = request.route.to
      \/ kind = "terminal" /\ payload.effect = "completed" /\ payload.to = Nil
      \/ kind = "back" /\ payload.effect = "looped" /\ payload.to = request.route.to
  BY RequestTypes DEF IsControl, Effect, ResultPayload
<1>5. /\ kind \in {"next", "back"} => request.route.to \in Step /\ request.route.to # Nil
      /\ kind = "terminal" => request.route.to = Nil
  BY RequestTypes, BundleFacts DEF Terminal, Nil
<1>6. /\ payload.kind = "flow.result" /\ payload.from = current.step
      /\ payload.results = request.results
      /\ payload.effect \notin Controls /\ payload.effect \in {"advanced", "looped", "completed"}
      /\ payload.accepted = AcceptedKeys(Definition, payload.effect, payload.results)
      /\ payload.invalidated =
            IF payload.effect = "looped"
            THEN InvalidatedOutputs(payload.to, current.outputs) ELSE {}
      /\ payload.to = request.route.to
      /\ payload.to \in Step \cup {Nil}
      /\ payload.effect = "completed" <=> payload.to = Nil
      /\ routes = IF payload.effect = "looped" THEN Definition.loops[payload.from]
                  ELSE Definition.flows[payload.from]
  BY <1>1, <1>4, <1>5 DEF ResultPayload, Controls, Effect, RoutesFor
<1> HIDE DEF payload, kind
<1>7. \E i \in DOMAIN routes : Matching(routes, payload.to, ids) = {i}
  <2>1. /\ Matching(routes, payload.to, ids) # {}
        /\ \A i, j \in Matching(routes, payload.to, ids) : i = j
    BY <1>2, <1>6 DEF RouteRefusal, OK
  <2>2. Matching(routes, payload.to, ids) \subseteq DOMAIN routes
    BY DEF Matching, Available
  <2> HIDE DEF routes, ids
  <2>3. PICK i \in Matching(routes, payload.to, ids) : TRUE
    BY <2>1
  <2> QED
    BY <2>1, <2>2, <2>3
<1>8. request.results # << >>
  <2>1. PICK i \in DOMAIN routes : i \in Matching(routes, payload.to, ids)
    BY <1>7
  <2>2. PICK group \in routes[i].when : group \subseteq ids
    BY <2>1 DEF Matching, Matches
  <2>3. group # {}
    <3>1. ValidFlows(Definition) /\ ValidLoops(Definition)
      BY BundleAssumption DEF ValidBundle
    <3>2. \A j \in DOMAIN routes : ValidWhen(Definition, routes[j].when)
      BY <1>1, <1>6, <3>1 DEF ValidFlows, ValidLoops, Step
    <3>3. ValidWhen(Definition, routes[i].when)
      BY <3>2
    <3> QED
      BY <2>2, <3>3 DEF ValidWhen
  <2> QED
    BY <2>2, <2>3
<1>9. SelectsOneRoute(Definition, payload)
  <2>1. /\ payload.from \in Steps(Definition)
        /\ SoundResults(payload.from, payload.results)
        /\ payload.effect # "looped" => payload.invalidated = {}
    BY <1>1, <1>3, <1>6 DEF Step
  <2>2. /\ ids = {payload.results[i].id : i \in DOMAIN payload.results}
        /\ \E i \in DOMAIN routes : Matching(routes, payload.to, ids) = {i}
        /\ routes = IF payload.effect = "looped" THEN Definition.loops[payload.from]
                    ELSE Definition.flows[payload.from]
    BY <1>6, <1>7
  <2> HIDE DEF routes, ids
  <2>3. payload.effect \notin Controls
    BY <1>6
  <2> QED
    BY <2>1, <2>2, <2>3 DEF SelectsOneRoute, SoundResults
<1>10. WellFormedResult(Definition, payload)
  BY <1>3, <1>6, <1>8 DEF WellFormedResult, SoundResults
<1>11. ReplaysResult(Definition, replayed, payload)
  <2>1. \A i \in DOMAIN payload.results : payload.results[i].id \in Definition.conditions
    BY <1>1, <1>3, <1>6, BundleFacts DEF SoundResults
  <2> QED
    BY <1>1, <1>2, <1>3, <1>6, <2>1, ReplayedFields
       DEF ReplaysResult, SoundResults, Step, NoStatus
<1> QED
  BY <1>1, <1>3, <1>6, <1>9, <1>10, <1>11 DEF ValidNewEvent, Replays, payload

\* The State evaluation writes is the State replay ends in: the status that
\* replay leaves open is decided by the pending effect as evaluation does.
LEMMA ResultReplays ==
    ASSUME IInv, NEW request \in Requests,
           ResultRefusal(Definition, current, request) = OK
    PROVE  LET payload == ResultPayload(Definition, current, request) IN
           /\ ValidNewEvent(Definition, payload)
           /\ Replays(Definition, replayed, payload)
           /\ ReplayedState(Definition, Replay(Definition, replayed, payload))
                 = EvaluatedState(Definition, current, request)
<1> DEFINE payload == ResultPayload(Definition, current, request)
           effect == payload.effect
<1>1. /\ ValidNewEvent(Definition, payload)
      /\ Replays(Definition, replayed, payload)
      /\ effect = "completed" <=> payload.to = Nil
  BY AcceptedControl, AcceptedBusiness, BundleFacts DEF Controls
<1>2. payload.kind = "flow.result"
  BY DEF ResultPayload
<1>3. ResultTargetStatus(Definition, effect) # NoStatus \/ effect = "completed"
  BY DEF ResultTargetStatus, EntryStepStatus, NoStatus
<1>4. effect = "completed" => ResultTargetStatus(Definition, effect) = NoStatus
  BY DEF ResultTargetStatus
<1>5. EvaluatedState(Definition, current, request)
         = ApplyFlowResult(Definition, current, payload,
                           ResultTargetStatus(Definition, effect))
  BY DEF EvaluatedState
<1> DEFINE fixed == IF effect = "started"
                    THEN ResultTargetStatus(Definition, effect) ELSE NoStatus
           replay == Replay(Definition, replayed, payload)
           evaluated == EvaluatedState(Definition, current, request)
<1> HIDE DEF payload
<1>6. LET applied == ApplyFlowResult(Definition, replayed, payload, fixed)
      IN  replay = [step |-> applied.step, status |-> applied.status,
                    summary |-> applied.summary, outputs |-> applied.outputs,
                    skipped |-> applied.skipped, trace |-> applied.trace,
                    pending |-> effect]
  BY <1>2 DEF Replay
<1>7. /\ replay.step = payload.to /\ replay.pending = effect
      /\ replay.status = IF effect = "completed" THEN NoStatus ELSE fixed
      /\ replay.summary = IF effect = "completed" THEN NoSummary ELSE payload.summary
      /\ evaluated.step = payload.to
      /\ evaluated.status = IF effect = "completed" THEN NoStatus
                            ELSE ResultTargetStatus(Definition, effect)
      /\ evaluated.summary = IF effect = "completed" THEN NoSummary ELSE payload.summary
  BY <1>5, <1>6 DEF ApplyFlowResult
<1>8. /\ replay.outputs = evaluated.outputs /\ replay.skipped = evaluated.skipped
      /\ replay.trace = evaluated.trace
  BY <1>5, <1>6, ReplayedFields DEF ApplyFlowResult
<1>9. evaluated = [step |-> evaluated.step, status |-> evaluated.status,
                   summary |-> evaluated.summary, outputs |-> evaluated.outputs,
                   skipped |-> evaluated.skipped, trace |-> evaluated.trace]
  BY <1>5 DEF ApplyFlowResult
<1> HIDE DEF replay, evaluated
<1>10. ReplayedState(Definition, replay) = evaluated
  <2>1. (IF replay.step # Nil /\ replay.status = NoStatus
         THEN ResultTargetStatus(Definition, replay.pending) ELSE replay.status)
           = evaluated.status
    BY <1>1, <1>3, <1>4, <1>7
  <2> QED
    BY <1>7, <1>8, <1>9, <2>1 DEF ReplayedState
<1> QED
  BY <1>1, <1>10 DEF payload, replay, evaluated

\* The State an accepted Result evaluates to, and the replayed one, are typed.
LEMMA ResultTyped ==
    ASSUME IInv, NEW request \in Requests,
           ResultRefusal(Definition, current, request) = OK
    PROVE  /\ EvaluatedState(Definition, current, request) \in States
           /\ Replay(Definition, replayed, ResultPayload(Definition, current, request))
                 \in Replayed
<1> DEFINE payload == ResultPayload(Definition, current, request)
           effect == payload.effect
           applied(base, status) == ApplyFlowResult(Definition, base, payload, status)
<1>1. /\ current \in States /\ replayed \in Replayed
      /\ payload.from \in Step /\ payload.to \in Step \cup {Nil}
      /\ effect \in {"advanced", "looped", "completed", "started", "jumped"}
      /\ effect \notin Controls => SoundResults(payload.from, payload.results)
  BY AcceptedControl, AcceptedBusiness DEF IInv, TypeOK, Controls
<1>2. payload.kind = "flow.result" /\ payload.summary \in Summaries
  BY RequestTypes DEF ResultPayload
<1> HIDE DEF payload
<1>3. \A k \in Keys(Definition) :
         k \in AcceptedKeys(Definition, effect, payload.results) =>
            AcceptedOutput(Definition, payload, k) \in [producer : Step, value : Values]
  <2> SUFFICES ASSUME NEW k \in Keys(Definition), effect \notin Controls,
                      k \in {Definition.key[payload.results[i].id] :
                               i \in DOMAIN payload.results}
               PROVE  AcceptedOutput(Definition, payload, k)
                         \in [producer : Step, value : Values]
    BY DEF AcceptedKeys
  <2>1. PICK i \in DOMAIN payload.results :
           i = CHOOSE j \in DOMAIN payload.results :
                  Definition.key[payload.results[j].id] = k
    OBVIOUS
  <2>2. /\ payload.results[i].value \in Definition.valid[payload.results[i].id]
        /\ payload.results[i].id \in Definition.conditions
    BY <1>1, BundleFacts DEF SoundResults
  <2> QED
    BY <1>1, <2>1, <2>2, BundleFacts DEF AcceptedOutput
<1>4. ASSUME NEW base, base.outputs \in Outputs, base.skipped \subseteq Step,
             base.trace \in Documents \cup {NoValue},
             NEW status \in Statuses \cup {NoStatus}
      PROVE  applied(base, status) \in States
  <2>1. JumpedSkippedSteps(base.skipped, payload.from, payload.to) \subseteq Step
           \/ effect # "jumped"
    <3> SUFFICES ASSUME effect = "jumped"
                 PROVE  JumpedSkippedSteps(base.skipped, payload.from, payload.to)
                           \subseteq Step
      OBVIOUS
    <3>1. payload.to \in Nat /\ payload.to <= Definition.steps
      BY <1>1, BundleAssumption DEF Step, Steps, IsBundle, Nil
    <3>2. payload.from..(payload.to - 1) \subseteq Step
      BY <1>1, <3>1, BundleAssumption DEF Step, Steps, IsBundle
    <3> QED
      BY <1>4, <3>2 DEF JumpedSkippedSteps
  <2>2. applied(base, status).outputs \in Outputs
    BY <1>3, <1>4 DEF ApplyFlowResult, Outputs
  <2> QED
    BY <1>1, <1>2, <1>4, <2>1, <2>2 DEF ApplyFlowResult, States
<1>5. ResultTargetStatus(Definition, effect) \in Statuses \cup {NoStatus}
  BY DEF ResultTargetStatus, EntryStepStatus, Statuses, Running
<1>6. EvaluatedState(Definition, current, request) \in States
  BY <1>1, <1>4, <1>5 DEF EvaluatedState, States, payload
<1>7. ASSUME NEW status \in Statuses \cup {NoStatus}
      PROVE  applied(replayed, status) \in States
  BY <1>1, <1>4 DEF Replayed
<1>8. Replay(Definition, replayed, payload) \in Replayed
  BY <1>1, <1>2, <1>5, <1>7 DEF Replay, Replayed, States
<1> QED
  BY <1>6, <1>8 DEF payload

-----------------------------------------------------------------------------
(* Refusals *)

\* What the checks of a loaded State answer when it follows the history.
LEMMA SoundLoad ==
    ASSUME IInv
    PROVE  LoadRefusal = IF initialized THEN OK ELSE "NOT_INITIALIZED"
<1>1. CASE initialized
  <2>1. /\ ValidateAgainst(Definition, current)
        /\ ReplayedState(Definition, replayed) = current
    BY <1>1 DEF IInv, HistoryAgrees
  <2> QED
    BY <1>1, <2>1, Zenon DEF LoadRefusal
<1>2. CASE ~initialized
  BY <1>2 DEF LoadRefusal
<1> QED
  BY <1>1, <1>2

\* No report is refused as ambiguous, none as corrupt.
LEMMA ResultRefusals ==
    ASSUME NEW request \in Requests
    PROVE  ResultRefusal(Definition, current, request)
              \in Codes \ {"STATE_CORRUPT", "ROUTE_AMBIGUOUS"}
<1> DEFINE allowed == Codes \ {"STATE_CORRUPT", "ROUTE_AMBIGUOUS"}
           ids == Reported(request)
           routes == RoutesFor(Definition, request)
<1> USE DEF Codes, OK
<1>1. ControlRefusal(Definition, current, request) \in allowed
  BY DEF ControlRefusal
<1>2. ConditionsRefusal(Definition, current, request) \in allowed
  <2>1. \A i : ResultFault(Definition, current, request, i) \in allowed
    BY DEF ResultFault
  <2> QED
    BY <2>1 DEF ConditionsRefusal
<1>3. ASSUME ConditionsRefusal(Definition, current, request) = OK
      PROVE  RouteRefusal(routes, request.route.to, ids) \in allowed
  <2>1. NoExclusivePair(Definition, ids)
    BY <1>3, FaultFreeResults, RequestTypes DEF SoundResults, Reported
  <2>2. DOMAIN routes \subseteq Nat /\ ~AmbiguousRoutes(Definition, routes)
    BY RequestTypes, BundleFacts DEF RoutesFor
  <2> HIDE DEF routes, ids
  <2>3. \A i, j \in Matching(routes, request.route.to, ids) : i = j
    BY <2>1, <2>2, StaticCheckSuffices
  <2> QED
    BY <2>3 DEF RouteRefusal
<1>4. BusinessRefusal(Definition, current, request) \in allowed
  BY <1>2, <1>3 DEF BusinessRefusal
<1>5. CurrentStepRefusal(current, request.step) \in allowed
  BY DEF CurrentStepRefusal
<1> QED
  BY <1>1, <1>4, <1>5 DEF ResultRefusal

-----------------------------------------------------------------------------
(* Steps *)

\* A refusal commits nothing, and never because of a corrupt State or two Routes.
LEMMA RefusePreserves ==
    ASSUME IInv, NEW code \in Codes \ {"STATE_CORRUPT", "ROUTE_AMBIGUOUS"},
           Refuse(code)
    PROVE  IInv'
  BY DEF IInv, TypeOK, HistoryAgrees, RouteNeverAmbiguous, Refuse

\* An Event that is valid and replays to the State committed with it keeps IInv.
LEMMA CommitPreserves ==
    ASSUME IInv, NEW next \in States, NEW event, Commit(next, event),
           ValidNewEvent(Definition, event),
           Replays(Definition, replayed, event),
           ReplayedState(Definition, Replay(Definition, replayed, event)) = next,
           Replay(Definition, replayed, event) \in Replayed
    PROVE  IInv'
<1>1. CommitRefusal(next, event) \in {OK, "INTERNAL"}
  BY DEF CommitRefusal
<1>2. CASE CommitRefusal(next, event) = "INTERNAL"
  <2>1. Refuse("INTERNAL")
    BY <1>2 DEF Commit, OK
  <2> QED
    BY <2>1, RefusePreserves DEF Codes
<1>3. CASE CommitRefusal(next, event) = OK
  <2>1. /\ initialized' = TRUE /\ current' = next
        /\ replayed' = Replay(Definition, replayed, event) /\ reply' = OK
    BY <1>3 DEF Commit
  <2>2. Validate(next) /\ ValidateAgainst(Definition, next)
    BY <1>3 DEF CommitRefusal, OK
  <2>3. TypeOK'
    BY <2>1 DEF TypeOK, Codes
  <2>4. HistoryAgrees' /\ RouteNeverAmbiguous'
    BY <2>1 DEF HistoryAgrees, RouteNeverAmbiguous, OK
  <2> QED
    BY <2>1, <2>2, <2>3, <2>4 DEF IInv
<1> QED
  BY <1>1, <1>2, <1>3

\* The first Event: FlowInit commits it on the empty history.
LEMMA InitPreserves ==
    ASSUME IInv, FlowInit
    PROVE  IInv'
<1>1. CASE initialized
  BY <1>1, RefusePreserves DEF FlowInit, Codes
<1>2. CASE ~initialized
  <2> DEFINE next == [Blank EXCEPT !.step = FirstStepID,
                                   !.status = EntryStepStatus(Definition),
                                   !.summary = WorkflowInitialized]
             event == [kind |-> "flow.initialized", step |-> FirstStepID,
                       status |-> EntryStepStatus(Definition)]
  <2>1. Commit(next, event)
    BY <1>2 DEF FlowInit
  <2>2. replayed = EmptyReplay(Definition)
    BY <1>2 DEF IInv
  <2>3. /\ ValidNewEvent(Definition, event)
        /\ Replays(Definition, replayed, event)
    BY <2>2 DEF ValidNewEvent, Replays
  <2>4. Unregistered(Definition) \in Outputs
    BY DEF Unregistered, Outputs
  <2>5. next \in States
    BY <2>4, BundleFacts DEF Blank, States, EntryStepStatus, Statuses
  <2>6. EntryStepStatus(Definition) # NoStatus
    BY DEF EntryStepStatus, NoStatus
  <2>7. Replay(Definition, replayed, event)
           = [replayed EXCEPT !.step = FirstStepID, !.status = EntryStepStatus(Definition),
                              !.summary = WorkflowInitialized]
    BY DEF Replay
  <2>8. Replay(Definition, replayed, event) \in Replayed
    BY <2>7, BundleFacts DEF IInv, TypeOK, Replayed, EntryStepStatus, Statuses
  <2>9. ReplayedState(Definition, Replay(Definition, replayed, event)) = next
    <3> DEFINE after == Replay(Definition, replayed, event)
    <3>1. /\ after.step = FirstStepID /\ after.status = EntryStepStatus(Definition)
          /\ after.summary = WorkflowInitialized
          /\ after.outputs = Unregistered(Definition) /\ after.skipped = {}
          /\ after.trace = NoValue
      BY <2>2, <2>7 DEF EmptyReplay
    <3>2. /\ next.step = FirstStepID /\ next.status = EntryStepStatus(Definition)
          /\ next.summary = WorkflowInitialized
          /\ next.outputs = Unregistered(Definition) /\ next.skipped = {}
          /\ next.trace = NoValue
      BY DEF Blank
    <3> HIDE DEF after, next
    <3>3. LET state == ReplayedState(Definition, after) IN
          /\ state = [step |-> state.step, status |-> state.status,
                      summary |-> state.summary, outputs |-> state.outputs,
                      skipped |-> state.skipped, trace |-> state.trace]
          /\ state.step = after.step /\ state.status = after.status
          /\ state.summary = after.summary /\ state.outputs = after.outputs
          /\ state.skipped = after.skipped /\ state.trace = after.trace
      BY <2>6, <3>1 DEF ReplayedState
    <3> QED
      <4> DEFINE state == ReplayedState(Definition, after)
      <4>1. /\ next.step = state.step /\ next.status = state.status
            /\ next.summary = state.summary /\ next.outputs = state.outputs
            /\ next.skipped = state.skipped /\ next.trace = state.trace
        BY <3>1, <3>2, <3>3
      <4>2. state = [step |-> state.step, status |-> state.status,
                     summary |-> state.summary, outputs |-> state.outputs,
                     skipped |-> state.skipped, trace |-> state.trace]
        BY <3>3
      <4> HIDE DEF state
      <4>3. next = state
        BY <2>5, <4>1, <4>2, SameFields
      <4> QED
        BY <4>3 DEF state, after
  <2> HIDE DEF next, event
  <2> QED
    BY <2>1, <2>3, <2>5, <2>8, <2>9, CommitPreserves
<1> QED
  BY <1>1, <1>2

\* A progress report keeps IInv.
LEMMA ProgressPreserves ==
    ASSUME IInv, NEW step \in Step, NEW status \in Running, NEW summary \in Summaries,
           Progress(step, status, summary)
    PROVE  IInv'
<1>1. CASE ProgressRefusal(step) # OK
  <2>1. ProgressRefusal(step) \in Codes \ {"STATE_CORRUPT", "ROUTE_AMBIGUOUS"}
    BY SoundLoad DEF ProgressRefusal, CurrentStepRefusal, Codes, OK
  <2> QED
    BY <1>1, <2>1, RefusePreserves DEF Progress
<1>2. CASE ProgressRefusal(step) = OK
  <2> DEFINE next == [current EXCEPT !.status = status, !.summary = summary]
             event == [kind |-> "flow.progressed", from |-> step,
                       fromStatus |-> current.status, to |-> status, summary |-> summary]
  <2>1. Commit(next, event)
    BY <1>2 DEF Progress
  <2>2. /\ initialized /\ current.step = step /\ step # Nil
        /\ current.status # "awaiting_confirmation"
    BY <1>2, SoundLoad, BundleFacts DEF ProgressRefusal, CurrentStepRefusal, OK
  <2>3. current \in States /\ replayed \in Replayed /\ current.status \in Statuses
    BY <2>2 DEF IInv, TypeOK, Validate
  <2>4. /\ ValidNewEvent(Definition, event)
        /\ Replays(Definition, replayed, event)
    BY <2>2, <2>3, ReplayedFields DEF ValidNewEvent, Replays, Step, NoStatus
  <2>5. next \in States
    BY <2>3 DEF States, Statuses
  <2>6. Replay(Definition, replayed, event)
           = [replayed EXCEPT !.status = status, !.summary = summary, !.pending = NoEffect]
    BY DEF Replay
  <2>7. Replay(Definition, replayed, event) \in Replayed
    BY <2>3, <2>6 DEF Replayed, Statuses
  <2>8. ReplayedState(Definition, Replay(Definition, replayed, event)) = next
    <3> DEFINE after == Replay(Definition, replayed, event)
    <3>1. /\ after.step = current.step /\ after.status = status
          /\ after.summary = summary /\ after.outputs = current.outputs
          /\ after.skipped = current.skipped /\ after.trace = current.trace
      BY <2>3, <2>6, ReplayedFields DEF Replayed
    <3>2. /\ next.step = current.step /\ next.status = status
          /\ next.summary = summary /\ next.outputs = current.outputs
          /\ next.skipped = current.skipped /\ next.trace = current.trace
      BY <2>3 DEF States
    <3>3. status # NoStatus
      BY DEF Running, NoStatus
    <3> HIDE DEF after, next
    <3>4. LET state == ReplayedState(Definition, after) IN
          /\ state = [step |-> state.step, status |-> state.status,
                      summary |-> state.summary, outputs |-> state.outputs,
                      skipped |-> state.skipped, trace |-> state.trace]
          /\ state.step = after.step /\ state.status = after.status
          /\ state.summary = after.summary /\ state.outputs = after.outputs
          /\ state.skipped = after.skipped /\ state.trace = after.trace
      BY <3>1, <3>3 DEF ReplayedState
    <3> QED
      BY <2>5, <3>1, <3>2, <3>4, SameFields DEF after
  <2> HIDE DEF next, event
  <2> QED
    BY <2>1, <2>4, <2>5, <2>7, <2>8, CommitPreserves
<1> QED
  BY <1>1, <1>2

\* A result keeps IInv, accepted or refused.
LEMMA ResultPreserves ==
    ASSUME IInv, NEW request \in Requests, Result(request)
    PROVE  IInv'
<1>1. CASE LoadRefusal # OK
  BY <1>1, SoundLoad, RefusePreserves DEF Result, Codes
<1>2. CASE LoadRefusal = OK /\ ResultRefusal(Definition, current, request) # OK
  BY <1>2, ResultRefusals, RefusePreserves DEF Result
<1>3. CASE LoadRefusal = OK /\ ResultRefusal(Definition, current, request) = OK
  BY <1>3, ResultReplays, ResultTyped, CommitPreserves DEF Result
<1> QED
  BY <1>1, <1>2, <1>3

\* Binding a document keeps IInv.
LEMMA BindPreserves ==
    ASSUME IInv, NEW document \in Documents, BindTrace(document)
    PROVE  IInv'
<1>1. CASE BindRefusal(document) # OK
  <2>1. BindRefusal(document) \in Codes \ {"STATE_CORRUPT", "ROUTE_AMBIGUOUS"}
    BY SoundLoad DEF BindRefusal, Codes, OK
  <2> QED
    BY <1>1, <2>1, RefusePreserves DEF BindTrace
<1>2. CASE BindRefusal(document) = OK
  <2> DEFINE next == [current EXCEPT !.trace = document]
             event == [kind |-> "trace.document_bound", previous |-> current.trace,
                       document |-> document]
  <2>1. Commit(next, event)
    BY <1>2 DEF BindTrace
  <2>2. current \in States /\ replayed \in Replayed
    BY DEF IInv, TypeOK
  <2>3. /\ ValidNewEvent(Definition, event)
        /\ Replays(Definition, replayed, event)
    BY ReplayedFields DEF ValidNewEvent, Replays
  <2>4. next \in States
    BY <2>2 DEF States
  <2>5. Replay(Definition, replayed, event) = [replayed EXCEPT !.trace = document]
    BY DEF Replay
  <2>6. Replay(Definition, replayed, event) \in Replayed
    BY <2>2, <2>5 DEF Replayed
  <2>7. ReplayedState(Definition, Replay(Definition, replayed, event)) = next
    BY <2>2, <2>5 DEF IInv, HistoryAgrees, ReplayedState, Replayed, States
  <2> HIDE DEF next, event
  <2> QED
    BY <2>1, <2>3, <2>4, <2>6, <2>7, CommitPreserves
<1> QED
  BY <1>1, <1>2

-----------------------------------------------------------------------------
(* What a step does to the Output Registry *)

\* A Result that is accepted, committed on a State that loads.
Committed(request) ==
    /\ initialized /\ initialized'
    /\ ResultRefusal(Definition, current, request) = OK
    /\ current' = EvaluatedState(Definition, current, request)
    /\ replayed' = Replay(Definition, replayed, ResultPayload(Definition, current, request))

\* Only a Result changes the Registry: Progress leaves it alone, FlowInit finds
\* it empty, and Bind sets the Trace document once.
LEMMA StepCases ==
    ASSUME IInv, [Next]_vars
    PROVE  \/ UNCHANGED <<initialized, current, replayed>>
           \/ /\ current'.outputs = current.outputs
              /\ current'.skipped = current.skipped /\ current'.trace = current.trace
              /\ \/ initialized /\ current'.step = current.step
                 \/ /\ current'.step = FirstStepID
                    /\ \A k \in Keys(Definition) : ~Registered(k)
              /\ replayed'.pending = NoEffect
           \/ \E document \in Documents :
                 /\ initialized
                 /\ current.trace = NoValue
                 /\ current' = [current EXCEPT !.trace = document]
                 /\ replayed'.pending = replayed.pending
           \/ \E request \in Requests : Committed(request)
<1>1. \A code : Refuse(code) => UNCHANGED <<initialized, current, replayed>>
  BY DEF Refuse
<1>2. \A next, event : Commit(next, event) =>
         \/ UNCHANGED <<initialized, current, replayed>>
         \/ /\ initialized' /\ current' = next
            /\ replayed' = Replay(Definition, replayed, event)
  BY <1>1 DEF Commit
<1>3. current \in States /\ replayed \in Replayed
  BY DEF IInv, TypeOK
<1>4. CASE FlowInit
  <2>1. CASE initialized BY <1>1, <1>4, <2>1 DEF FlowInit
  <2>2. CASE ~initialized
    <3> DEFINE next == [Blank EXCEPT !.step = FirstStepID,
                                     !.status = EntryStepStatus(Definition),
                                     !.summary = WorkflowInitialized]
               event == [kind |-> "flow.initialized", step |-> FirstStepID,
                         status |-> EntryStepStatus(Definition)]
    <3>1. Commit(next, event)
      BY <1>4, <2>2 DEF FlowInit
    <3>2. replayed = EmptyReplay(Definition)
      BY <2>2 DEF IInv
    <3>3. /\ current.outputs = Unregistered(Definition) /\ current.skipped = {}
          /\ current.trace = NoValue
      BY <3>2, ReplayedFields DEF EmptyReplay
    <3>4. /\ next.outputs = Unregistered(Definition) /\ next.skipped = {}
          /\ next.trace = NoValue /\ next.step = FirstStepID
      BY DEF Blank
    <3>5. Replay(Definition, replayed, event).pending = NoEffect
      BY <3>2 DEF Replay, EmptyReplay
    <3>6. \A k \in Keys(Definition) : ~Registered(k)
      BY <3>3 DEF Registered, Unregistered, NoOutput
    <3> HIDE DEF next, event
    <3> QED
      BY <1>2, <3>1, <3>3, <3>4, <3>5, <3>6
  <2> QED BY <2>1, <2>2
<1>5. ASSUME NEW step \in Step, NEW status \in Running, NEW summary \in Summaries,
             Progress(step, status, summary),
             ~UNCHANGED <<initialized, current, replayed>>
      PROVE  /\ initialized
             /\ current'.outputs = current.outputs
             /\ current'.skipped = current.skipped /\ current'.trace = current.trace
             /\ current'.step = current.step
             /\ replayed'.pending = NoEffect
  <2> DEFINE next == [current EXCEPT !.status = status, !.summary = summary]
             event == [kind |-> "flow.progressed", from |-> step,
                       fromStatus |-> current.status, to |-> status, summary |-> summary]
  <2>1. ProgressRefusal(step) = OK /\ Commit(next, event)
    BY <1>1, <1>5 DEF Progress
  <2>4. initialized
    BY <2>1, SoundLoad DEF ProgressRefusal, OK
  <2>2. /\ next.outputs = current.outputs /\ next.skipped = current.skipped
        /\ next.trace = current.trace /\ next.step = current.step
    BY <1>3 DEF States
  <2>3. Replay(Definition, replayed, event).pending = NoEffect
    BY <1>3 DEF Replay, Replayed
  <2> HIDE DEF next, event
  <2> QED
    BY <1>2, <1>5, <2>1, <2>2, <2>3, <2>4
<1>6. ASSUME NEW document \in Documents, BindTrace(document),
             ~UNCHANGED <<initialized, current, replayed>>
      PROVE  /\ initialized
             /\ current.trace = NoValue
             /\ current' = [current EXCEPT !.trace = document]
             /\ replayed'.pending = replayed.pending
  <2> DEFINE event == [kind |-> "trace.document_bound", previous |-> current.trace,
                       document |-> document]
  <2>1. /\ BindRefusal(document) = OK
        /\ Commit([current EXCEPT !.trace = document], event)
    BY <1>1, <1>6 DEF BindTrace
  <2>2. initialized /\ current.trace = NoValue
    BY <2>1, SoundLoad DEF BindRefusal, OK
  <2>3. Replay(Definition, replayed, event).pending = replayed.pending
    BY <1>3 DEF Replay, Replayed
  <2> HIDE DEF event
  <2> QED
    BY <1>2, <1>6, <2>1, <2>2, <2>3
<1>7. ASSUME NEW request \in Requests, Result(request),
             ~UNCHANGED <<initialized, current, replayed>>
      PROVE  Committed(request)
  <2>1. /\ LoadRefusal = OK /\ ResultRefusal(Definition, current, request) = OK
        /\ Commit(EvaluatedState(Definition, current, request),
                  ResultPayload(Definition, current, request))
    BY <1>1, <1>7 DEF Result
  <2>2. initialized
    BY <2>1, SoundLoad DEF OK
  <2> QED
    BY <1>2, <1>7, <2>1, <2>2 DEF Committed
<1>8. CASE UNCHANGED vars BY <1>8 DEF vars
<1> QED
  BY <1>4, <1>5, <1>6, <1>7, <1>8, Zenon DEF Next, Requests

\* A Flow Route leads to a later Step.
LEMMA FlowsGoForward ==
    ASSUME NEW event, SelectsOneRoute(Definition, event),
           event.effect = "advanced", event.from \in Step, event.to \in Step
    PROVE  event.from < event.to
<1> DEFINE routes == Definition.flows[event.from]
           ids == {event.results[i].id : i \in DOMAIN event.results}
<1>1. PICK i \in DOMAIN routes : i \in Matching(routes, event.to, ids)
  BY DEF SelectsOneRoute, Controls
<1>2. routes[i].to = event.to
  BY <1>1 DEF Matching, Available
<1>3. routes[i].to \in {Terminal} \cup (event.from + 1)..Definition.steps
  BY <1>1, BundleAssumption DEF ValidBundle, ValidFlows, Step
<1>4. event.to # Terminal /\ event.from \in Nat /\ Definition.steps \in Nat
  BY BundleFacts, BundleAssumption DEF IsBundle, Nil, Terminal
<1> QED
  BY <1>2, <1>3, <1>4

\* What a committed Result does to the Output of a key: registers it for the
\* current Step, drops it, or leaves it; what the report names is registered.
LEMMA OutputsMove ==
    ASSUME IInv, NEW request \in Requests, Committed(request), NEW k \in Keys(Definition)
    PROVE  LET payload == ResultPayload(Definition, current, request) IN
           /\ current.step \in Step
           /\ current'.step = payload.to /\ current'.trace = current.trace
           /\ replayed'.pending = payload.effect
           /\ payload.effect \in {"advanced", "looped", "completed", "started", "jumped"}
           /\ payload.effect = "completed" => current'.step = Nil
           /\ payload.effect = "advanced" => current.step < current'.step
           /\ payload.effect = "started" => current'.step = current.step
           /\ k \in AcceptedKeys(Definition, payload.effect, request.results) =>
                 current'.outputs[k].producer = current.step
           /\ \/ /\ k \in AcceptedKeys(Definition, payload.effect, request.results)
                 /\ current'.outputs[k] = AcceptedOutput(Definition, payload, k)
                 /\ current'.outputs[k].producer = current.step
                 /\ payload.effect \notin Controls
              \/ /\ payload.effect \in {"looped", "jumped"}
                 /\ current.outputs[k].producer >= payload.to
                 /\ current'.outputs[k] = NoOutput
              \/ /\ payload.effect \in {"looped", "jumped"} =>
                       ~(current.outputs[k].producer >= payload.to)
                 /\ current'.outputs[k] = current.outputs[k]
<1> DEFINE payload == ResultPayload(Definition, current, request)
<1>1. /\ ValidNewEvent(Definition, payload)
      /\ payload.from = current.step /\ payload.from \in Step
      /\ payload.to \in Step \cup {Nil}
      /\ payload.effect \in {"advanced", "looped", "completed", "started", "jumped"}
      /\ payload.effect \in {"advanced", "completed"} =>
            (payload.effect = "completed" <=> payload.to = Nil)
  BY AcceptedControl, AcceptedBusiness DEF Committed, Controls
<1>2. /\ payload.kind = "flow.result" /\ payload.results = request.results
      /\ payload.invalidated = IF payload.effect \in {"looped", "jumped"}
                               THEN InvalidatedOutputs(payload.to, current.outputs) ELSE {}
  BY DEF ResultPayload, Effect
<1>3. SelectsOneRoute(Definition, payload) /\ WellFormedResult(Definition, payload)
  BY <1>1, <1>2 DEF ValidNewEvent
<1>4. DOMAIN current.outputs = Keys(Definition)
  BY DEF IInv, TypeOK, States, Outputs
<1>5. /\ current' = ApplyFlowResult(Definition, current, payload,
                                    ResultTargetStatus(Definition, payload.effect))
      /\ replayed' = Replay(Definition, replayed, payload)
  BY DEF Committed, EvaluatedState
<1> HIDE DEF payload
<1>6. /\ current'.step = payload.to /\ current'.trace = current.trace
      /\ replayed'.pending = payload.effect
  BY <1>2, <1>5 DEF ApplyFlowResult, Replay
<1>7. current'.outputs[k] =
         IF k \in AcceptedKeys(Definition, payload.effect, request.results)
         THEN AcceptedOutput(Definition, payload, k)
         ELSE IF k \in payload.invalidated THEN NoOutput ELSE current.outputs[k]
  BY <1>2, <1>4, <1>5 DEF ApplyFlowResult
<1>8. k \in payload.invalidated <=>
         /\ payload.effect \in {"looped", "jumped"}
         /\ current.outputs[k].producer >= payload.to
  BY <1>2, <1>4 DEF InvalidatedOutputs
<1>9. k \in AcceptedKeys(Definition, payload.effect, request.results) =>
         payload.effect \notin Controls
  BY DEF AcceptedKeys
<1>10. AcceptedOutput(Definition, payload, k).producer = current.step
  BY <1>1 DEF AcceptedOutput
<1>11. payload.effect = "advanced" => current.step < current'.step
  BY <1>1, <1>3, <1>6, FlowsGoForward
<1>12. payload.effect = "started" => current'.step = current.step
  BY <1>1, <1>3, <1>6 DEF WellFormedResult
<1> QED
  BY <1>1, <1>6, <1>7, <1>8, <1>9, <1>10, <1>11, <1>12 DEF payload

\* The Outputs a report registers passed the check of their source.
LEMMA AcceptedFromSource ==
    ASSUME IInv, NEW request \in Requests, Committed(request), NEW k \in Keys(Definition),
           LET payload == ResultPayload(Definition, current, request) IN
           /\ k \in AcceptedKeys(Definition, payload.effect, request.results)
           /\ current'.outputs[k] = AcceptedOutput(Definition, payload, k),
           \A c \in Definition.conditions :
              Definition.key[c] = k => Definition.source[c] = "trace_document_url"
    PROVE  current'.outputs[k].value = current.trace
<1> DEFINE payload == ResultPayload(Definition, current, request)
           results == request.results
<1>1. /\ k \in AcceptedKeys(Definition, payload.effect, results)
      /\ current'.outputs[k] = AcceptedOutput(Definition, payload, k)
      /\ payload.effect \notin Controls /\ payload.results = results
  BY DEF AcceptedKeys, ResultPayload
<1>2. ~IsControl(request)
  BY <1>1 DEF IsControl, ResultPayload, Effect, Controls
<1> HIDE DEF payload
<1>3. /\ request.step \in Step
      /\ ConditionsRefusal(Definition, current, request) = OK
  BY <1>2, RequestTypes
     DEF Committed, ResultRefusal, BusinessRefusal, CurrentStepRefusal, OK
<1>4. PICK i \in DOMAIN results :
         /\ i = CHOOSE j \in DOMAIN results : Definition.key[results[j].id] = k
         /\ Definition.key[results[i].id] = k
  BY <1>1 DEF AcceptedKeys
<1>5. current'.outputs[k].value = results[i].value
  <2>1. AcceptedOutput(Definition, payload, k).value =
           payload.results[CHOOSE j \in DOMAIN payload.results :
                              Definition.key[payload.results[j].id] = k].value
    BY DEF AcceptedOutput
  <2> HIDE DEF results
  <2> QED
    BY <1>1, <1>4, <2>1, Zenon
<1>6. results[i].id \in Definition.conditions
  <2>1. SoundResults(request.step, results)
    BY <1>3, FaultFreeResults, RequestTypes
  <2>2. results[i].id \in RelevantConditionIDs(Definition, request.step)
    BY <1>4, <2>1 DEF SoundResults
  <2> QED
    BY <1>3, <2>2, BundleFacts
<1>7. SourceMatches(Definition, current, request, results[i])
  BY <1>3, NoFault, RequestTypes DEF ResultFault, OK
<1>8. Definition.source[results[i].id] = "trace_document_url"
  BY <1>4, <1>6
<1> QED
  BY <1>5, <1>7, <1>8 DEF SourceMatches

\* A registered Output has a producer and a value.
LEMMA RegisteredTypes ==
    ASSUME IInv, NEW k \in Keys(Definition), Registered(k)
    PROVE  current.outputs[k].producer \in Step /\ current.outputs[k].value \in Values
  BY DEF IInv, TypeOK, States, Outputs, Registered, NoOutput

\* No step registers an Output of a Step that is undone.
LEMMA UndoneWorkPreserved ==
    ASSUME IInv, IInv', NothingFromUndoneWork, [Next]_vars
    PROVE  NothingFromUndoneWork'
<1> DEFINE ahead(k) == Registered(k) /\ current.outputs[k].producer >= current.step
<1>1. Step \subseteq Nat /\ Nil \notin Step
  BY BundleFacts
<1>2. \A k \in Keys(Definition) :
         /\ Registered(k) => current.outputs[k].producer \in Step
         /\ Registered(k)' => current'.outputs[k].producer \in Step
  BY RegisteredTypes DEF IInv, TypeOK, States, Outputs, Registered, NoOutput
<1>3. CASE UNCHANGED <<current, replayed>>
  BY <1>3 DEF NothingFromUndoneWork, Registered
<1>4. CASE /\ current'.outputs = current.outputs
           /\ \/ current'.step = current.step
              \/ \A k \in Keys(Definition) : ~Registered(k)
           /\ replayed'.pending = NoEffect
  BY <1>4 DEF NothingFromUndoneWork, Registered, NoEffect
<1>5. ASSUME NEW document \in Documents, current' = [current EXCEPT !.trace = document],
             replayed'.pending = replayed.pending
      PROVE  NothingFromUndoneWork'
  <2>1. /\ current'.outputs = current.outputs /\ current'.step = current.step
        /\ current'.skipped = current.skipped
    BY <1>5 DEF IInv, TypeOK, States
  <2> QED
    BY <1>5, <2>1 DEF NothingFromUndoneWork, Registered
<1>6. ASSUME NEW request \in Requests, Committed(request)
      PROVE  NothingFromUndoneWork'
  <2> DEFINE effect == ResultPayload(Definition, current, request).effect
  <2>1. ASSUME current'.step # Nil, NEW k \in Keys(Definition), NEW l \in Keys(Definition),
               ahead(k)', ahead(l)'
        PROVE  current'.outputs[k].producer = current'.outputs[l].producer
    <3>1. current.step \in Step /\ current'.step \in Step
      BY <1>6, <2>1, OutputsMove DEF IInv, TypeOK, States
    <3>2. \A m \in Keys(Definition) :
             \/ current'.outputs[m].producer = current.step /\ effect \notin Controls
             \/ current'.outputs[m].producer = Nil
             \/ /\ effect \in {"looped", "jumped"} =>
                      ~(current.outputs[m].producer >= current'.step)
                /\ current'.outputs[m] = current.outputs[m]
      BY <1>6, OutputsMove DEF NoOutput
    <3>3. /\ effect \in {"advanced", "looped", "completed", "started", "jumped"}
          /\ effect # "completed"
          /\ effect = "advanced" => current.step < current'.step
          /\ effect = "started" => current'.step = current.step
      BY <1>6, <2>1, OutputsMove
    <3> HIDE DEF effect
    <3>4. \A m \in {k, l} : /\ current'.outputs[m].producer # Nil
                             /\ current'.outputs[m].producer >= current'.step
      BY <2>1 DEF Registered
    <3>5. CASE effect \in {"looped", "jumped"}
      <4>1. \A m \in {k, l} : current'.outputs[m].producer = current.step
        BY <3>2, <3>4, <3>5
      <4> QED
        BY <4>1
    <3>6. CASE effect \in {"advanced", "started"}
      <4>1. ASSUME NEW m \in {k, l}
            PROVE  current'.outputs[m] = current.outputs[m]
        <5>1. CASE effect = "advanced"
          <6>1. current.step \in Nat /\ current'.step \in Nat /\ current.step < current'.step
            BY <1>1, <3>1, <3>3, <5>1
          <6>2. current'.outputs[m].producer >= current'.step
            BY <3>4
          <6>3. current'.outputs[m].producer # current.step
            BY <6>1, <6>2
          <6> QED
            BY <3>2, <3>4, <5>1, <6>3
        <5>2. CASE effect = "started"
          BY <3>2, <3>4, <5>2 DEF Controls
        <5> QED
          BY <3>6, <5>1, <5>2
      <4>2. ahead(k) /\ ahead(l) /\ current.step # Nil
        <5>1. current.step \in Nat /\ current'.step \in Nat /\ current.step <= current'.step
          <6>1. current.step \in Nat /\ current'.step \in Nat
            BY <1>1, <3>1
          <6>2. CASE effect = "advanced" BY <3>3, <6>1, <6>2
          <6>3. CASE effect = "started" BY <3>3, <6>1, <6>3
          <6> QED
            BY <3>6, <6>1, <6>2, <6>3
        <5>2. ASSUME NEW m \in {k, l} PROVE ahead(m)
          <6>1. /\ current.outputs[m].producer >= current'.step /\ Registered(m)
            BY <3>4, <4>1 DEF Registered
          <6>2. current.outputs[m].producer \in Nat
            BY <1>1, <1>2, <6>1
          <6> QED
            BY <5>1, <6>1, <6>2
        <5> HIDE DEF ahead
        <5> QED
          BY <1>1, <3>1, <5>2
      <4> QED
        BY <4>1, <4>2 DEF NothingFromUndoneWork
    <3> QED
      BY <3>3, <3>5, <3>6
  <2>2. ASSUME replayed'.pending = "jumped", NEW k \in Keys(Definition), Registered(k)'
        PROVE  ~ahead(k)' /\ current'.outputs[k].producer \notin current'.skipped
    <3>1. effect = "jumped"
      BY <1>6, <2>2, OutputsMove
    <3>2. current'.outputs[k] = current.outputs[k]
          /\ ~(current.outputs[k].producer >= current'.step)
      BY <1>6, <2>2, <3>1, OutputsMove DEF Controls, Registered, NoOutput
    <3>3. ValidateAgainst(Definition, current')
      BY <1>6 DEF Committed, IInv
    <3>4. k \in DOMAIN current'.outputs
      BY DEF IInv, TypeOK, States, Outputs
    <3> QED
      BY <2>2, <3>2, <3>3, <3>4 DEF ValidateAgainst, Registered
  <2> QED
    BY <2>1, <2>2 DEF NothingFromUndoneWork
<1> QED
  BY <1>3, <1>4, <1>5, <1>6, StepCases

\* No step gives an Output of the Trace a value other than the binding.
LEMMA TraceOutputsPreserved ==
    ASSUME IInv, IInv', TraceOutputsAuthoritative, [Next]_vars
    PROVE  TraceOutputsAuthoritative'
<1> SUFFICES ASSUME NEW k \in Keys(Definition), Registered(k)',
                    \A c \in Definition.conditions :
                       Definition.key[c] = k => Definition.source[c] = "trace_document_url"
             PROVE  current'.outputs[k].value = current'.trace
  BY DEF TraceOutputsAuthoritative
<1>1. Registered(k) => current.outputs[k].value = current.trace
  BY DEF TraceOutputsAuthoritative
<1>2. CASE /\ current'.outputs = current.outputs /\ current'.trace = current.trace
  BY <1>1, <1>2 DEF Registered
<1>3. ASSUME NEW document \in Documents, current.trace = NoValue,
             current' = [current EXCEPT !.trace = document]
      PROVE  FALSE
  <2>1. Registered(k)
    BY <1>3 DEF IInv, TypeOK, States, Registered
  <2> QED
    BY <1>1, <1>3, <2>1, RegisteredTypes, ParametersAssumption
<1>4. ASSUME NEW request \in Requests, Committed(request)
      PROVE  current'.outputs[k].value = current'.trace
  BY <1>1, <1>4, OutputsMove, AcceptedFromSource DEF Registered, NoOutput
<1> QED
  BY <1>2, <1>3, <1>4, StepCases

\* A step leaves the Outputs of earlier Steps alone, but for those of the Step it reports.
LEMMA EarlierFactsKept ==
    ASSUME IInv, IInv', [Next]_vars, NEW k \in Keys(Definition), Registered(k),
           current.outputs[k].producer < current'.step
    PROVE  \/ current'.outputs[k] = current.outputs[k]
           \/ current'.outputs[k].producer = current.step
<1>1. current.outputs[k].producer \in Nat
  BY RegisteredTypes, BundleFacts
<1>2. ASSUME NEW document \in Documents, current' = [current EXCEPT !.trace = document]
      PROVE  current'.outputs[k] = current.outputs[k]
  BY <1>2 DEF IInv, TypeOK, States
<1>3. ASSUME NEW request \in Requests, Committed(request)
      PROVE  \/ current'.outputs[k] = current.outputs[k]
             \/ current'.outputs[k].producer = current.step
  <2>1. current'.step \in Nat
    <3>1. current'.step \in {Nil} \cup Step
      BY DEF IInv, TypeOK, States
    <3>2. Nil \in Nat
      BY DEF Nil
    <3> QED
      BY <3>1, <3>2, BundleFacts
  <2>2. ~(current.outputs[k].producer >= current'.step)
    BY <1>1, <2>1
  <2>3. \/ current'.outputs[k].producer = current.step
        \/ current.outputs[k].producer >= current'.step
        \/ current'.outputs[k] = current.outputs[k]
    BY <1>3, OutputsMove
  <2> QED
    BY <2>2, <2>3
<1>4. CASE UNCHANGED <<current, replayed>> \/ current'.outputs = current.outputs
  BY <1>4
<1> QED
  BY <1>2, <1>3, <1>4, StepCases

-----------------------------------------------------------------------------
(* The theorems of module Flow *)

\* IInv holds always.
LEMMA InvariantInductive == Spec => []IInv
<1>1. Init => IInv
  <2> SUFFICES ASSUME Init PROVE IInv
    OBVIOUS
  <2>1. Unregistered(Definition) \in Outputs
    BY DEF Unregistered, Outputs
  <2>2. TypeOK
    BY <2>1 DEF Init, TypeOK, Blank, EmptyReplay, States, Replayed, Codes
  <2>3. HistoryAgrees /\ RouteNeverAmbiguous
    BY DEF Init, HistoryAgrees, RouteNeverAmbiguous, ReplayedState, EmptyReplay, Blank, OK
  <2> QED
    BY <2>2, <2>3 DEF Init, IInv
<1>2. IInv /\ [Next]_vars => IInv'
  <2> SUFFICES ASSUME IInv, [Next]_vars PROVE IInv'
    OBVIOUS
  <2>1. CASE FlowInit
    BY <2>1, InitPreserves
  <2>2. ASSUME NEW step \in Step, NEW status \in Running, NEW summary \in Summaries,
               Progress(step, status, summary)
        PROVE  IInv'
    BY <2>2, ProgressPreserves
  <2>3. ASSUME NEW request \in Requests, Result(request)
        PROVE  IInv'
    BY <2>3, ResultPreserves
  <2>4. ASSUME NEW document \in Documents, BindTrace(document)
        PROVE  IInv'
    BY <2>4, BindPreserves
  <2>5. CASE UNCHANGED vars
    BY <2>5 DEF vars, IInv, TypeOK, HistoryAgrees, RouteNeverAmbiguous
  <2> QED
    BY <2>1, <2>2, <2>3, <2>4, <2>5 DEF Next, Requests
<1> QED
  BY <1>1, <1>2, PTL DEF Spec

\* Every State, every replayed history and every answer is of its type, for any
\* validated bundle: an Output is produced by a Step of the bundle, with a value
\* its Condition accepts.
THEOREM TypeCorrect == Spec => []TypeOK
  BY InvariantInductive, PTL DEF IInv

\* Evaluation (flow/result.go) and replay (ValidateHistory) agree on every
\* command: nothing the runtime accepts is found corrupt by a commit or a load.
THEOREM HistoryCorrect == Spec => []HistoryAgrees
  BY InvariantInductive, PTL DEF IInv

\* No report a validated bundle admits is answered ROUTE_AMBIGUOUS: the static
\* check of Route pairs in ValidateBundle makes the runtime's check redundant.
THEOREM NeverAmbiguous == Spec => []RouteNeverAmbiguous
  BY InvariantInductive, PTL DEF IInv

\* The stronger invariant: what is checked of the Outputs is inductive beside IInv.
LEMMA OutputsInductive ==
    Spec => [](IInv /\ NothingFromUndoneWork /\ TraceOutputsAuthoritative)
<1>1. Init => NothingFromUndoneWork /\ TraceOutputsAuthoritative
  <2> SUFFICES ASSUME Init PROVE NothingFromUndoneWork /\ TraceOutputsAuthoritative
    OBVIOUS
  <2>1. current.outputs = Unregistered(Definition)
    BY DEF Init, Blank
  <2>2. \A k \in Keys(Definition) : ~Registered(k)
    BY <2>1 DEF Registered, Unregistered, NoOutput
  <2> QED
    BY <2>2 DEF NothingFromUndoneWork, TraceOutputsAuthoritative
<1>2. /\ IInv /\ IInv'
      /\ NothingFromUndoneWork /\ TraceOutputsAuthoritative
      /\ [Next]_vars
      => NothingFromUndoneWork' /\ TraceOutputsAuthoritative'
  BY UndoneWorkPreserved, TraceOutputsPreserved
<1> QED
  BY <1>1, <1>2, InvariantInductive, PTL DEF Spec

\* No Output outlives a return that has undone its Step, but for those of the
\* Step that reported the return itself: for every bundle, however Loops, Jumps
\* and forward Routes alternate (InvalidatedOutputs, state/model.go).
THEOREM UndoneWorkIsGone == Spec => []NothingFromUndoneWork
  BY OutputsInductive, PTL

\* For every bundle, an Output that can only come from the Trace binding names
\* the bound document: reports check it once, and the binding is set once
\* (flow/result.go, trace/runtime.go).
THEOREM TraceOutputsTrue == Spec => []TraceOutputsAuthoritative
  BY OutputsInductive, PTL

\* No move of any bundle drops what a Step before the new cursor has produced.
THEOREM EarlierFactsStay == Spec => EarlierFactsSurvive
<1>1. IInv /\ IInv' /\ [Next]_vars =>
         [\A k \in Keys(Definition) :
             Registered(k) /\ current.outputs[k].producer < current'.step =>
                 \/ current'.outputs[k] = current.outputs[k]
                 \/ current'.outputs[k].producer = current.step]_vars
  BY EarlierFactsKept
<1> QED
  BY <1>1, InvariantInductive, PTL DEF Spec, EarlierFactsSurvive

-----------------------------------------------------------------------------
(* The status and what a report may select (module WorkflowView)           *)

\* The five fields of a selection, and what it is to set exactly one of them.
SelectionFields ==
    {"next_step_id", "back_step_id", "terminal", "start_current_step", "jump_step_id"}

\* A Route selection has finitely many fields, so they can be counted.
LEMMA SelectionFieldsFinite == IsFiniteSet(SelectionFields)
<1>1. IsFiniteSet({"next_step_id"})
  BY FS_Singleton
<1>2. IsFiniteSet({"next_step_id"} \cup {"back_step_id"})
  BY <1>1, FS_AddElement
<1>3. IsFiniteSet(({"next_step_id"} \cup {"back_step_id"}) \cup {"terminal"})
  BY <1>2, FS_AddElement
<1>4. IsFiniteSet((({"next_step_id"} \cup {"back_step_id"}) \cup {"terminal"})
                     \cup {"start_current_step"})
  BY <1>3, FS_AddElement
<1>5. IsFiniteSet(((({"next_step_id"} \cup {"back_step_id"}) \cup {"terminal"})
                     \cup {"start_current_step"}) \cup {"jump_step_id"})
  BY <1>4, FS_AddElement
<1>6. SelectionFields = ((({"next_step_id"} \cup {"back_step_id"}) \cup {"terminal"})
                     \cup {"start_current_step"}) \cup {"jump_step_id"}
  BY DEF SelectionFields
<1> QED
  BY <1>5, <1>6

\* A selection with one field set names exactly one Route.
LEMMA OneFieldSet ==
    ASSUME NEW selection \in RouteSelection, CountSetFields(selection) = 1
    PROVE  \E f \in SelectionFields :
              /\ selection[f] # {}
              /\ \A g \in SelectionFields \ {f} : selection[g] = {}
<1> DEFINE set == {f \in DOMAIN selection : selection[f] # {}}
<1>1. DOMAIN selection = SelectionFields
  BY DEF RouteSelection, SelectionFields
<1>2. IsFiniteSet(set)
  BY <1>1, SelectionFieldsFinite, FS_Subset
<1>3. Cardinality(set) = 1
  BY DEF CountSetFields
<1> HIDE DEF set
<1>4. PICK f : set = {f}
  BY <1>2, <1>3, FS_Singleton
<1> QED
  BY <1>1, <1>4 DEF set

\* A Route as the runtime decides on it.
RouteRecords ==
    [kind : {"next", "back", "jump"}, to : Step]
    \cup [kind : {"terminal", "start"}, to : {Terminal}]

\* A selection that passes the validation is spelled out by the Route it stands for.
LEMMA SelectionUnderstood ==
    ASSUME NEW selection \in RouteSelection,
           RouteSelectionIsValid(selection), CountSetFields(selection) = 1,
           FALSE \notin selection.terminal, FALSE \notin selection.start_current_step
    PROVE  /\ SelectedRoute(selection) \in RouteRecords
           /\ Selection(SelectedRoute(selection)) = selection
<1>1. PICK f \in SelectionFields :
         selection[f] # {} /\ \A g \in SelectionFields \ {f} : selection[g] = {}
  BY OneFieldSet
<1>2. selection = [next_step_id |-> selection.next_step_id,
                   back_step_id |-> selection.back_step_id,
                   terminal |-> selection.terminal,
                   start_current_step |-> selection.start_current_step,
                   jump_step_id |-> selection.jump_step_id]
  BY DEF RouteSelection
<1>3. /\ \A field \in {"next_step_id", "back_step_id", "jump_step_id"} :
            selection[field] = {} \/ \E v \in Step : selection[field] = {v}
      /\ \A field \in {"terminal", "start_current_step"} :
            selection[field] = {} \/ selection[field] = {TRUE}
  BY DEF RouteSelection, Field, RouteSelectionIsValid
<1>4. \A v : Get({v}, Nil) = v
  BY DEF Get
<1>5. CASE f = "next_step_id"
  <2>1. PICK v \in Step : selection.next_step_id = {v}
    BY <1>1, <1>3, <1>5
  <2>2. SelectedRoute(selection) = [kind |-> "next", to |-> v]
    BY <1>1, <1>4, <1>5, <2>1 DEF SelectedRoute, SelectionFields
  <2> QED
    BY <1>1, <1>2, <1>5, <2>1, <2>2
       DEF Selection, NoSelection, RouteRecords, SelectionFields
<1>6. CASE f = "back_step_id"
  <2>1. PICK v \in Step : selection.back_step_id = {v}
    BY <1>1, <1>3, <1>6
  <2>2. SelectedRoute(selection) = [kind |-> "back", to |-> v]
    BY <1>1, <1>4, <1>6, <2>1 DEF SelectedRoute, SelectionFields
  <2> QED
    BY <1>1, <1>2, <1>6, <2>1, <2>2
       DEF Selection, NoSelection, RouteRecords, SelectionFields
<1>7. CASE f = "jump_step_id"
  <2>1. PICK v \in Step : selection.jump_step_id = {v}
    BY <1>1, <1>3, <1>7
  <2>2. SelectedRoute(selection) = [kind |-> "jump", to |-> v]
    BY <1>1, <1>4, <1>7, <2>1 DEF SelectedRoute, SelectionFields
  <2> QED
    BY <1>1, <1>2, <1>7, <2>1, <2>2
       DEF Selection, NoSelection, RouteRecords, SelectionFields
<1>8. CASE f = "terminal"
  <2>1. selection.terminal = {TRUE}
    BY <1>1, <1>3, <1>8
  <2>2. SelectedRoute(selection) = [kind |-> "terminal", to |-> Terminal]
    BY <1>1, <1>8, <2>1 DEF SelectedRoute, SelectionFields
  <2>3. Selection(SelectedRoute(selection)) = [NoSelection EXCEPT !.terminal = {TRUE}]
    BY <2>2 DEF Selection
  <2>4. selection = [NoSelection EXCEPT !.terminal = selection.terminal]
    BY <1>1, <1>2, <1>8 DEF NoSelection, SelectionFields
  <2>5. Selection(SelectedRoute(selection)) = selection
    BY <2>1, <2>3, <2>4, Zenon
  <2>6. SelectedRoute(selection) \in RouteRecords
    BY <2>2 DEF RouteRecords
  <2> QED
    BY <2>5, <2>6
<1>9. CASE f = "start_current_step"
  <2>1. selection.start_current_step = {TRUE}
    BY <1>1, <1>3, <1>9
  <2>2. SelectedRoute(selection) = [kind |-> "start", to |-> Terminal]
    BY <1>1, <1>9, <2>1 DEF SelectedRoute, SelectionFields
  <2>3. Selection(SelectedRoute(selection)) = [NoSelection EXCEPT !.start_current_step = {TRUE}]
    BY <2>2 DEF Selection
  <2>4. selection = [NoSelection EXCEPT !.start_current_step = selection.start_current_step]
    BY <1>1, <1>2, <1>9 DEF NoSelection, SelectionFields
  <2>5. Selection(SelectedRoute(selection)) = selection
    BY <2>1, <2>3, <2>4, Zenon
  <2>6. SelectedRoute(selection) \in RouteRecords
    BY <2>2 DEF RouteRecords
  <2> QED
    BY <2>5, <2>6
<1> QED
  BY <1>5, <1>6, <1>7, <1>8, <1>9 DEF SelectionFields

\* RequestsAreUnderstood holds, for every request.
LEMMA Understanding == RequestsAreUnderstood
<1> SUFFICES ASSUME NEW selection \in RouteSelection, NEW results \in ResultSequences,
                    NEW summary \in Summaries,
                    ValidateResultRequest(Submission(FirstStepID, selection, results, {}, summary))
             PROVE  LET request == Submission(FirstStepID, selection, results, {}, summary) IN
                    /\ Selection(Understood(request).route) = selection
                    /\ Understood(request) \in Requests
  BY DEF RequestsAreUnderstood
<1> DEFINE request == Submission(FirstStepID, selection, results, {}, summary)
           route == SelectedRoute(selection)
<1>1. /\ request.route = {selection} /\ request.condition_results = results
      /\ request.step_id = FirstStepID /\ request.evidence = {} /\ request.summary = summary
  BY DEF Submission
<1>2. route \in RouteRecords /\ Selection(route) = selection
  BY <1>1, SelectionUnderstood DEF ValidateResultRequest, FlowResultRequestIsValid
<1>3. Get(request.route, NoSelection) = selection
  BY <1>1 DEF Get
<1>4. ClaimedOutcome(request.evidence) = NoValue
  <2>1. {item \in {} : item.source = "file" /\ item.manifest # NoValue} = {}
    OBVIOUS
  <2> QED
    BY <1>1, <2>1, FS_EmptySet DEF ClaimedOutcome
<1>5. HasHumanEvidence(request.evidence) = FALSE
  BY <1>1 DEF HasHumanEvidence
<1>6. Understood(request) =
         [step |-> FirstStepID, route |-> route, results |-> results, human |-> FALSE,
          manifest |-> NoValue, summary |-> summary]
  BY <1>1, <1>3, <1>4, <1>5 DEF Understood
<1> HIDE DEF route
<1>7. ASSUME route \in [kind : {"next", "back"}, to : Step]
                       \cup [kind : {"terminal"}, to : {Terminal}]
      PROVE  Understood(request) \in Requests
  <2>1. FirstStepID \in Step /\ NoValue \in ManifestOutcomes /\ FALSE \in {FALSE}
    BY BundleFacts, ReportAssumption
  <2>2. \A confirmed \in {FALSE} :
           [step |-> FirstStepID, route |-> route, results |-> results, human |-> confirmed,
            manifest |-> NoValue, summary |-> summary] \in BusinessRequests
    BY <1>7, <2>1 DEF BusinessRequests
  <2> QED
    BY <1>6, <2>1, <2>2, Zenon DEF Requests
<1>8. ASSUME route \in [kind : {"start"}, to : {Terminal}] \cup [kind : {"jump"}, to : Step]
      PROVE  Understood(request) \in Requests
  <2>1. FirstStepID \in Step /\ FALSE \in BOOLEAN /\ NoValue \in {NoValue}
    BY BundleFacts
  <2>2. \A confirmed \in BOOLEAN :
           [step |-> FirstStepID, route |-> route, results |-> results, human |-> confirmed,
            manifest |-> NoValue, summary |-> summary] \in ControlRequests
    BY <1>8, <2>1 DEF ControlRequests
  <2> QED
    BY <1>6, <2>1, <2>2, Zenon DEF Requests
<1>9. \/ route \in [kind : {"next", "back"}, to : Step] \cup [kind : {"terminal"}, to : {Terminal}]
      \/ route \in [kind : {"start"}, to : {Terminal}] \cup [kind : {"jump"}, to : Step]
  BY <1>2 DEF RouteRecords
<1> QED
  BY <1>2, <1>6, <1>7, <1>8, <1>9

\* At a Step that has been reached the status shows one task, that of the Step.
LEMMA TaskShown ==
    ASSUME current.step \in Step
    PROVE  Tasks = {Task(current)}
<1>1. current.step # Nil
  BY BundleFacts
<1>2. Definition.flows[current.step] # << >>
  BY BundleAssumption DEF ValidBundle, ValidFlows, Step
<1> QED
  BY <1>1, <1>2 DEF Tasks, Project

\* An accepted control Route is one the current Task offers.
LEMMA ControlOffered ==
    ASSUME NEW request \in Requests, IsControl(request),
           ResultRefusal(Definition, current, request) = OK
    PROVE  \E task \in Tasks : Offers(task, request)
<1> DEFINE kind == request.route.kind
           task == Task(current)
           id == ControlCondition(kind)
<1>1. /\ current.step = request.step /\ current.step \in Step
      /\ ControlRefusal(Definition, current, request) = OK
  BY RequestTypes DEF ResultRefusal, CurrentStepRefusal, OK
<1>2. /\ Definition.controls
      /\ kind = "start" => current.status = "awaiting_confirmation"
      /\ Len(request.results) = 1
      /\ request.results[1].id = id
      /\ request.results[1].value \in Definition.commonValid[id]
      /\ kind # "start" => request.route.to \in Step
  BY <1>1 DEF ControlRefusal, OK, Step
<1>3. DOMAIN request.results = {1}
  BY <1>2, RequestTypes
<1>4. kind \in {"start", "jump"} /\ id \in CommonConditions /\ Reported(request) = {id}
  BY <1>2, <1>3 DEF IsControl, ControlCondition, CommonConditions, Reported
<1>5. \E view \in Shown(task) :
         view.id = request.results[1].id /\ request.results[1].value \in view.values
  <2>1. [id |-> id, values |-> Definition.commonValid[id], source |-> "none"]
           \in CommonConditionViews
    BY <1>2, <1>4 DEF CommonConditionViews
  <2> QED
    BY <1>2, <2>1 DEF Shown, Task
<1>6. \E view \in task.available_routes :
         view.route = Selection(request.route) /\ Matches(view.when, Reported(request))
  <2>1. CASE kind = "start"
    <3>1. CommonStartRouteView \in task.available_routes
      BY <1>2, <2>1 DEF Task
    <3>2. CommonStartRouteView.route = Selection(request.route)
      BY <2>1 DEF CommonStartRouteView, Selection
    <3>3. Matches(CommonStartRouteView.when, Reported(request))
      BY <1>4, <2>1 DEF CommonStartRouteView, Matches, ControlCondition
    <3> QED
      BY <3>1, <3>2, <3>3
  <2>2. CASE kind = "jump"
    <3> DEFINE view == [direction |-> "flow", when |-> {{"jump_requested"}},
                        route |-> [NoSelection EXCEPT !.jump_step_id = {request.route.to}]]
    <3>1. view \in task.available_routes
      BY <1>2, <2>2 DEF Task, CommonJumpRouteViews
    <3>2. view.route = Selection(request.route)
      BY <2>2 DEF Selection
    <3>3. Matches(view.when, Reported(request))
      BY <1>4, <2>2 DEF Matches, ControlCondition
    <3> QED
      BY <3>1, <3>2, <3>3
  <2> QED
    BY <1>4, <2>1, <2>2
<1> QED
  BY <1>1, <1>3, <1>5, <1>6, TaskShown DEF Offers

\* An accepted business Route is one the current Task offers.
LEMMA BusinessOffered ==
    ASSUME NEW request \in Requests, ~IsControl(request),
           ResultRefusal(Definition, current, request) = OK
    PROVE  \E task \in Tasks : Offers(task, request)
<1> DEFINE kind == request.route.kind
           task == Task(current)
           to == request.route.to
           routes == RoutesFor(Definition, request)
<1>1. /\ current.step = request.step /\ current.step \in Step
      /\ BusinessRefusal(Definition, current, request) = OK
  BY RequestTypes DEF ResultRefusal, CurrentStepRefusal, OK
<1>2. /\ current.status # "awaiting_confirmation"
      /\ ConditionsRefusal(Definition, current, request) = OK
      /\ RouteRefusal(routes, to, Reported(request)) = OK
  BY <1>1 DEF BusinessRefusal, OK
<1>3. SoundResults(current.step, request.results)
  BY <1>1, <1>2, FaultFreeResults, RequestTypes
<1>4. /\ task.conditions = ConditionViews(current.step)
      /\ AvailableRouteViews(current.step) \subseteq task.available_routes
  BY <1>2 DEF Task
<1>5. ASSUME NEW i \in DOMAIN request.results
      PROVE  \E view \in Shown(task) :
                view.id = request.results[i].id /\ request.results[i].value \in view.values
  <2> DEFINE id == request.results[i].id
             view == [id |-> id, values |-> Definition.valid[id],
                      source |-> Definition.source[id]]
  <2>1. view \in ConditionViews(current.step)
    BY <1>3 DEF SoundResults, ConditionViews
  <2>2. request.results[i].value \in Definition.valid[id]
    BY <1>3 DEF SoundResults
  <2> QED
    BY <1>4, <2>1, <2>2 DEF Shown
<1>6. \E view \in AvailableRouteViews(current.step) :
         view.route = Selection(request.route) /\ Matches(view.when, Reported(request))
  <2>1. PICK i \in DOMAIN routes : routes[i].to = to /\ Matches(routes[i].when, Reported(request))
    BY <1>2 DEF RouteRefusal, Matching, Available, OK
  <2>2. kind \in {"next", "terminal", "back"}
    BY RequestTypes DEF IsControl
  <2>3. CASE kind = "next"
    <3> DEFINE view == [direction |-> "flow", when |-> routes[i].when,
                        route |-> [NoSelection EXCEPT !.next_step_id = {to}]]
    <3>1. routes = Definition.flows[current.step] /\ to # Terminal
      BY <1>1, <2>3, RequestTypes, BundleFacts DEF RoutesFor, Terminal, Nil
    <3>2. view \in FlowRouteViews(Definition.flows[current.step])
      BY <2>1, <3>1 DEF FlowRouteViews
    <3>3. view.route = Selection(request.route)
      BY <2>3 DEF Selection
    <3>4. view.when = routes[i].when
      OBVIOUS
    <3> HIDE DEF view, routes
    <3> QED
      BY <2>1, <3>2, <3>3, <3>4 DEF AvailableRouteViews
  <2>4. CASE kind = "terminal"
    <3> DEFINE view == [direction |-> "flow", when |-> routes[i].when,
                        route |-> [NoSelection EXCEPT !.terminal = {TRUE}]]
    <3>1. routes = Definition.flows[current.step] /\ to = Terminal
      BY <1>1, <2>4, RequestTypes DEF RoutesFor
    <3>2. view \in FlowRouteViews(Definition.flows[current.step])
      BY <2>1, <3>1 DEF FlowRouteViews
    <3>3. view.route = Selection(request.route)
      BY <2>4 DEF Selection
    <3>4. view.when = routes[i].when
      OBVIOUS
    <3> HIDE DEF view, routes
    <3> QED
      BY <2>1, <3>2, <3>3, <3>4 DEF AvailableRouteViews
  <2>5. CASE kind = "back"
    <3> DEFINE view == [direction |-> "loop", when |-> routes[i].when,
                        route |-> [NoSelection EXCEPT !.back_step_id = {to}]]
    <3>1. routes = Definition.loops[current.step]
      BY <1>1, <2>5 DEF RoutesFor
    <3>2. view \in LoopRouteViews(Definition.loops[current.step])
      BY <2>1, <3>1 DEF LoopRouteViews
    <3>3. view.route = Selection(request.route)
      BY <2>5 DEF Selection
    <3>4. view.when = routes[i].when
      OBVIOUS
    <3> HIDE DEF view, routes
    <3> QED
      BY <2>1, <3>2, <3>3, <3>4 DEF AvailableRouteViews
  <2> QED
    BY <2>2, <2>3, <2>4, <2>5
<1> QED
  BY <1>1, <1>4, <1>5, <1>6, TaskShown DEF Offers

\* Whatever is accepted was offered.
LEMMA OfferedOnly == OnlyOfferedIsAccepted
<1>1. ASSUME NEW request \in Requests, Accepted(request)
      PROVE  \E task \in Tasks : Offers(task, request)
  BY <1>1, ControlOffered, BusinessOffered DEF Accepted
<1>2. ASSUME NEW step \in Step, ProgressRefusal(step) = OK, NEW task \in Tasks
      PROVE  task.execution.status # "awaiting_confirmation"
  <2>1. current.step \in Step /\ current.status # "awaiting_confirmation"
    BY <1>2 DEF ProgressRefusal, CurrentStepRefusal, OK
  <2>2. task = Task(current)
    BY <1>2, <2>1, TaskShown
  <2> QED
    BY <2>1, <2>2 DEF Task
<1> QED
  BY <1>1, <1>2, Understanding DEF OnlyOfferedIsAccepted

\* What the status shows and what a report may do agree, for every bundle:
\* nothing is accepted that was not offered, and no selection means another Route.
THEOREM OnlyOffered == Spec => []OnlyOfferedIsAccepted
  BY OfferedOnly, PTL

-----------------------------------------------------------------------------
(* What a commit leaves on disk (module Persistence)                       *)

\* A State that a commit may write: of its type, and accepted by both checks.
Sound(state) ==
    state \in States /\ Validate(state) /\ ValidateAgainst(Definition, state)

\* An optional field gives back what was put into it.
LEMMA OptionalField == \A v, none : Get(Optional(v, none), none) = v
<1> SUFFICES ASSUME NEW v, NEW none PROVE Get(Optional(v, none), none) = v
  OBVIOUS
<1>1. CASE v = none
  <2>1. Optional(v, none) = {}
    BY <1>1 DEF Optional
  <2> QED
    BY <1>1, <2>1 DEF Get
<1>2. CASE v # none
  <2>1. Optional(v, none) = {v}
    BY <1>2 DEF Optional
  <2> QED
    BY <2>1 DEF Get
<1> QED
  BY <1>1, <1>2

\* An optional field is the empty set or holds its one value.
LEMMA OptionalValues ==
    \A v, none : Optional(v, none) = IF v = none THEN {} ELSE {v}
  BY DEF Optional

\* The Registry comes back from its file.
LEMMA OutputsReadBack ==
    ASSUME NEW outputs \in Outputs
    PROVE  /\ OutputsFromStorageIDL(OutputsToStorageIDL(outputs)) = outputs
           /\ OutputsToStorageIDL(outputs) \in OutputRegistry
<1> DEFINE registered == {k \in Keys(Definition) : outputs[k].producer # Nil}
           stored == OutputsToStorageIDL(outputs)
<1>1. /\ DOMAIN outputs = Keys(Definition)
      /\ \A k \in Keys(Definition) :
            \/ outputs[k] \in [producer : Step, value : Values] /\ outputs[k].producer # Nil
            \/ outputs[k] = NoOutput /\ outputs[k].producer = Nil
  BY BundleFacts DEF Outputs, NoOutput
<1>2. stored = [k \in registered |->
                   [value |-> outputs[k].value, producer_step_id |-> outputs[k].producer]]
  BY <1>1 DEF OutputsToStorageIDL
<1> HIDE DEF stored
<1>3. stored \in [registered -> StoredOutput]
  <2>1. \A k \in registered :
           [value |-> outputs[k].value, producer_step_id |-> outputs[k].producer] \in StoredOutput
    BY <1>1 DEF StoredOutput, StepText
  <2> QED
    BY <1>2, <2>1
<1>4. stored \in OutputRegistry
  BY <1>3 DEF OutputRegistry
<1>5. ASSUME NEW k \in Keys(Definition)
      PROVE  OutputsFromStorageIDL(stored)[k] = outputs[k]
  BY <1>1, <1>2, <1>5 DEF OutputsFromStorageIDL
<1>6. DOMAIN OutputsFromStorageIDL(stored) = Keys(Definition)
  BY DEF OutputsFromStorageIDL
<1>7. OutputsFromStorageIDL(stored) = [k \in Keys(Definition) |-> OutputsFromStorageIDL(stored)[k]]
  BY DEF OutputsFromStorageIDL
<1>8. outputs = [k \in Keys(Definition) |-> outputs[k]]
  BY DEF Outputs
<1>9. OutputsFromStorageIDL(stored) = outputs
  BY <1>5, <1>7, <1>8, Zenon
<1> QED
  BY <1>4, <1>9 DEF stored

\* Its fields come back from the messages of the State and of the Card.
LEMMA FieldsReadBack ==
    ASSUME NEW state \in States, Validate(state)
    PROVE  /\ ReadBack(state) = state
           /\ LoadProjection(WriteProjection(state)) = state
<1> DEFINE stored == FlowStateToIDL(state)
<1>1. /\ stored.current_step_id = Optional(state.step, Nil)
      /\ stored.current_step_status = IF state.step = Nil THEN {} ELSE {state.status}
      /\ stored.current_step_summary = Optional(state.summary, NoSummary)
      /\ stored.integrations.trace =
            {[document_url |-> document] : document \in Optional(state.trace, NoValue)}
      /\ stored.skipped_step_ids = state.skipped
  BY DEF FlowStateToIDL
<1>2. Get(stored.current_step_status, NoStatus) = state.status
  BY <1>1 DEF Get, Validate
<1>3. /\ Get(stored.current_step_id, Nil) = state.step
      /\ Get(stored.current_step_summary, NoSummary) = state.summary
  BY <1>1, OptionalField
<1>4. \A S : {binding.document_url : binding \in {[document_url |-> document] : document \in S}} = S
  <2> SUFFICES ASSUME NEW S
               PROVE  {binding.document_url :
                          binding \in {[document_url |-> document] : document \in S}} = S
    OBVIOUS
  <2>1. \A document : [document_url |-> document].document_url = document
    OBVIOUS
  <2> QED
    BY <2>1
<1>5. Get({binding.document_url : binding \in stored.integrations.trace}, NoValue) = state.trace
  <2> DEFINE documents(bindings) == {binding.document_url : binding \in bindings}
             bindings == {[document_url |-> document] : document \in Optional(state.trace, NoValue)}
  <2>1. documents(bindings) = Optional(state.trace, NoValue)
    BY <1>4
  <2>2. stored.integrations.trace = bindings
    BY <1>1
  <2> HIDE DEF stored, bindings
  <2>3. Get(documents(bindings), NoValue) = state.trace
    BY <2>1, OptionalField
  <2> QED
    BY <2>2, <2>3
<1>6. state = [step |-> state.step, status |-> state.status, summary |-> state.summary,
               outputs |-> state.outputs, skipped |-> state.skipped, trace |-> state.trace]
  BY DEF States
<1>7. OutputsFromStorageIDL(OutputsToStorageIDL(state.outputs)) = state.outputs
  BY OutputsReadBack DEF States
<1> HIDE DEF stored
<1>8. ReadBack(state) = state
  BY <1>1, <1>2, <1>3, <1>5, <1>6, <1>7 DEF ReadBack, FlowStateFromIDL, stored
<1>9. LoadProjection(WriteProjection(state)) = state
  <2> DEFINE card == WriteProjection(state)
  <2>1. /\ card.current_step_id = stored.current_step_id
        /\ card.current_step_status = stored.current_step_status
        /\ card.current_step_summary = stored.current_step_summary
        /\ card.outputs = OutputsToStorageIDL(state.outputs)
        /\ card.trace_document_url = Optional(state.trace, NoValue)
        /\ card.skipped_step_ids = stored.skipped_step_ids
    BY DEF WriteProjection, stored
  <2> HIDE DEF card
  <2>2. Get({binding.document_url : binding \in
               {[document_url |-> document] : document \in card.trace_document_url}}, NoValue)
           = state.trace
    BY <1>4, <2>1, OptionalField
  <2>3. LoadProjection(card)
           = [step |-> Get(card.current_step_id, Nil),
              status |-> Get(card.current_step_status, NoStatus),
              summary |-> Get(card.current_step_summary, NoSummary),
              outputs |-> OutputsFromStorageIDL(card.outputs),
              skipped |-> card.skipped_step_ids,
              trace |-> Get({binding.document_url : binding \in
                 {[document_url |-> document] : document \in card.trace_document_url}}, NoValue)]
    BY DEF LoadProjection, FlowStateFromIDL
  <2> QED
    BY <1>1, <1>2, <1>3, <1>6, <1>7, <2>1, <2>2, <2>3 DEF card
<1> QED
  BY <1>8, <1>9

\* What is written for a sound State is of the type of its file and accepted
\* when it is read again.
LEMMA StateWritten ==
    ASSUME NEW state, Sound(state)
    PROVE  /\ FlowStateToIDL(state) \in StoredFlowState
           /\ StoredFlowStateIsValid(FlowStateToIDL(state))
<1> DEFINE stored == FlowStateToIDL(state)
<1>1. /\ state.step \in StepText /\ state.summary \in SummaryText
      /\ state.trace \in DocumentText /\ state.skipped \subseteq Step
      /\ state.step # Nil => state.status \in Statuses
  BY DEF Sound, States, Validate, StepText, SummaryText, DocumentText
<1>2. /\ Optional(state.step, Nil) \subseteq StepText
      /\ Optional(state.summary, NoSummary) \subseteq SummaryText
      /\ Optional(state.trace, NoValue) \subseteq Documents
  BY <1>1 DEF Optional, DocumentText
<1>3. \A status \in Statuses : status \in StoredStepStatus \ {Unspecified}
  BY DEF Statuses, Running, StoredStepStatus, Unspecified
<1>4. {[document_url |-> document] : document \in Optional(state.trace, NoValue)}
         \subseteq TraceBinding
  BY <1>2 DEF TraceBinding, DocumentText
<1>5. stored \in StoredFlowState
  BY <1>1, <1>2, <1>3, <1>4 DEF FlowStateToIDL, StoredFlowState, Integrations
<1>6. \A binding \in stored.integrations.trace : TraceBindingIsValid(binding)
  BY <1>2, ParametersAssumption DEF FlowStateToIDL, TraceBindingIsValid
<1>7. \A status \in stored.current_step_status : Defined(StoredStepStatus, status)
  BY <1>1, <1>3 DEF FlowStateToIDL, Defined
<1> QED
  BY <1>5, <1>6, <1>7 DEF StoredFlowStateIsValid, IntegrationsIsValid

\* A sound State and its projection survive writing and reading.
LEMMA StateKept ==
    ASSUME NEW state, Sound(state)
    PROVE  StateReadsBack(state) /\ ProjectionReadsBack(state)
<1>1. /\ ReadBack(state) = state /\ LoadProjection(WriteProjection(state)) = state
      /\ Validate(state) /\ ValidateAgainst(Definition, state)
  BY FieldsReadBack DEF Sound
<1>2. /\ FlowStateToIDL(state) \in StoredFlowState
      /\ StoredFlowStateIsValid(FlowStateToIDL(state))
  BY StateWritten
<1>3. OutputsToStorageIDL(state.outputs) \in OutputRegistry
  BY OutputsReadBack DEF Sound, States
<1>4. StateReadsBack(state)
  BY <1>1, <1>2, <1>3 DEF StateReadsBack
<1>5. WriteProjection(state) \in CardProjection /\ CardProjectionIsValid(WriteProjection(state))
  <2> DEFINE stored == FlowStateToIDL(state)
  <2>1. /\ stored.current_step_id \subseteq StepText
        /\ stored.current_step_status \subseteq StoredStepStatus
        /\ stored.current_step_summary \subseteq SummaryText
        /\ stored.skipped_step_ids \subseteq Step
        /\ \A status \in stored.current_step_status : Defined(StoredStepStatus, status)
    BY <1>2 DEF StoredFlowState, StoredFlowStateIsValid
  <2>2. Optional(state.trace, NoValue) \subseteq DocumentText
    BY DEF Sound, States, Optional, DocumentText
  <2> HIDE DEF stored
  <2> QED
    BY <1>3, <2>1, <2>2 DEF WriteProjection, CardProjection, CardProjectionIsValid, stored
<1>6. ProjectionReadsBack(state)
  BY <1>1, <1>2, <1>5 DEF ProjectionReadsBack, ProjectionNeedsRebuild
<1> QED
  BY <1>4, <1>6

\* The union of an Event has one member set, that of its kind, and it holds the payload.
LEMMA UnionHoldsPayload ==
    ASSUME NEW event, NEW kind \in EventKinds \ {Unspecified}, EventKind(event.kind) = kind
    PROVE  LET stored == EncodeEvent(event) IN
           /\ stored.kind = kind
           /\ stored.payload[kind] = {Payload(event)}
           /\ Get(stored.payload[kind], Nil) = Payload(event)
           /\ \A member \in EventKinds \ {Unspecified, kind} : stored.payload[member] = {}
           /\ CountSetFieldsEventPayload(stored.payload) = 1
           /\ stored = [kind |-> kind, payload |-> stored.payload]
           /\ stored.payload = [member \in EventKinds \ {Unspecified} |-> stored.payload[member]]
<1> DEFINE stored == EncodeEvent(event)
<1>1. /\ stored.kind = kind
      /\ stored = [kind |-> kind, payload |-> stored.payload]
      /\ stored.payload = [member \in EventKinds \ {Unspecified} |->
                              IF member = kind THEN {Payload(event)} ELSE {}]
  BY DEF EncodeEvent, EventPayloadToIDL
<1> HIDE DEF stored
<1>2. /\ stored.payload[kind] = {Payload(event)}
      /\ \A member \in EventKinds \ {Unspecified, kind} : stored.payload[member] = {}
      /\ DOMAIN stored.payload = EventKinds \ {Unspecified}
  BY <1>1
<1>3. {member \in DOMAIN stored.payload : stored.payload[member] # {}} = {kind}
  BY <1>2
<1>4. CountSetFieldsEventPayload(stored.payload) = 1
  BY <1>3, FS_Singleton DEF CountSetFieldsEventPayload
<1>5. Get(stored.payload[kind], Nil) = Payload(event)
  BY <1>2 DEF Get
<1>6. stored.payload = [member \in EventKinds \ {Unspecified} |-> stored.payload[member]]
  BY <1>1
<1> QED
  BY <1>1, <1>2, <1>4, <1>5, <1>6 DEF stored

\* A union is its six members.
LEMMA UnionMembers ==
    ASSUME NEW payload,
           payload = [member \in EventKinds \ {Unspecified} |-> payload[member]]
    PROVE  payload = [flow_initialized |-> payload.flow_initialized,
                      flow_progressed |-> payload.flow_progressed,
                      flow_result |-> payload.flow_result,
                      trace_document_bound |-> payload.trace_document_bound,
                      trace_sync_started |-> payload.trace_sync_started,
                      trace_synced |-> payload.trace_synced]
<1>1. EventKinds \ {Unspecified} =
         {"flow_initialized", "flow_progressed", "flow_result", "trace_document_bound",
          "trace_sync_started", "trace_synced"}
  BY DEF EventKinds, Unspecified
<1> QED
  BY <1>1

\* So the line of an Event is well formed when its own payload is, whatever its kind.
LEMMA LineWellFormed ==
    ASSUME NEW event, NEW kind \in EventKinds \ {Unspecified}, EventKind(event.kind) = kind,
           kind = "flow_initialized" => /\ Payload(event) \in FlowInitializedPayload
                                        /\ FlowInitializedPayloadIsValid(Payload(event)),
           kind = "flow_progressed" => /\ Payload(event) \in FlowProgressedPayload
                                       /\ FlowProgressedPayloadIsValid(Payload(event)),
           kind = "flow_result" => /\ Payload(event) \in FlowResultPayload
                                   /\ FlowResultPayloadIsValid(Payload(event)),
           kind = "trace_document_bound" => /\ Payload(event) \in TraceDocumentBoundPayload
                                            /\ TraceDocumentBoundPayloadIsValid(Payload(event)),
           kind = "trace_sync_started" => /\ Payload(event) \in TraceSyncStartedPayload
                                          /\ TraceSyncStartedPayloadIsValid(Payload(event)),
           kind = "trace_synced" => /\ Payload(event) \in TraceSyncedPayload
                                    /\ TraceSyncedPayloadIsValid(Payload(event))
    PROVE  LET stored == EncodeEvent(event) IN
           stored \in StoredEvent /\ StoredEventIsValid(stored)
<1> DEFINE stored == EncodeEvent(event)
           payload == stored.payload
<1>1. /\ stored = [kind |-> kind, payload |-> payload]
      /\ payload[kind] = {Payload(event)}
      /\ \A member \in EventKinds \ {Unspecified, kind} : payload[member] = {}
      /\ payload = [member \in EventKinds \ {Unspecified} |-> payload[member]]
  BY UnionHoldsPayload
<1> HIDE DEF stored
<1>2. EventKinds \ {Unspecified} =
         {"flow_initialized", "flow_progressed", "flow_result", "trace_document_bound",
          "trace_sync_started", "trace_synced"}
  BY DEF EventKinds, Unspecified
<1>3. /\ payload.flow_initialized \subseteq FlowInitializedPayload
      /\ \A p \in payload.flow_initialized : FlowInitializedPayloadIsValid(p)
  BY <1>1, <1>2
<1>4. /\ payload.flow_progressed \subseteq FlowProgressedPayload
      /\ \A p \in payload.flow_progressed : FlowProgressedPayloadIsValid(p)
  BY <1>1, <1>2
<1>5. /\ payload.flow_result \subseteq FlowResultPayload
      /\ \A p \in payload.flow_result : FlowResultPayloadIsValid(p)
  BY <1>1, <1>2
<1>6. /\ payload.trace_document_bound \subseteq TraceDocumentBoundPayload
      /\ \A p \in payload.trace_document_bound : TraceDocumentBoundPayloadIsValid(p)
  BY <1>1, <1>2
<1>7. /\ payload.trace_sync_started \subseteq TraceSyncStartedPayload
      /\ \A p \in payload.trace_sync_started : TraceSyncStartedPayloadIsValid(p)
  BY <1>1, <1>2
<1>8. /\ payload.trace_synced \subseteq TraceSyncedPayload
      /\ \A p \in payload.trace_synced : TraceSyncedPayloadIsValid(p)
  BY <1>1, <1>2
<1>9. payload \in EventPayload
  <2>1. payload = [flow_initialized |-> payload.flow_initialized,
                   flow_progressed |-> payload.flow_progressed,
                   flow_result |-> payload.flow_result,
                   trace_document_bound |-> payload.trace_document_bound,
                   trace_sync_started |-> payload.trace_sync_started,
                   trace_synced |-> payload.trace_synced]
    BY <1>1, UnionMembers
  <2> QED
    BY <1>3, <1>4, <1>5, <1>6, <1>7, <1>8, <2>1 DEF EventPayload
<1>10. EventPayloadIsValid(payload)
  BY <1>3, <1>4, <1>5, <1>6, <1>7, <1>8 DEF EventPayloadIsValid
<1>11. stored \in StoredEvent
  BY <1>1, <1>9 DEF StoredEvent
<1>12. Defined(EventKinds, stored.kind)
  BY <1>1 DEF Defined
<1> QED
  BY <1>10, <1>11, <1>12 DEF StoredEventIsValid, stored

\* The codec reads flow.initialized as it was written.
LEMMA InitializedReadsBack ==
    ASSUME NEW event, NEW step \in Step, NEW status \in {"ready", "awaiting_confirmation"},
           event = [kind |-> "flow.initialized", step |-> step, status |-> status]
    PROVE  EventReadsBack(event)
<1> DEFINE member == "flow_initialized"
           stored == EncodeEvent(event)
<1>1. /\ EventKind(event.kind) = member /\ member \in EventKinds \ {Unspecified}
      /\ Payload(event) = [step_id |-> step, step_status |-> status]
  BY DEF EventKind, EventKinds, Unspecified, Payload
<1>2. /\ Payload(event) \in FlowInitializedPayload
      /\ FlowInitializedPayloadIsValid(Payload(event))
  BY <1>1, BundleFacts
     DEF FlowInitializedPayload, FlowInitializedPayloadIsValid, StepText, StoredStepStatus,
         Defined, Unspecified
<1>3. /\ stored.kind = member /\ stored.payload[member] = {Payload(event)}
      /\ Get(stored.payload[member], Nil) = Payload(event)
      /\ CountSetFieldsEventPayload(stored.payload) = 1
      /\ stored.payload.trace_synced = {}
  BY <1>1, UnionHoldsPayload DEF EventKinds, Unspecified
<1>4. stored \in StoredEvent /\ StoredEventIsValid(stored)
  BY <1>1, <1>2, LineWellFormed
<1>5. ValidateEventPayload(event)
  BY BundleFacts DEF ValidateEventPayload
<1> HIDE DEF stored
<1>6. DecodeEvent(stored, event.kind) = event
  <2>1. Get(stored.payload[EventKind(event.kind)], Nil) = Payload(event)
    BY <1>1, <1>3
  <2> QED
    BY <1>1, <2>1 DEF DecodeEvent, EventPayloadFromIDL
<1>7. /\ stored.payload[stored.kind] # {}
      /\ \A synced \in stored.payload.trace_synced : \A result \in synced.targets :
            TraceTargetResultIsValid(result)
  BY <1>3
<1> QED
  BY <1>3, <1>4, <1>5, <1>6, <1>7, Zenon DEF EventReadsBack, stored

\* The codec reads flow.progressed as it was written.
LEMMA ProgressedReadsBack ==
    ASSUME NEW event, NEW step \in Step, NEW from \in Statuses, NEW to \in Running,
           NEW summary \in Summaries,
           event = [kind |-> "flow.progressed", from |-> step, fromStatus |-> from,
                    to |-> to, summary |-> summary]
    PROVE  EventReadsBack(event)
<1> DEFINE member == "flow_progressed"
           stored == EncodeEvent(event)
<1>1. /\ EventKind(event.kind) = member /\ member \in EventKinds \ {Unspecified}
      /\ Payload(event) = [from_step_id |-> step, from_step_status |-> from,
                           to_step_status |-> to, summary |-> summary]
  BY DEF EventKind, EventKinds, Unspecified, Payload
<1>2. /\ Payload(event) \in FlowProgressedPayload
      /\ FlowProgressedPayloadIsValid(Payload(event))
  BY <1>1, BundleFacts, ReportAssumption
     DEF FlowProgressedPayload, FlowProgressedPayloadIsValid, StepText, StoredStepStatus,
         SummaryText, Statuses, Running, Defined, Unspecified
<1>3. /\ stored.kind = member /\ stored.payload[member] = {Payload(event)}
      /\ Get(stored.payload[member], Nil) = Payload(event)
      /\ CountSetFieldsEventPayload(stored.payload) = 1
      /\ stored.payload.trace_synced = {}
  BY <1>1, UnionHoldsPayload DEF EventKinds, Unspecified
<1>4. stored \in StoredEvent /\ StoredEventIsValid(stored)
  BY <1>1, <1>2, LineWellFormed
<1>5. ValidateEventPayload(event)
  BY BundleFacts, ReportAssumption DEF ValidateEventPayload
<1> HIDE DEF stored
<1>6. DecodeEvent(stored, event.kind) = event
  <2>1. Get(stored.payload[EventKind(event.kind)], Nil) = Payload(event)
    BY <1>1, <1>3
  <2> QED
    BY <1>1, <2>1 DEF DecodeEvent, EventPayloadFromIDL
<1>7. /\ stored.payload[stored.kind] # {}
      /\ \A synced \in stored.payload.trace_synced : \A result \in synced.targets :
            TraceTargetResultIsValid(result)
  BY <1>3
<1> QED
  BY <1>3, <1>4, <1>5, <1>6, <1>7, Zenon DEF EventReadsBack, stored

\* The codec reads trace.document_bound as it was written.
LEMMA BoundReadsBack ==
    ASSUME NEW event, NEW document \in Documents, NEW previous \in Documents \cup {NoValue},
           event = [kind |-> "trace.document_bound", previous |-> previous,
                    document |-> document]
    PROVE  EventReadsBack(event)
<1> DEFINE member == "trace_document_bound"
           stored == EncodeEvent(event)
<1>1. /\ EventKind(event.kind) = member /\ member \in EventKinds \ {Unspecified}
      /\ Payload(event) = [document_url |-> document,
                           previous_document_url |-> Optional(previous, NoValue)]
  BY DEF EventKind, EventKinds, Unspecified, Payload
<1>2. /\ Payload(event) \in TraceDocumentBoundPayload
      /\ TraceDocumentBoundPayloadIsValid(Payload(event))
  BY <1>1, ParametersAssumption
     DEF TraceDocumentBoundPayload, TraceDocumentBoundPayloadIsValid, DocumentText, Optional
<1>3. /\ stored.kind = member /\ stored.payload[member] = {Payload(event)}
      /\ Get(stored.payload[member], Nil) = Payload(event)
      /\ CountSetFieldsEventPayload(stored.payload) = 1
      /\ stored.payload.trace_synced = {}
  BY <1>1, UnionHoldsPayload DEF EventKinds, Unspecified
<1>4. stored \in StoredEvent /\ StoredEventIsValid(stored)
  BY <1>1, <1>2, LineWellFormed
<1>5. ValidateEventPayload(event)
  BY ParametersAssumption DEF ValidateEventPayload
<1> HIDE DEF stored
<1>6. DecodeEvent(stored, event.kind) = event
  <2>1. Get(stored.payload[EventKind(event.kind)], Nil) = Payload(event)
    BY <1>1, <1>3
  <2> QED
    BY <1>1, OptionalField, <2>1 DEF DecodeEvent, EventPayloadFromIDL
<1>7. /\ stored.payload[stored.kind] # {}
      /\ \A synced \in stored.payload.trace_synced : \A result \in synced.targets :
            TraceTargetResultIsValid(result)
  BY <1>3
<1> QED
  BY <1>3, <1>4, <1>5, <1>6, <1>7, Zenon DEF EventReadsBack, stored

\* The codec reads trace.sync_started as it was written.
LEMMA StartedReadsBack ==
    ASSUME NEW event, NEW targets \in TargetSets,
           event = [kind |-> "trace.sync_started", targets |-> targets]
    PROVE  EventReadsBack(event)
<1> DEFINE member == "trace_sync_started"
           stored == EncodeEvent(event)
<1>1. /\ EventKind(event.kind) = member /\ member \in EventKinds \ {Unspecified}
      /\ Payload(event) = [targets |-> targets]
  BY DEF EventKind, EventKinds, Unspecified, Payload
<1>2. /\ Payload(event) \in TraceSyncStartedPayload
      /\ TraceSyncStartedPayloadIsValid(Payload(event))
      /\ targets # {}
  BY <1>1 DEF TraceSyncStartedPayload, TraceSyncStartedPayloadIsValid, TargetSets, TraceTarget
<1>3. /\ stored.kind = member /\ stored.payload[member] = {Payload(event)}
      /\ Get(stored.payload[member], Nil) = Payload(event)
      /\ CountSetFieldsEventPayload(stored.payload) = 1
      /\ stored.payload.trace_synced = {}
  BY <1>1, UnionHoldsPayload DEF EventKinds, Unspecified
<1>4. stored \in StoredEvent /\ StoredEventIsValid(stored)
  BY <1>1, <1>2, LineWellFormed
<1>5. ValidateEventPayload(event)
  BY <1>2 DEF ValidateEventPayload
<1> HIDE DEF stored
<1>6. DecodeEvent(stored, event.kind) = event
  <2>1. Get(stored.payload[EventKind(event.kind)], Nil) = Payload(event)
    BY <1>1, <1>3
  <2> QED
    BY <1>1, <2>1 DEF DecodeEvent, EventPayloadFromIDL
<1>7. /\ stored.payload[stored.kind] # {}
      /\ \A synced \in stored.payload.trace_synced : \A result \in synced.targets :
            TraceTargetResultIsValid(result)
  BY <1>3
<1> QED
  BY <1>3, <1>4, <1>5, <1>6, <1>7, Zenon DEF EventReadsBack, stored

\* An accepted Result is written as a line that reads back as it was.
LEMMA ResultReadsBack ==
    ASSUME IInv, NEW request \in Requests,
           ResultRefusal(Definition, current, request) = OK
    PROVE  EventReadsBack(ResultPayload(Definition, current, request))
<1> DEFINE event == ResultPayload(Definition, current, request)
           member == "flow_result"
           stored == EncodeEvent(event)
<1>1. /\ ValidNewEvent(Definition, event)
      /\ event.effect \in {"advanced", "looped", "completed", "started", "jumped"}
      /\ event.from \in Step /\ event.to \in Step \cup {Nil}
      /\ event.effect \notin Controls => SoundResults(event.from, event.results)
  BY ResultReplays, AcceptedControl, AcceptedBusiness DEF Controls
<1>2. /\ event = [kind |-> "flow.result", effect |-> event.effect, from |-> event.from,
                  to |-> event.to, results |-> event.results, human |-> event.human,
                  summary |-> event.summary, accepted |-> event.accepted,
                  invalidated |-> event.invalidated]
      /\ event.kind = "flow.result"
      /\ event.results = request.results /\ event.summary = request.summary
      /\ event.human = request.human
      /\ event.accepted = AcceptedKeys(Definition, event.effect, event.results)
      /\ event.invalidated \subseteq DOMAIN current.outputs
  BY DEF ResultPayload, InvalidatedOutputs
<1>3. /\ request.results \in ResultSequences /\ request.summary \in Summaries
      /\ request.human \in BOOLEAN
  BY DEF Requests, BusinessRequests, ControlRequests
<1> HIDE DEF event
<1>4. event.accepted \subseteq Keys(Definition) /\ event.invalidated \subseteq Keys(Definition)
  <2>1. event.accepted \subseteq Keys(Definition)
    BY <1>1, <1>2, BundleFacts DEF AcceptedKeys, SoundResults, Keys
  <2>2. DOMAIN current.outputs = Keys(Definition)
    BY DEF IInv, TypeOK, States, Outputs
  <2> QED
    BY <1>2, <2>1, <2>2
<1>5. WellFormedResult(Definition, event)
  BY <1>1, <1>2 DEF ValidNewEvent
<1>6. /\ EventKind(event.kind) = member /\ member \in EventKinds \ {Unspecified}
      /\ Payload(event) = FlowResultToIDL(event)
  BY <1>2 DEF EventKind, EventKinds, Unspecified, Payload
<1>7. /\ Direction(event.effect) \in StoredDirection \ {Unspecified}
      /\ event.effect \in StoredEffect \ {Unspecified}
      /\ EvidenceToIDL(event.human) \subseteq StoredEvidence
      /\ Optional(event.to, Nil) \subseteq StepText
      /\ event.from \in StepText /\ event.from # Nil
      /\ event.summary \in SummaryText /\ event.summary # NoSummary
      /\ event.results \in {<< >>} \cup ResultSequences /\ event.results # << >>
  <2>1. /\ Direction(event.effect) \in StoredDirection \ {Unspecified}
        /\ event.effect \in StoredEffect \ {Unspecified}
    BY <1>1 DEF Direction, StoredDirection, StoredEffect, Unspecified
  <2>2. EvidenceToIDL(event.human) \subseteq StoredEvidence
    BY DEF EvidenceToIDL, StoredEvidence, StoredEvidenceSource
  <2>3. Optional(event.to, Nil) \subseteq StepText /\ event.from \in StepText /\ event.from # Nil
    BY <1>1, BundleFacts DEF Optional, StepText
  <2>4. event.summary \in SummaryText /\ event.summary # NoSummary
    BY <1>2, <1>3, ReportAssumption DEF SummaryText
  <2>5. event.results \in {<< >>} \cup ResultSequences /\ event.results # << >>
    BY <1>2, <1>3, <1>5 DEF WellFormedResult
  <2> QED
    BY <2>1, <2>2, <2>3, <2>4, <2>5
<1>8. Payload(event) \in FlowResultPayload /\ FlowResultPayloadIsValid(Payload(event))
  <2>1. [direction |-> Direction(event.effect), from_step_id |-> event.from,
         to_step_id |-> Optional(event.to, Nil)] \in StoredTransition
    BY <1>7 DEF StoredTransition
  <2>2. [accepted |-> event.accepted, invalidated |-> event.invalidated] \in OutputChanges
    BY <1>4 DEF OutputChanges
  <2>3. Payload(event) \in FlowResultPayload
    BY <1>6, <1>7, <2>1, <2>2 DEF FlowResultToIDL, FlowResultPayload
  <2>4. FlowResultPayloadIsValid(Payload(event))
    BY <1>6, <1>7
       DEF FlowResultToIDL, FlowResultPayloadIsValid, StoredTransitionIsValid, Defined
  <2> QED
    BY <2>3, <2>4
<1>9. /\ stored.kind = member /\ stored.payload[member] = {Payload(event)}
      /\ Get(stored.payload[member], Nil) = Payload(event)
      /\ CountSetFieldsEventPayload(stored.payload) = 1
      /\ stored.payload.trace_synced = {}
  BY <1>6, UnionHoldsPayload DEF EventKinds, Unspecified
<1>10. stored \in StoredEvent /\ StoredEventIsValid(stored)
  BY <1>6, <1>8, LineWellFormed
<1>11. ValidateEventPayload(event)
  BY <1>2, <1>5, <1>7 DEF ValidateEventPayload
<1> HIDE DEF stored
<1>12. DecodeEvent(stored, event.kind) = event
  <2>1. Get(stored.payload[EventKind(event.kind)], Nil) = Payload(event)
    BY <1>6, <1>9
  <2>2. DecodeEvent(stored, event.kind) = FlowResultFromIDL(FlowResultToIDL(event))
    BY <1>2, <1>6, <2>1 DEF DecodeEvent, EventPayloadFromIDL
  <2>3. HumanFromIDL(EvidenceToIDL(event.human)) = event.human
    <3>1. CASE event.human = TRUE
      <4>1. EvidenceToIDL(event.human) = {[source |-> "human"]}
        BY <3>1 DEF EvidenceToIDL
      <4>2. HumanFromIDL(EvidenceToIDL(event.human)) = TRUE
        BY <4>1 DEF HumanFromIDL
      <4> QED
        BY <3>1, <4>2
    <3>2. CASE event.human = FALSE
      <4>1. EvidenceToIDL(event.human) = {}
        BY <3>2 DEF EvidenceToIDL
      <4>2. HumanFromIDL(EvidenceToIDL(event.human)) = FALSE
        BY <4>1 DEF HumanFromIDL
      <4> QED
        BY <3>2, <4>2
    <3> QED
      BY <1>2, <1>3, <3>1, <3>2
  <2>4. Get(Optional(event.to, Nil), Nil) = event.to
    BY OptionalField
  <2>5. FlowResultFromIDL(FlowResultToIDL(event)) =
           [kind |-> "flow.result", effect |-> event.effect, from |-> event.from,
            to |-> Get(Optional(event.to, Nil), Nil), results |-> event.results,
            human |-> HumanFromIDL(EvidenceToIDL(event.human)),
            summary |-> event.summary, accepted |-> event.accepted,
            invalidated |-> event.invalidated]
    BY DEF FlowResultFromIDL, FlowResultToIDL
  <2> QED
    BY <1>2, <2>2, <2>3, <2>4, <2>5, Zenon
<1>13. /\ stored.payload[stored.kind] # {}
       /\ \A synced \in stored.payload.trace_synced : \A result \in synced.targets :
             TraceTargetResultIsValid(result)
  BY <1>9
<1> QED
  BY <1>9, <1>10, <1>11, <1>12, <1>13, Zenon DEF EventReadsBack, stored, event

\* What a target of a sync may answer.
TargetResults ==
    [status : {"succeeded", "skipped"}, error : {OK}]
    \cup [status : {"failed"}, error : DOMAIN ErrorCodes]

\* The code of a failure has a text of its own, and OK has none.
LEMMA CodesAreDistinct ==
    /\ OK \notin DOMAIN ErrorCodes
    /\ \A c \in DOMAIN ErrorCodes :
          /\ ErrorCodes[c] \in TraceTargetErrorCode \ {Unspecified}
          /\ \A e \in DOMAIN ErrorCodes : ErrorCodes[c] = ErrorCodes[e] => c = e
  BY DEF ErrorCodes, OK, TraceTargetErrorCode, Unspecified

\* The error of a target comes back from the set it is stored in.
LEMMA ErrorReadsBack ==
    ASSUME NEW error \in {OK} \cup DOMAIN ErrorCodes
    PROVE  LET stored == {[code |-> ErrorCodes[c]] : c \in Optional(error, OK)} IN
           /\ Get({c \in DOMAIN ErrorCodes : [code |-> ErrorCodes[c]] \in stored}, OK) = error
           /\ stored \subseteq TraceTargetError
           /\ \A item \in stored : TraceTargetErrorIsValid(item)
<1> DEFINE stored == {[code |-> ErrorCodes[c]] : c \in Optional(error, OK)}
           codes == {c \in DOMAIN ErrorCodes : [code |-> ErrorCodes[c]] \in stored}
<1>1. \A a, b : [code |-> a] = [code |-> b] => a = b
  OBVIOUS
<1>2. CASE error = OK
  <2>1. stored = {} /\ codes = {}
    BY <1>2 DEF Optional
  <2> HIDE DEF stored, codes
  <2>2. Get(codes, OK) = error
    BY <1>2, <2>1 DEF Get
  <2>3. stored \subseteq TraceTargetError /\ \A item \in stored : TraceTargetErrorIsValid(item)
    BY <2>1
  <2> QED
    BY <2>2, <2>3 DEF stored, codes
<1>3. CASE error # OK
  <2>1. stored = {[code |-> ErrorCodes[error]]}
    BY <1>3 DEF Optional
  <2>2. codes = {error}
    BY <1>1, <1>3, <2>1, CodesAreDistinct
  <2> HIDE DEF stored, codes
  <2>3. Get(codes, OK) = error
    BY <2>2 DEF Get
  <2>4. stored \subseteq TraceTargetError /\ \A item \in stored : TraceTargetErrorIsValid(item)
    BY <1>3, <2>1, CodesAreDistinct DEF TraceTargetError, TraceTargetErrorIsValid, Defined
  <2> QED
    BY <2>3, <2>4 DEF stored, codes
<1> QED
  BY <1>2, <1>3

\* A sync has targets, none of them unspecified, and a result for each.
LEMMA SyncTargets ==
    ASSUME NEW targets \in TargetSets, NEW results \in SyncResults(targets)
    PROVE  /\ targets # {} /\ targets \subseteq TraceTarget \ {Unspecified}
           /\ results \in [targets -> TargetResults]
<1>1. targets # {} /\ targets \subseteq TraceTarget \ {Unspecified}
  BY DEF TargetSets, TraceTarget, Unspecified
<1>2. \A t \in targets : TargetResult(t) \subseteq TargetResults
  BY DEF TargetResult, TargetResults
<1>3. Skipped(targets) \in [targets -> TargetResults]
  BY DEF Skipped, TargetResults
<1>4. \/ results = Skipped(targets)
      \/ /\ results \in [targets -> UNION {TargetResult(t) : t \in targets}]
         /\ \A t \in targets : results[t] \in TargetResult(t)
  BY DEF SyncResults
<1> QED
  BY <1>1, <1>2, <1>3, <1>4

\* The codec reads trace.synced as it was written, with the results of every target.
LEMMA SyncedReadsBack ==
    ASSUME NEW targets \in TargetSets, NEW results \in SyncResults(targets), NEW event,
           event = [kind |-> "trace.synced", outcome |-> SyncOutcome(results),
                    targets |-> results]
    PROVE  EventReadsBack(event)
<1> DEFINE member == "trace_synced"
           stored == EncodeEvent(event)
           code(t) == {[code |-> ErrorCodes[c]] : c \in Optional(results[t].error, OK)}
           line(t) == [target |-> t, status |-> results[t].status, error |-> code(t)]
           lines == {line(t) : t \in targets}
<1>1. /\ targets # {} /\ targets \subseteq TraceTarget \ {Unspecified}
      /\ results \in [targets -> TargetResults]
      /\ DOMAIN results = targets
  BY SyncTargets
<1>2. /\ EventKind(event.kind) = member /\ member \in EventKinds \ {Unspecified}
      /\ Payload(event) = [outcome |-> SyncOutcome(results), targets |-> lines]
  BY <1>1 DEF EventKind, EventKinds, Unspecified, Payload, TraceSyncedToIDL
<1>3. ASSUME NEW t \in targets
      PROVE  /\ results[t].status \in {"succeeded", "failed", "skipped"}
             /\ results[t].error \in {OK} \cup DOMAIN ErrorCodes
             /\ results[t].status = "failed" <=> results[t].error # OK
             /\ results[t] = [status |-> results[t].status, error |-> results[t].error]
  BY <1>1, CodesAreDistinct DEF TargetResults
<1>4. ASSUME NEW t \in targets
      PROVE  line(t) \in TraceTargetResult /\ TraceTargetResultIsValid(line(t))
  <2>1. code(t) \subseteq TraceTargetError /\ \A item \in code(t) : TraceTargetErrorIsValid(item)
    BY <1>3, ErrorReadsBack
  <2>2. /\ results[t].status \in TraceTargetStatus \ {Unspecified}
        /\ t \in TraceTarget \ {Unspecified}
    BY <1>1, <1>3 DEF TraceTargetStatus, Unspecified
  <2> HIDE DEF code
  <2> QED
    BY <2>1, <2>2 DEF TraceTargetResult, TraceTargetResultIsValid, Defined
<1>5. SyncOutcome(results) \in TraceSyncOutcome \ {Unspecified}
  BY DEF SyncOutcome, TraceSyncOutcome, Unspecified
<1>6. Payload(event) \in TraceSyncedPayload /\ TraceSyncedPayloadIsValid(Payload(event))
  <2>1. lines \subseteq TraceTargetResult /\ lines # {}
    <3> HIDE DEF line
    <3> QED
      BY <1>1, <1>4
  <2> HIDE DEF lines
  <2> QED
    BY <1>2, <1>5, <2>1 DEF TraceSyncedPayload, TraceSyncedPayloadIsValid, Defined
<1>7. /\ stored.kind = member /\ stored.payload[member] = {Payload(event)}
      /\ Get(stored.payload[member], Nil) = Payload(event)
      /\ CountSetFieldsEventPayload(stored.payload) = 1
  BY <1>2, UnionHoldsPayload DEF EventKinds, Unspecified
<1>8. stored \in StoredEvent /\ StoredEventIsValid(stored)
  BY <1>2, <1>6, LineWellFormed
<1>9. ValidateEventPayload(event)
  <2>1. \A t \in targets : results[t].status = "failed" <=> results[t].error # OK
    BY <1>3
  <2> QED
    BY <1>1, <2>1 DEF ValidateEventPayload
<1> HIDE DEF stored
<1>10. /\ stored.payload[stored.kind] # {}
       /\ \A synced \in stored.payload.trace_synced : \A result \in synced.targets :
             TraceTargetResultIsValid(result)
  BY <1>2, <1>4, <1>7
<1>11. DecodeEvent(stored, event.kind) = event
  <2>1. Get(stored.payload[EventKind(event.kind)], Nil) = Payload(event)
    BY <1>2, <1>7
  <2>2. DecodeEvent(stored, event.kind) = TraceSyncedFromIDL(Payload(event))
    BY <2>1 DEF DecodeEvent, EventPayloadFromIDL
  <2> DEFINE back(t) ==
        LET result == CHOOSE r \in lines : r.target = t IN
        [status |-> result.status,
         error |-> Get({c \in DOMAIN ErrorCodes : [code |-> ErrorCodes[c]] \in result.error}, OK)]
  <2>3. {r.target : r \in lines} = targets
    <3>1. \A t \in targets : line(t).target = t
      OBVIOUS
    <3> HIDE DEF line
    <3> QED
      BY <3>1
  <2>4. ASSUME NEW t \in targets
        PROVE  back(t) = results[t]
    <3>1. line(t) \in lines /\ line(t).target = t
      OBVIOUS
    <3>2. \A r \in lines : r.target = t => r = line(t)
      OBVIOUS
    <3> HIDE DEF lines, line
    <3>3. (CHOOSE r \in lines : r.target = t) = line(t)
      BY <3>1, <3>2
    <3>4. line(t).status = results[t].status /\ line(t).error = code(t)
      BY DEF line
    <3>5. Get({c \in DOMAIN ErrorCodes : [code |-> ErrorCodes[c]] \in code(t)}, OK)
             = results[t].error
      BY <1>3, ErrorReadsBack
    <3> HIDE DEF code
    <3> QED
      BY <1>3, <3>3, <3>4, <3>5
  <2>5. TraceSyncedFromIDL(Payload(event)) =
           [kind |-> "trace.synced", outcome |-> SyncOutcome(results),
            targets |-> [t \in targets |-> back(t)]]
    <3> DEFINE payload == Payload(event)
    <3>1. payload.outcome = SyncOutcome(results) /\ payload.targets = lines
      BY <1>2
    <3> DEFINE read(stored_targets) ==
                 [t \in {r.target : r \in stored_targets} |->
                    LET result == CHOOSE r \in stored_targets : r.target = t IN
                    [status |-> result.status,
                     error |-> Get({c \in DOMAIN ErrorCodes :
                                       [code |-> ErrorCodes[c]] \in result.error}, OK)]]
    <3>2. TraceSyncedFromIDL(payload) =
             [kind |-> "trace.synced", outcome |-> payload.outcome,
              targets |-> read(payload.targets)]
      BY DEF TraceSyncedFromIDL
    <3> HIDE DEF payload, lines
    <3>3. read(lines) = [t \in {r.target : r \in lines} |-> back(t)]
      BY Zenon
    <3>4. read(lines) = [t \in targets |-> back(t)]
      BY <2>3, <3>3, Zenon
    <3> HIDE DEF read, back
    <3>5. TraceSyncedFromIDL(payload) =
             [kind |-> "trace.synced", outcome |-> SyncOutcome(results),
              targets |-> [t \in targets |-> back(t)]]
      BY <3>1, <3>2, <3>4
    <3> QED
      BY <3>5 DEF payload
  <2> HIDE DEF back
  <2>6. [t \in targets |-> back(t)] = results
    <3>1. results = [t \in targets |-> results[t]]
      BY <1>1
    <3> QED
      BY <2>4, <3>1
  <2> QED
    BY <2>2, <2>5, <2>6
<1> QED
  BY <1>7, <1>8, <1>9, <1>10, <1>11, Zenon DEF EventReadsBack, stored

\* What the status shows of a sound State satisfies the rules of every message in it.
LEMMA StatusSound ==
    ASSUME NEW state, Sound(state)
    PROVE  /\ FlowStateIsValid(Project(state))
           /\ \A task \in Project(state).current : \A view \in task.available_routes :
                 AvailableRouteIsValid(view)
           /\ \A k \in DOMAIN Project(state).outputs :
                 RegisteredOutputIsValid(Project(state).outputs[k])
<1>1. /\ state.step # Nil => state.step \in Step /\ state.status \in Statuses
      /\ DOMAIN state.outputs = Keys(Definition)
  BY DEF Sound, States, Validate, Outputs
<1>2. ASSUME NEW task \in Project(state).current
      PROVE  task = Task(state) /\ state.step \in Step /\ state.status \in Statuses
  BY <1>1, <1>2 DEF Project
<1>3. FlowStateIsValid(Project(state))
  <2>1. Defined(WorkflowStatus, Project(state).status)
    BY DEF Project, Defined, WorkflowStatus, Unspecified
  <2>2. ASSUME NEW task \in Project(state).current
        PROVE  CurrentTaskIsValid(task)
    <3>1. task.step_id = state.step /\ task.execution.status = state.status
      BY <1>2 DEF Task
    <3> QED
      BY <1>2, <3>1, BundleFacts
         DEF CurrentTaskIsValid, ExecutionIsValid, Defined, StepStatus, Statuses, Running,
             Unspecified
  <2> QED
    BY <2>1, <2>2 DEF FlowStateIsValid
<1>4. ASSUME NEW task \in Project(state).current, NEW view \in task.available_routes
      PROVE  AvailableRouteIsValid(view)
  <2>1. \/ view \in CommonJumpRouteViews
        \/ view = CommonStartRouteView
        \/ view \in FlowRouteViews(Definition.flows[state.step])
        \/ view \in LoopRouteViews(Definition.loops[state.step])
    BY <1>2, <1>4 DEF Task, AvailableRouteViews
  <2>2. Nil \notin Step
    BY BundleFacts
  <2> USE DEF AvailableRouteIsValid, RouteWhenIsValid, RouteSelectionIsValid, Defined,
              RouteDirection, Unspecified, NoSelection
  <2>3. CASE view \in CommonJumpRouteViews
    <3>1. PICK s \in Step :
             view = [direction |-> "flow", when |-> {{"jump_requested"}},
                     route |-> [NoSelection EXCEPT !.jump_step_id = {s}]]
      BY <2>3 DEF CommonJumpRouteViews
    <3>2. /\ view.direction = "flow" /\ view.when # {}
          /\ view.route.next_step_id = {} /\ view.route.back_step_id = {}
          /\ view.route.jump_step_id = {s}
      BY <3>1
    <3> QED
      BY <2>2, <3>2
  <2>4. CASE view = CommonStartRouteView
    BY <2>4 DEF CommonStartRouteView
  <2>5. CASE view \in FlowRouteViews(Definition.flows[state.step])
    <3> DEFINE routes == Definition.flows[state.step]
    <3>1. PICK i \in DOMAIN routes :
             view = [direction |-> "flow", when |-> routes[i].when,
                     route |-> IF routes[i].to = Terminal
                               THEN [NoSelection EXCEPT !.terminal = {TRUE}]
                               ELSE [NoSelection EXCEPT !.next_step_id = {routes[i].to}]]
      BY <2>5 DEF FlowRouteViews
    <3>2. routes[i].when # {}
      BY <1>2, BundleAssumption DEF ValidBundle, ValidFlows, ValidWhen, Step
    <3> HIDE DEF routes
    <3>3. /\ view.direction = "flow" /\ view.when = routes[i].when
          /\ \/ routes[i].to # Terminal /\ view.route.next_step_id = {routes[i].to}
             \/ view.route.next_step_id = {}
          /\ view.route.back_step_id = {} /\ view.route.jump_step_id = {}
      <4>1. CASE routes[i].to = Terminal
        BY <3>1, <4>1
      <4>2. CASE routes[i].to # Terminal
        BY <3>1, <4>2
      <4> QED
        BY <4>1, <4>2
    <3> QED
      BY <3>2, <3>3 DEF Terminal, Nil
  <2>6. CASE view \in LoopRouteViews(Definition.loops[state.step])
    <3> DEFINE routes == Definition.loops[state.step]
    <3>1. PICK i \in DOMAIN routes :
             view = [direction |-> "loop", when |-> routes[i].when,
                     route |-> [NoSelection EXCEPT !.back_step_id = {routes[i].to}]]
      BY <2>6 DEF LoopRouteViews
    <3>2. routes[i].when # {} /\ routes[i].to # Nil
      <4>1. routes[i].when # {} /\ routes[i].to \in 1..state.step
        BY <1>2, BundleAssumption DEF ValidBundle, ValidLoops, ValidWhen, Step
      <4> QED
        BY <4>1 DEF Nil
    <3> HIDE DEF routes
    <3> QED
      BY <3>1, <3>2
  <2> QED
    BY <2>1, <2>3, <2>4, <2>5, <2>6
<1>5. ASSUME NEW k \in DOMAIN Project(state).outputs
      PROVE  RegisteredOutputIsValid(Project(state).outputs[k])
  BY <1>5 DEF Project, RegisteredOutputs, RegisteredOutputIsValid
<1> QED
  BY <1>3, <1>4, <1>5

\* What the properties ask of a commit.
Kept(commit) ==
    /\ Sound(commit.next) /\ EventReadsBack(commit.event)
    /\ commit.valid /\ commit.shows = Project(commit.next)

\* What an init commits can be read again.
LEMMA InitKept ==
    ASSUME IInv, NEW commit \in InitCommits
    PROVE  Kept(commit)
<1> DEFINE next == [Blank EXCEPT !.step = FirstStepID,
                                 !.status = EntryStepStatus(Definition),
                                 !.summary = WorkflowInitialized]
           event == [kind |-> "flow.initialized", step |-> next.step, status |-> next.status]
<1>1. commit = [next |-> next, event |-> event, shows |-> InitResponse(next).state,
                valid |-> FlowInitResponseIsValid(InitResponse(next))]
  BY DEF InitCommits
<1>2. /\ next.step = FirstStepID /\ next.status = EntryStepStatus(Definition)
      /\ next.summary = WorkflowInitialized /\ next.trace = NoValue
      /\ next.outputs = Unregistered(Definition) /\ next.skipped = {}
  BY DEF Blank
<1>3. Sound(next)
  <2>1. Unregistered(Definition) \in Outputs
    BY DEF Unregistered, Outputs
  <2>2. next \in States
    BY <2>1, BundleFacts DEF Blank, States, EntryStepStatus, Statuses
  <2>3. /\ EntryStepStatus(Definition) \in Statuses
        /\ EntryStepStatus(Definition) = "awaiting_confirmation" => Definition.controls
        /\ EntryStepStatus(Definition) = "ready" => ~Definition.controls
    BY DEF EntryStepStatus, Statuses
  <2>4. \A k \in DOMAIN next.outputs : next.outputs[k].producer = Nil
    BY <1>2 DEF Unregistered, NoOutput
  <2> HIDE DEF next
  <2>5. Validate(next)
    BY <1>2, <2>3, BundleFacts DEF Validate
  <2>6. ValidateAgainst(Definition, next)
    BY <1>2, <2>3, <2>4, BundleFacts DEF ValidateAgainst, Step
  <2> QED
    BY <2>2, <2>5, <2>6 DEF Sound, next
<1>4. EventReadsBack(event)
  BY <1>2, InitializedReadsBack, BundleFacts DEF EntryStepStatus
<1>5. FlowInitResponseIsValid(InitResponse(next)) /\ InitResponse(next).state = Project(next)
  BY <1>3, StatusSound
     DEF FlowInitResponseIsValid, InitResponse, Defined, InitEffect, Unspecified
<1> HIDE DEF next, event
<1> QED
  BY <1>1, <1>3, <1>4, <1>5 DEF Kept

\* What a progress report commits.
LEMMA ProgressCommitted ==
    ASSUME NEW commit \in ProgressCommits
    PROVE  \E status \in Running, summary \in Summaries :
         /\ ProgressRefusal(current.step) = OK
         /\ LET next == [current EXCEPT !.status = status, !.summary = summary] IN
            commit = [next |-> next,
                      event |-> [kind |-> "flow.progressed", from |-> current.step,
                                 fromStatus |-> current.status,
                                 to |-> next.status, summary |-> next.summary],
                      shows |-> ProgressResponse(next).state,
                      valid |-> FlowProgressResponseIsValid(ProgressResponse(next))]
<1> DEFINE written(status) == {[current EXCEPT !.status = status, !.summary = summary] :
                                 summary \in Summaries}
           allowed == {s \in Running : ProgressRefusal(current.step) = OK}
           commitOf(next) ==
             [next |-> next,
              event |-> [kind |-> "flow.progressed", from |-> current.step,
                         fromStatus |-> current.status,
                         to |-> next.status, summary |-> next.summary],
              shows |-> ProgressResponse(next).state,
              valid |-> FlowProgressResponseIsValid(ProgressResponse(next))]
<1>1. commit \in {commitOf(next) : next \in UNION {written(status) : status \in allowed}}
  BY Zenon DEF ProgressCommits
<1> HIDE DEF written, commitOf, allowed
<1>2. PICK status \in allowed : \E next \in written(status) : commit = commitOf(next)
  BY <1>1
<1>3. PICK summary \in Summaries :
         commit = commitOf([current EXCEPT !.status = status, !.summary = summary])
  BY <1>2 DEF written
<1>4. status \in Running /\ ProgressRefusal(current.step) = OK
  BY DEF allowed
<1> QED
  BY <1>3, <1>4, Zenon DEF commitOf

\* What a progress report commits can be read again.
LEMMA ProgressKept ==
    ASSUME IInv, NEW commit \in ProgressCommits
    PROVE  Kept(commit) /\ initialized
<1>1. PICK status \in Running, summary \in Summaries :
         /\ ProgressRefusal(current.step) = OK
         /\ LET next == [current EXCEPT !.status = status, !.summary = summary] IN
            commit = [next |-> next,
                      event |-> [kind |-> "flow.progressed", from |-> current.step,
                                 fromStatus |-> current.status,
                                 to |-> next.status, summary |-> next.summary],
                      shows |-> ProgressResponse(next).state,
                      valid |-> FlowProgressResponseIsValid(ProgressResponse(next))]
  BY ProgressCommitted
<1> DEFINE next == [current EXCEPT !.status = status, !.summary = summary]
<1>2. /\ initialized /\ current.step # Nil /\ current.status # "awaiting_confirmation"
      /\ current \in States
  BY <1>1, SoundLoad DEF ProgressRefusal, CurrentStepRefusal, OK, IInv, TypeOK
<1>3. /\ Validate(current) /\ ValidateAgainst(Definition, current)
      /\ current.step \in Step /\ current.status \in Statuses
  BY <1>2 DEF IInv, Validate, States
<1>4. /\ next.step = current.step /\ next.status = status /\ next.summary = summary
      /\ next.outputs = current.outputs /\ next.skipped = current.skipped
      /\ next \in States
  BY <1>2 DEF States, Statuses
<1> HIDE DEF next
<1>5. Sound(next)
  <2>1. status \in Statuses /\ status # "awaiting_confirmation" /\ status # "ready"
    BY DEF Statuses, Running
  <2>2. Validate(next)
    BY <1>2, <1>4, <2>1 DEF Validate
  <2>3. ValidateAgainst(Definition, next)
    BY <1>3, <1>4, <2>1 DEF ValidateAgainst
  <2> QED
    BY <1>4, <2>2, <2>3 DEF Sound
<1>6. EventReadsBack([kind |-> "flow.progressed", from |-> current.step,
                      fromStatus |-> current.status, to |-> next.status,
                      summary |-> next.summary])
  BY <1>3, <1>4, ProgressedReadsBack
<1>7. /\ FlowProgressResponseIsValid(ProgressResponse(next))
      /\ ProgressResponse(next).state = Project(next)
  BY <1>5, StatusSound
     DEF FlowProgressResponseIsValid, ProgressResponse, Defined, ProgressEffect, Unspecified
<1> QED
  BY <1>1, <1>2, <1>5, <1>6, <1>7 DEF Kept, next

\* What an accepted result commits can be read again.
LEMMA ResultKept ==
    ASSUME IInv, NEW request \in Requests, Accepted(request)
    PROVE  Kept(ResultCommit(request))
<1> DEFINE next == EvaluatedState(Definition, current, request)
           event == ResultPayload(Definition, current, request)
           response == ResultResponse(next, event, FALSE)
<1>1. /\ ResultRefusal(Definition, current, request) = OK
      /\ Validate(next) /\ ValidateAgainst(Definition, next)
  BY DEF Accepted, CommitRefusal, OK
<1>2. Sound(next)
  BY <1>1, ResultTyped DEF Sound
<1>3. EventReadsBack(event)
  BY <1>1, ResultReadsBack
<1>4. /\ event.from \in Step
      /\ event.effect \in {"advanced", "looped", "completed", "started", "jumped"}
  BY <1>1, AcceptedControl, AcceptedBusiness DEF Controls
<1>5. /\ response.effect = event.effect /\ response.state = Project(next)
      /\ response.transition =
            [direction |-> Direction(event.effect), from_step_id |-> event.from,
             to_step_id |-> Optional(event.to, Nil)]
  BY DEF ResultResponse
<1>6. ResultCommit(request) =
         [next |-> next, event |-> event, shows |-> response.state,
          valid |-> /\ FlowResultResponseIsValid(response)
                    /\ response.transition = FlowResultToIDL(event).transition]
  BY DEF ResultCommit
<1> HIDE DEF next, event, response
<1>7. FlowResultResponseIsValid(response)
  <2>1. Defined(ResultEffect, response.effect)
    BY <1>4, <1>5 DEF Defined, ResultEffect, Unspecified
  <2>2. TransitionIsValid(response.transition)
    BY <1>4, <1>5, BundleFacts
       DEF TransitionIsValid, Defined, TransitionDirection, Direction, Unspecified
  <2>3. FlowStateIsValid(response.state)
    BY <1>2, <1>5, StatusSound
  <2> QED
    BY <2>1, <2>2, <2>3 DEF FlowResultResponseIsValid
<1>8. response.transition = FlowResultToIDL(event).transition
  BY <1>5 DEF FlowResultToIDL
<1> QED
  BY <1>2, <1>3, <1>5, <1>6, <1>7, <1>8 DEF Kept

\* What a binding or a sync commits.
LEMMA TraceCommitted ==
    ASSUME NEW commit \in TraceCommits
    PROVE  \/ \E document \in Documents :
                 /\ BindRefusal(document) = OK
                 /\ commit = [next |-> [current EXCEPT !.trace = document],
                              event |-> [kind |-> "trace.document_bound",
                                         previous |-> current.trace, document |-> document],
                              shows |-> Project(current), valid |-> TRUE]
           \/ \E event \in SyncEvents :
                 /\ LoadRefusal = OK
                 /\ commit = [next |-> current, event |-> event, shows |-> Project(current),
                              valid |-> TRUE]
BY DEF TraceCommits

\* The two Events of a sync.
LEMMA SyncEventKinds ==
    ASSUME NEW event \in SyncEvents
    PROVE  \/ \E targets \in TargetSets :
                 event = [kind |-> "trace.sync_started", targets |-> targets]
           \/ \E targets \in TargetSets : \E results \in SyncResults(targets) :
                 event = [kind |-> "trace.synced", outcome |-> SyncOutcome(results),
                          targets |-> results]
<1> DEFINE answered(targets) ==
              {[kind |-> "trace.synced", outcome |-> SyncOutcome(results),
                targets |-> results] : results \in SyncResults(targets)}
           ended == UNION {answered(targets) : targets \in TargetSets}
           begun == {[kind |-> "trace.sync_started", targets |-> targets] :
                       targets \in {set \in TargetSets : current.trace # NoValue}}
<1>1. SyncEvents = ended \cup begun
  BY Zenon DEF SyncEvents
<1>2. ASSUME event \in begun
      PROVE  \E targets \in TargetSets :
                event = [kind |-> "trace.sync_started", targets |-> targets]
  BY <1>2
<1>3. ASSUME event \in ended
      PROVE  \E targets \in TargetSets : event \in answered(targets)
  <2> HIDE DEF answered
  <2> QED
    BY <1>3
<1> HIDE DEF answered, begun, ended
<1>4. event \in ended \/ event \in begun
  BY <1>1
<1>5. CASE \E targets \in TargetSets : event \in answered(targets)
  BY <1>5 DEF answered
<1> QED
  BY <1>2, <1>3, <1>4, <1>5

\* What a binding or a sync commits can be read again.
LEMMA TraceKept ==
    ASSUME IInv, NEW commit \in TraceCommits
    PROVE  Kept(commit) /\ initialized
<1>1. initialized => Sound(current)
  BY DEF IInv, TypeOK, Sound
<1>2. ASSUME NEW document \in Documents, BindRefusal(document) = OK,
             commit = [next |-> [current EXCEPT !.trace = document],
                       event |-> [kind |-> "trace.document_bound", previous |-> current.trace,
                                  document |-> document],
                       shows |-> Project(current), valid |-> TRUE]
      PROVE  Kept(commit) /\ initialized
  <2> DEFINE next == [current EXCEPT !.trace = document]
  <2>1. initialized /\ current \in States
    BY <1>2, SoundLoad DEF BindRefusal, OK, IInv, TypeOK
  <2>2. /\ next.step = current.step /\ next.status = current.status
        /\ next.summary = current.summary /\ next.outputs = current.outputs
        /\ next.skipped = current.skipped /\ next \in States
    BY <2>1 DEF States
  <2> HIDE DEF next
  <2>3. Sound(next)
    BY <1>1, <2>1, <2>2 DEF Sound, Validate, ValidateAgainst
  <2>4. Project(next) = Project(current)
    BY <2>2, Zenon DEF Project, Task
  <2>5. current.trace \in Documents \cup {NoValue}
    BY <2>1 DEF States
  <2>6. EventReadsBack([kind |-> "trace.document_bound", previous |-> current.trace,
                        document |-> document])
    BY <2>5, BoundReadsBack
  <2> QED
    BY <1>2, <2>1, <2>3, <2>4, <2>6 DEF Kept, next
<1>3. ASSUME NEW event \in SyncEvents, LoadRefusal = OK,
             commit = [next |-> current, event |-> event, shows |-> Project(current),
                       valid |-> TRUE]
      PROVE  Kept(commit) /\ initialized
  <2>1. initialized
    BY <1>3, SoundLoad DEF OK
  <2>2. EventReadsBack(event)
    <3>1. CASE \E targets \in TargetSets : event = [kind |-> "trace.sync_started", targets |-> targets]
      BY <3>1, StartedReadsBack
    <3>2. CASE \E targets \in TargetSets : \E results \in SyncResults(targets) :
                  event = [kind |-> "trace.synced", outcome |-> SyncOutcome(results),
                           targets |-> results]
      BY <3>2, SyncedReadsBack
    <3> QED
      BY <3>1, <3>2, SyncEventKinds
  <2> QED
    BY <1>1, <1>3, <2>1, <2>2 DEF Kept
<1> QED
  BY <1>2, <1>3, TraceCommitted

\* Whatever the next step may commit can be read again.
LEMMA CommitsKept ==
    ASSUME IInv, NEW commit \in NextCommits
    PROVE  Kept(commit)
<1>1. CASE commit \in InitCommits
  BY <1>1, InitKept
<1>2. CASE commit \in ProgressCommits
  BY <1>2, ProgressKept
<1>3. CASE commit \in TraceCommits
  BY <1>3, TraceKept
<1>4. CASE \E request \in Requests : Accepted(request) /\ commit = ResultCommit(request)
  BY <1>4, ResultKept
<1> QED
  BY <1>1, <1>2, <1>3, <1>4 DEF NextCommits

\* CommitsAreReadable follows from IInv.
LEMMA Readable == IInv => CommitsAreReadable
<1> SUFFICES ASSUME IInv PROVE CommitsAreReadable
  OBVIOUS
<1>1. \A commit \in NextCommits :
         /\ Kept(commit) /\ Sound(commit.next)
         /\ ReadBack(commit.next) = commit.next
         /\ StateReadsBack(commit.next) /\ ProjectionReadsBack(commit.next)
  BY CommitsKept, StateKept DEF Kept, StateReadsBack
<1>2. initialized => Sound(current)
  BY DEF IInv, TypeOK, Sound
<1>3. AnswersAreKept
  <2> SUFFICES ASSUME NEW commit \in NextCommits
               PROVE  LET status == StatusResponse(ReadBack(commit.next)) IN
                      /\ commit.valid
                      /\ commit.shows = status.state
                      /\ FlowStatusResponseIsValid(status)
                      /\ \A task \in status.state.current : \A view \in task.available_routes :
                            AvailableRouteIsValid(view)
                      /\ \A k \in DOMAIN status.state.outputs :
                            RegisteredOutputIsValid(status.state.outputs[k])
    BY DEF AnswersAreKept
  <2> DEFINE status == StatusResponse(ReadBack(commit.next))
  <2>1. status.state = Project(commit.next)
    BY <1>1 DEF StatusResponse
  <2> HIDE DEF status
  <2>2. /\ FlowStateIsValid(status.state)
        /\ \A task \in status.state.current : \A view \in task.available_routes :
              AvailableRouteIsValid(view)
        /\ \A k \in DOMAIN status.state.outputs :
              RegisteredOutputIsValid(status.state.outputs[k])
    BY <1>1, <2>1, StatusSound
  <2>3. commit.valid /\ commit.shows = status.state
    BY <1>1, <2>1 DEF Kept
  <2> QED
    BY <2>2, <2>3 DEF FlowStatusResponseIsValid, status
<1>4. initialized => /\ StateReadsBack(current)
                     /\ LoadProjection(WriteProjection(current)) = current
  BY <1>2, StateKept, FieldsReadBack DEF Sound
<1>5. \A commit \in NextCommits :
         initialized /\ commit.next # current =>
            ProjectionNeedsRebuild(WriteProjection(current), commit.next)
  BY <1>4 DEF ProjectionNeedsRebuild
<1> QED
  BY <1>1, <1>3, <1>4, <1>5 DEF CommitsAreReadable, Kept

\* For every bundle and every path through it, a command never writes what the
\* next command cannot read, and answers with what it wrote.
THEOREM WrittenIsReadable == Spec => []CommitsAreReadable
  BY InvariantInductive, Readable, PTL

-----------------------------------------------------------------------------
(* Refusals and the contract of the commands (module Contract)             *)

\* What the table of the commands has to say for runOperation to keep to it.
LEMMA TableOfCommands ==
    \A command \in Operations :
        /\ {"INVALID_ARGUMENT", "INVALID_INPUT_JSON"} \subseteq Errors(command)
        /\ CommandSpecs[command].scope \in {"new", "existing"} => "ROOT_REQUIRED" \in Errors(command)
        /\ command \notin SkipsConfiguration =>
              "INTERNAL" \in Errors(command) \/ command \in LeaveOutInternal
<1> SUFFICES ASSUME NEW command \in Operations
             PROVE  /\ {"INVALID_ARGUMENT", "INVALID_INPUT_JSON"} \subseteq Errors(command)
                    /\ CommandSpecs[command].scope \in {"new", "existing"} =>
                          "ROOT_REQUIRED" \in Errors(command)
                    /\ command \notin SkipsConfiguration =>
                          "INTERNAL" \in Errors(command) \/ command \in LeaveOutInternal
  OBVIOUS
<1>1. command \in Commands \ {"dashboard"}
  BY DEF Operations
<1> USE DEF Errors, CommandSpecs, CommandSpec, Commands
<1>2. CASE command \in SkipsConfiguration
  BY <1>1, <1>2 DEF SkipsConfiguration, WriteErrors, RequirementErrors
<1>3. CASE command \in {"trace.status", "trace.render", "trace.sync"}
  BY <1>1, <1>3 DEF LeaveOutInternal, WriteErrors, RequirementErrors
<1>4. CASE command = "flow.init"
  BY <1>1, <1>4
<1>5. CASE command \in {"flow.status", "flow.skills"}
  BY <1>1, <1>5 DEF RequirementErrors
<1>6. CASE command \in {"flow.report.progress", "flow.report.result"}
  BY <1>1, <1>6 DEF ResultErrors, ReportErrors, RequirementErrors
<1>7. CASE command \in {"trace.bind", "card.render"}
  BY <1>1, <1>7 DEF WriteErrors, RequirementErrors
<1> QED
  BY <1>1, <1>2, <1>3, <1>4, <1>5, <1>6, <1>7 DEF SkipsConfiguration

\* A refusal before the runtime of a command is one that its contract lists.
LEMMA RefusedBefore == RefusedAsContracted
<1> SUFFICES ASSUME NEW command \in Operations, NEW invocation \in Invocation
             PROVE  LET code == RunOperation(command, invocation) IN
                    \/ code \in Errors(command) \cup {OK}
                    \/ code = "INTERNAL" /\ command \in LeaveOutInternal
  BY DEF RefusedAsContracted
<1>1. RequestRefusal(invocation) \in {OK, "INVALID_ARGUMENT", "INVALID_INPUT_JSON"}
  BY DEF RequestRefusal
<1>2. \/ ConfigurationRefusal(command, invocation) \in {OK, "INTERNAL"}
      \/ ConfigurationRefusal(command, invocation) \in Errors(command)
  BY DEF ConfigurationRefusal
<1>3. /\ {"INVALID_ARGUMENT", "INVALID_INPUT_JSON"} \subseteq Errors(command)
      /\ CommandSpecs[command].scope \in {"new", "existing"} => "ROOT_REQUIRED" \in Errors(command)
      /\ command \notin SkipsConfiguration =>
            "INTERNAL" \in Errors(command) \/ command \in LeaveOutInternal
  BY TableOfCommands
<1> QED
  BY <1>1, <1>2, <1>3 DEF RunOperation

\* A report is refused for what it says or for where the Workflow is, nothing else.
LEMMA ResultCodes ==
    ASSUME NEW request
    PROVE  ResultRefusal(Definition, current, request) \in
              {OK, "REPORT_NOT_ALLOWED", "STEP_NOT_CURRENT", "CONDITION_CONFLICT",
               "CONDITION_NOT_ALLOWED", "OUTPUT_INVALID", "ROUTE_NOT_ALLOWED",
               "ROUTE_NOT_MATCHED", "ROUTE_AMBIGUOUS"}
<1> USE DEF OK
<1>1. ControlRefusal(Definition, current, request) \in
         {OK, "ROUTE_NOT_ALLOWED", "CONDITION_NOT_ALLOWED", "OUTPUT_INVALID",
          "REPORT_NOT_ALLOWED"}
  BY DEF ControlRefusal
<1>2. ConditionsRefusal(Definition, current, request) \in
         {OK, "CONDITION_CONFLICT", "CONDITION_NOT_ALLOWED", "OUTPUT_INVALID"}
  <2>1. \A i : ResultFault(Definition, current, request, i) \in
           {OK, "CONDITION_CONFLICT", "CONDITION_NOT_ALLOWED", "OUTPUT_INVALID"}
    BY DEF ResultFault
  <2> QED
    BY <2>1 DEF ConditionsRefusal
<1>3. BusinessRefusal(Definition, current, request) \in
         {OK, "REPORT_NOT_ALLOWED", "CONDITION_CONFLICT", "CONDITION_NOT_ALLOWED",
          "OUTPUT_INVALID", "ROUTE_NOT_ALLOWED", "ROUTE_NOT_MATCHED", "ROUTE_AMBIGUOUS"}
  BY <1>2 DEF BusinessRefusal, RouteRefusal
<1>4. CurrentStepRefusal(current, request.step) \in
         {OK, "REPORT_NOT_ALLOWED", "STEP_NOT_CURRENT"}
  BY DEF CurrentStepRefusal
<1> QED
  BY <1>1, <1>3, <1>4 DEF ResultRefusal

\* A dry run foretells the commit: the State a Result evaluates to passes every
\* check but, after a Jump and a Loop, that of the Outputs of skipped Steps.
LEMMA EvaluatedValid ==
    ASSUME IInv, initialized, NEW request \in Requests,
           ResultRefusal(Definition, current, request) = OK,
           LET next == EvaluatedState(Definition, current, request) IN
           \A k \in Keys(Definition) : next.outputs[k].producer \notin next.skipped
    PROVE  LET next == EvaluatedState(Definition, current, request) IN
           Validate(next) /\ ValidateAgainst(Definition, next)
<1> DEFINE next == EvaluatedState(Definition, current, request)
           payload == ResultPayload(Definition, current, request)
           effect == payload.effect
           status == ResultTargetStatus(Definition, effect)
<1>1. /\ payload.from \in Step /\ payload.to \in Step \cup {Nil}
      /\ effect \in {"advanced", "looped", "completed", "started", "jumped"}
      /\ effect = "completed" <=> payload.to = Nil
      /\ effect \notin Controls => SoundResults(payload.from, payload.results)
      /\ current \in States /\ ValidateAgainst(Definition, current)
  BY AcceptedControl, AcceptedBusiness, BundleFacts DEF IInv, TypeOK, Controls
<1>2. next \in States
  BY ResultTyped
<1>3. /\ next = ApplyFlowResult(Definition, current, payload, status)
      /\ \A k \in Keys(Definition) : next.outputs[k].producer \notin next.skipped
  BY DEF EvaluatedState
<1> HIDE DEF payload, next
<1>4. /\ next.step = payload.to
      /\ next.status = IF effect = "completed" THEN NoStatus ELSE status
      /\ effect = "completed" => next.summary = NoSummary
      /\ DOMAIN next.outputs = Keys(Definition)
      /\ \A k \in Keys(Definition) :
            \/ /\ k \in AcceptedKeys(Definition, effect, payload.results)
               /\ next.outputs[k] = AcceptedOutput(Definition, payload, k)
            \/ next.outputs[k] = NoOutput
            \/ next.outputs[k] = current.outputs[k]
  <2>1. DOMAIN current.outputs = Keys(Definition)
    BY <1>1 DEF States, Outputs
  <2> QED
    BY <1>3, <2>1 DEF ApplyFlowResult
<1>5. effect # "completed" =>
         /\ status \in Statuses
         /\ status = "awaiting_confirmation" => Definition.controls
         /\ status = "ready" => ~Definition.controls
  BY <1>1 DEF ResultTargetStatus, EntryStepStatus, Statuses, Running
<1>6. Validate(next)
  BY <1>1, <1>4, <1>5 DEF Validate
<1>7. next.step # Nil =>
         /\ next.step \in Steps(Definition)
         /\ next.status = "awaiting_confirmation" => Definition.controls
         /\ next.status = "ready" => ~Definition.controls
  BY <1>1, <1>4, <1>5 DEF Step
<1>8. next.skipped \subseteq Steps(Definition)
  BY <1>2 DEF States, Step
<1>9. ASSUME NEW k \in DOMAIN next.outputs, next.outputs[k].producer # Nil
      PROVE  /\ next.outputs[k].producer \in Steps(Definition)
             /\ \E c \in Definition.conditions :
                   Definition.key[c] = k /\ next.outputs[k].value \in Definition.valid[c]
             /\ next.outputs[k].producer \notin next.skipped
  <2>1. k \in Keys(Definition) /\ k \in DOMAIN current.outputs
    BY <1>1, <1>4 DEF States, Outputs
  <2>2. CASE next.outputs[k] = current.outputs[k]
    BY <1>1, <1>3, <1>9, <2>1, <2>2 DEF ValidateAgainst
  <2>3. CASE next.outputs[k] = NoOutput
    BY <1>9, <2>3 DEF NoOutput
  <2>4. CASE /\ k \in AcceptedKeys(Definition, effect, payload.results)
             /\ next.outputs[k] = AcceptedOutput(Definition, payload, k)
    <3>1. /\ effect \notin Controls
          /\ k \in {Definition.key[payload.results[j].id] : j \in DOMAIN payload.results}
      BY <2>4 DEF AcceptedKeys
    <3>2. PICK i \in DOMAIN payload.results :
             /\ i = CHOOSE j \in DOMAIN payload.results :
                       Definition.key[payload.results[j].id] = k
             /\ Definition.key[payload.results[i].id] = k
      BY <3>1
    <3>3. /\ payload.results[i].value \in Definition.valid[payload.results[i].id]
          /\ payload.results[i].id \in Definition.conditions
      <4>1. /\ payload.results[i].value \in Definition.valid[payload.results[i].id]
            /\ payload.results[i].id \in RelevantConditionIDs(Definition, payload.from)
        BY <1>1, <3>1, <3>2 DEF SoundResults
      <4> QED
        BY <1>1, <4>1, BundleFacts
    <3>4. next.outputs[k] = [producer |-> payload.from, value |-> payload.results[i].value]
      BY <2>4, <3>2 DEF AcceptedOutput
    <3>5. /\ next.outputs[k].producer = payload.from
          /\ next.outputs[k].value = payload.results[i].value
      BY <3>4
    <3>6. next.outputs[k].producer \in Steps(Definition)
      BY <1>1, <3>5 DEF Step
    <3>7. /\ payload.results[i].id \in Definition.conditions
          /\ Definition.key[payload.results[i].id] = k
          /\ next.outputs[k].value \in Definition.valid[payload.results[i].id]
      BY <3>2, <3>3, <3>5
    <3>8. next.outputs[k].producer \notin next.skipped
      BY <1>3, <2>1
    <3> QED
      BY <3>6, <3>7, <3>8
  <2> QED
    BY <1>4, <2>1, <2>2, <2>3, <2>4
<1>10. ValidateAgainst(Definition, next)
  BY <1>7, <1>8, <1>9 DEF ValidateAgainst
<1> QED
  BY <1>6, <1>10 DEF next

\* DryRunForetells follows from IInv.
LEMMA Foretold == IInv => DryRunForetells
<1> SUFFICES ASSUME IInv, NEW request \in Requests, initialized,
                    ResultRefusal(Definition, current, request) = OK
             PROVE  LET next == EvaluatedState(Definition, current, request)
                        refusal == CommitRefusal(next, ResultPayload(Definition, current, request))
                    IN  CASE refusal = OK -> TRUE
                          [] refusal = "INTERNAL" ->
                                \E k \in Keys(Definition) :
                                   next.outputs[k].producer \in next.skipped
                          [] OTHER -> FALSE
  BY DEF DryRunForetells
<1> DEFINE next == EvaluatedState(Definition, current, request)
           refusal == CommitRefusal(next, ResultPayload(Definition, current, request))
<1>1. refusal \in {OK, "INTERNAL"}
  BY ResultReplays DEF CommitRefusal
<1>2. ASSUME refusal # OK
      PROVE  \E k \in Keys(Definition) : next.outputs[k].producer \in next.skipped
  <2>1. ~(Validate(next) /\ ValidateAgainst(Definition, next))
    BY <1>2, ResultReplays DEF CommitRefusal
  <2> QED
    BY <2>1, EvaluatedValid
<1> HIDE DEF next, refusal
<1> QED
  BY <1>1, <1>2 DEF next, refusal, OK

\* RefusalsAreContracted follows from IInv.
LEMMA Contracted == IInv => RefusalsAreContracted
<1> SUFFICES ASSUME IInv PROVE RefusalsAreContracted
  OBVIOUS
<1> DEFINE known(command, code) ==
              code = OK \/ (code \in Errors(command) /\ ~ErrorSpecs[code].retryable)
<1>1. \A code \in {"NOT_INITIALIZED", "REPORT_NOT_ALLOWED", "STEP_NOT_CURRENT",
                   "CONDITION_CONFLICT", "CONDITION_NOT_ALLOWED", "OUTPUT_INVALID",
                   "ROUTE_NOT_ALLOWED", "ROUTE_NOT_MATCHED", "ROUTE_AMBIGUOUS",
                   "PROTECTED_DOCUMENT", "INVALID_ARGUMENT"} : ~ErrorSpecs[code].retryable
  <2>1. \A code \in ErrorCode :
           ErrorSpecs[code].retryable <=>
              code \in {"CONFIGURATION_FETCH_FAILED", "STATE_CONFLICT", "NETWORK_FAILED",
                        "TRACE_UPDATE_FAILED", "REGISTRY_UPDATE_FAILED"}
    BY DEF ErrorSpecs
  <2>2. {"NOT_INITIALIZED", "REPORT_NOT_ALLOWED", "STEP_NOT_CURRENT",
         "CONDITION_CONFLICT", "CONDITION_NOT_ALLOWED", "OUTPUT_INVALID",
         "ROUTE_NOT_ALLOWED", "ROUTE_NOT_MATCHED", "ROUTE_AMBIGUOUS",
         "PROTECTED_DOCUMENT", "INVALID_ARGUMENT"} \subseteq ErrorCode
    BY DEF ErrorCode
  <2> QED
    BY <2>1, <2>2
<1>2. /\ Errors("flow.report.result") =
            {"INVALID_ARGUMENT", "INVALID_INPUT_JSON"} \cup ResultErrors
      /\ Errors("flow.report.progress") =
            {"INVALID_ARGUMENT", "INVALID_INPUT_JSON"} \cup ReportErrors
      /\ Errors("trace.bind") =
            {"INVALID_ARGUMENT", "INVALID_INPUT_JSON"} \cup
            (WriteErrors \cup {"PROTECTED_DOCUMENT", "INTERNAL"})
  BY DEF Errors, CommandSpecs, CommandSpec, Commands
<1>3. LoadRefusal \in {OK, "NOT_INITIALIZED"}
  BY SoundLoad
<1>4. ASSUME NEW request \in Requests
      PROVE  known("flow.report.result",
                   IF LoadRefusal # OK THEN LoadRefusal
                   ELSE ResultRefusal(Definition, current, request))
  BY <1>1, <1>2, <1>3, ResultCodes DEF ResultErrors, ReportErrors, RequirementErrors
<1>5. ASSUME NEW step \in Step
      PROVE  known("flow.report.progress", ProgressRefusal(step))
  <2>1. ProgressRefusal(step) \in
           {OK, "NOT_INITIALIZED", "REPORT_NOT_ALLOWED", "STEP_NOT_CURRENT"}
    BY <1>3 DEF ProgressRefusal, CurrentStepRefusal
  <2> QED
    BY <1>1, <1>2, <2>1 DEF ReportErrors, RequirementErrors
<1>6. ASSUME NEW document \in Documents, BindRefusal(document) # "unchanged"
      PROVE  known("trace.bind", BindRefusal(document))
  <2>1. BindRefusal(document) \in
           {OK, "NOT_INITIALIZED", "PROTECTED_DOCUMENT", "INVALID_ARGUMENT"}
    BY <1>3, <1>6 DEF BindRefusal
  <2> QED
    BY <1>1, <1>2, <2>1 DEF WriteErrors, RequirementErrors
<1> QED
  BY <1>4, <1>5, <1>6, RefusedBefore, Foretold DEF RefusalsAreContracted

\* The contract of the commands holds for every bundle: a refusal has a code that
\* its command lists and no retry helps, and a dry run foretells the report.
THEOREM RefusedByContract == Spec => []RefusalsAreContracted
  BY InvariantInductive, Contracted, PTL

-----------------------------------------------------------------------------
(* The views of the Trace (module TraceViews)                              *)

\* The views of a list of Routes ask for the same Conditions as the Routes.
LEMMA ViewsOfRoutes ==
    ASSUME NEW routes
    PROVE  /\ \A c : (\E view \in FlowRouteViews(routes) : \E group \in view.when : c \in group)
                       <=> \E i \in DOMAIN routes : \E group \in routes[i].when : c \in group
           /\ \A c : (\E view \in LoopRouteViews(routes) : \E group \in view.when : c \in group)
                       <=> \E i \in DOMAIN routes : \E group \in routes[i].when : c \in group
<1> DEFINE flow(i) == [direction |-> "flow", when |-> routes[i].when,
                       route |-> IF routes[i].to = Terminal
                                 THEN [NoSelection EXCEPT !.terminal = {TRUE}]
                                 ELSE [NoSelection EXCEPT !.next_step_id = {routes[i].to}]]
           loop(i) == [direction |-> "loop", when |-> routes[i].when,
                       route |-> [NoSelection EXCEPT !.back_step_id = {routes[i].to}]]
<1>1. /\ FlowRouteViews(routes) = {flow(i) : i \in DOMAIN routes}
      /\ LoopRouteViews(routes) = {loop(i) : i \in DOMAIN routes}
  BY Zenon DEF FlowRouteViews, LoopRouteViews
<1>2. \A i : flow(i).when = routes[i].when /\ loop(i).when = routes[i].when
  OBVIOUS
<1> HIDE DEF flow, loop
<1> QED
  BY <1>1, <1>2

\* What the status shows of a Step that has been reached: its task, the Routes of
\* which ask for what a report may carry.
LEMMA TaskRows ==
    ASSUME current.step \in Step, current.status = "awaiting_confirmation" => Definition.controls
    PROVE  LET task  == Task(current)
               asked == UNION (UNION {view.when : view \in task.available_routes})
               rows  == ConditionRows(current)
           IN  /\ rows \ {"jump_requested"} = asked \ {"jump_requested"}
               /\ rows \subseteq {c.id : c \in Shown(task)}
<1> DEFINE task == Task(current)
           views == task.available_routes
           asked == UNION (UNION {view.when : view \in views})
           rows == ConditionRows(current)
           step == current.step
<1>0. current.step # Nil
  BY BundleFacts
<1>1. \A c : c \in asked <=> \E view \in views : \E group \in view.when : c \in group
  OBVIOUS
<1>2. \A view \in CommonJumpRouteViews : view.when = {{"jump_requested"}}
  BY DEF CommonJumpRouteViews
<1>3. CASE current.status = "awaiting_confirmation"
  <2>1. rows = {"start_confirmed", "jump_requested"}
    BY <1>0, <1>3 DEF ConditionRows, CommonConditions
  <2>2. views = CommonJumpRouteViews \cup {CommonStartRouteView}
    BY <1>3 DEF Task
  <2>3. CommonStartRouteView.when = {{"start_confirmed"}}
    BY DEF CommonStartRouteView
  <2> HIDE DEF views, asked, rows
  <2>4. "start_confirmed" \in asked
    BY <1>1, <2>2, <2>3
  <2>5. asked \subseteq {"start_confirmed", "jump_requested"}
    BY <1>1, <1>2, <2>2, <2>3
  <2>6. rows \subseteq {c.id : c \in Shown(task)}
    <3>1. CommonConditionViews \subseteq Shown(task)
      BY <1>3 DEF Shown, Task
    <3> DEFINE view(c) == [id |-> c, values |-> Definition.commonValid[c], source |-> "none"]
    <3>2. \A c \in rows : view(c) \in CommonConditionViews
      BY <1>3, <2>1 DEF CommonConditionViews, CommonConditions
    <3>3. \A c : view(c).id = c
      OBVIOUS
    <3> HIDE DEF task, view
    <3> QED
      BY <3>1, <3>2, <3>3
  <2> QED
    BY <2>1, <2>4, <2>5, <2>6 DEF views, asked, rows
<1>4. CASE current.status # "awaiting_confirmation"
  <2>1. rows = RelevantConditionIDs(Definition, step)
    BY <1>0, <1>4 DEF ConditionRows
  <2>2. views = CommonJumpRouteViews \cup AvailableRouteViews(step)
    BY <1>4 DEF Task
  <2> DEFINE inFlow(c) == \E i \in DOMAIN Definition.flows[step] :
                             \E group \in Definition.flows[step][i].when : c \in group
             inLoop(c) == \E i \in DOMAIN Definition.loops[step] :
                             \E group \in Definition.loops[step][i].when : c \in group
  <2>3. \A c : c \in rows <=> inFlow(c) \/ inLoop(c)
    BY <2>1 DEF RelevantConditionIDs, ConditionIDs
  <2>4. \A c : (\E view \in FlowRouteViews(Definition.flows[step]) :
                   \E group \in view.when : c \in group) <=> inFlow(c)
    BY ViewsOfRoutes
  <2>5. \A c : (\E view \in LoopRouteViews(Definition.loops[step]) :
                   \E group \in view.when : c \in group) <=> inLoop(c)
    BY ViewsOfRoutes
  <2> HIDE DEF views, asked, rows, inFlow, inLoop
  <2>6. \A c : c # "jump_requested" => (c \in asked <=> c \in rows)
    BY <1>1, <1>2, <2>2, <2>3, <2>4, <2>5 DEF AvailableRouteViews
  <2>7. rows \subseteq {c.id : c \in Shown(task)}
    <3>1. ConditionViews(step) \subseteq Shown(task)
      BY <1>4 DEF Shown, Task
    <3> DEFINE view(c) == [id |-> c, values |-> Definition.valid[c],
                           source |-> Definition.source[c]]
    <3>2. \A c \in rows : view(c) \in ConditionViews(step)
      BY <2>1 DEF ConditionViews
    <3>3. \A c : view(c).id = c
      OBVIOUS
    <3> HIDE DEF task, view
    <3> QED
      BY <3>1, <3>2, <3>3
  <2> QED
    BY <2>6, <2>7 DEF views, asked, rows
<1> QED
  BY <1>3, <1>4

\* The views of the State beside `flow status` agree with it.
LEMMA StateViews ==
    ASSUME IInv, initialized
    PROVE  StateViewsAgree
<1>1. /\ current \in States /\ Validate(current) /\ ValidateAgainst(Definition, current)
      /\ current.step = Nil \/ current.step \in Step
  BY DEF IInv, TypeOK, States
<1>2. {r.key : r \in OutputRows(current)} = DOMAIN Project(current).outputs
  <2> DEFINE registered == {k \in DOMAIN current.outputs : current.outputs[k].producer # Nil}
             row(k) == [key |-> k, producer |-> current.outputs[k].producer,
                        value |-> current.outputs[k].value]
  <2>1. DOMAIN Project(current).outputs = registered
    BY DEF Project, RegisteredOutputs
  <2>2. OutputRows(current) = {row(k) : k \in registered}
    BY DEF OutputRows
  <2>3. \A k : row(k).key = k
    OBVIOUS
  <2> HIDE DEF registered, row
  <2> QED
    BY <2>1, <2>2, <2>3
<1>3. CASE current.step = Nil
  <2>1. Tasks = {} /\ ConditionRows(current) = {}
    BY <1>3 DEF Tasks, Project, ConditionRows
  <2>2. DisplayStatus(current) = "done"
    BY <1>3 DEF DisplayStatus
  <2>3. \A human \in BOOLEAN : StatusLabel(current, human) = "done"
                              /\ RegistryStatus(current, human) = "done"
    BY <1>3, <2>2 DEF StatusLabel, RegistryStatus
  <2> QED
    BY <1>2, <2>1, <2>3 DEF StateViewsAgree
<1>4. CASE current.step \in Step
  <2>1. Tasks = {Task(current)} /\ current.step # Nil
    BY <1>4, TaskShown, BundleFacts
  <2>2. DisplayStatus(current) = current.status /\ current.status \in Statuses
    BY <1>1, <2>1 DEF DisplayStatus, Validate
  <2>3. \A human \in BOOLEAN : StatusLabel(current, human) # "done"
                              /\ RegistryStatus(current, human) # "done"
    <3>1. DisplayStatus(current) # "done"
      BY <2>2 DEF Statuses, Running
    <3>2. ASSUME NEW human \in BOOLEAN PROVE StatusLabel(current, human) # "done"
      BY <3>1 DEF StatusLabel
    <3>3. ASSUME NEW human \in BOOLEAN PROVE RegistryStatus(current, human) # "done"
      BY <3>1 DEF RegistryStatus
    <3> QED
      BY <3>2, <3>3
  <2>4. RegistryLocation(current) = Task(current).step_id
    BY <2>1 DEF RegistryLocation, Task
  <2>5. current.status = "awaiting_confirmation" => Definition.controls
    BY <1>1, <2>1 DEF ValidateAgainst
  <2>6. LET task  == Task(current)
            asked == UNION (UNION {view.when : view \in task.available_routes})
            rows  == ConditionRows(current)
        IN  /\ rows \ {"jump_requested"} = asked \ {"jump_requested"}
            /\ rows \subseteq {c.id : c \in Shown(task)}
    BY <1>4, <2>5, TaskRows
  <2> QED
    BY <1>2, <2>1, <2>3, <2>4, <2>6 DEF StateViewsAgree
<1> QED
  BY <1>1, <1>3, <1>4

\* What CommitViewsAgree asks of an Event and of the State after it.
Told(event, next) ==
    LET row == LogRow(event) IN
    /\ event.kind \in {"flow.progressed", "flow.result"} =>
          row.from = current.step /\ row.to = next.step
    /\ event.kind = "flow.initialized" => row.to = next.step
    /\ event.kind = "flow.progressed" => row.result = next.status
    /\ \A audit \in Audit(event) :
          /\ audit.from = current.step
          /\ event.kind = "flow.progressed" => audit.status = next.status
          /\ event.kind = "flow.result" =>
                /\ audit.to = next.step
                /\ {r.key : r \in OutputRows(next)} =
                      ({r.key : r \in OutputRows(current)} \ audit.invalidated)
                      \cup audit.accepted
    /\ (event.kind = "flow.result") = (\E audit \in Audit(event) : "effect" \in DOMAIN audit)
    /\ event.kind = "trace.document_bound" =>
          TraceBindResponseIsValid(BindResponse(BindRefusal(event.document)))
    /\ event.kind = "trace.synced" => TraceSyncResponseIsValid(SyncResponse(event))

\* The rows of the Outputs have the keys that are registered.
LEMMA RowKeys ==
    ASSUME NEW state
    PROVE  {r.key : r \in OutputRows(state)}
              = {k \in DOMAIN state.outputs : state.outputs[k].producer # Nil}
<1> DEFINE registered == {k \in DOMAIN state.outputs : state.outputs[k].producer # Nil}
           row(k) == [key |-> k, producer |-> state.outputs[k].producer,
                      value |-> state.outputs[k].value]
<1>1. OutputRows(state) = {row(k) : k \in registered}
  BY DEF OutputRows
<1>2. \A k : row(k).key = k
  OBVIOUS
<1> HIDE DEF registered, row
<1>3. {r.key : r \in OutputRows(state)} = registered
  BY <1>1, <1>2
<1> QED
  BY <1>3 DEF registered

\* The row of an init leads to the first Step.
LEMMA InitTold ==
    ASSUME NEW commit \in InitCommits
    PROVE  Told(commit.event, commit.next)
<1>1. commit.event.kind = "flow.initialized" /\ commit.event.step = commit.next.step
  BY DEF InitCommits
<1>2. Audit(commit.event) = {} /\ LogRow(commit.event).to = commit.next.step
  BY <1>1 DEF Audit, LogRow
<1> QED
  BY <1>1, <1>2 DEF Told

\* The row and the audit line of a progress report name the Step and its status.
LEMMA ProgressTold ==
    ASSUME current \in States, NEW commit \in ProgressCommits
    PROVE  Told(commit.event, commit.next)
<1> DEFINE event == commit.event
           next == commit.next
<1>1. /\ event.kind = "flow.progressed" /\ event.from = current.step
      /\ event.to = next.status /\ next.step = current.step
  <2>1. PICK status \in Running, summary \in Summaries :
           /\ ProgressRefusal(current.step) = OK
           /\ LET to == [current EXCEPT !.status = status, !.summary = summary] IN
              commit = [next |-> to,
                        event |-> [kind |-> "flow.progressed", from |-> current.step,
                                   fromStatus |-> current.status,
                                   to |-> to.status, summary |-> to.summary],
                        shows |-> ProgressResponse(to).state,
                        valid |-> FlowProgressResponseIsValid(ProgressResponse(to))]
    BY ProgressCommitted, Zenon
  <2> DEFINE to == [current EXCEPT !.status = status, !.summary = summary]
  <2>2. to.step = current.step
    BY DEF States
  <2> HIDE DEF to
  <2> QED
    BY <2>1, <2>2 DEF to
<1> HIDE DEF event, next
<1>2. /\ LogRow(event) = [from |-> event.from, to |-> event.from, result |-> event.to]
      /\ Audit(event) = {[from |-> event.from, status |-> event.to]}
  BY <1>1 DEF LogRow, Audit
<1>3. \A audit \in Audit(event) :
         /\ audit.from = current.step /\ audit.status = next.status
         /\ "effect" \notin DOMAIN audit
  BY <1>1, <1>2
<1>4. /\ LogRow(event).from = current.step /\ LogRow(event).to = next.step
      /\ LogRow(event).result = next.status
  BY <1>1, <1>2
<1>5. Told(event, next)
  BY <1>1, <1>3, <1>4 DEF Told
<1> QED
  BY <1>5 DEF event, next

\* The row and the audit line of a Result lead to the next Step, and the audit
\* line says which Outputs are registered then.
LEMMA ResultTold ==
    ASSUME IInv, NEW request \in Requests, ResultRefusal(Definition, current, request) = OK
    PROVE  Told(ResultPayload(Definition, current, request),
                EvaluatedState(Definition, current, request))
<1> DEFINE next == EvaluatedState(Definition, current, request)
           event == ResultPayload(Definition, current, request)
           line == [effect |-> event.effect, from |-> event.from, to |-> event.to,
                    conditions |-> {event.results[i].id : i \in DOMAIN event.results},
                    accepted |-> event.accepted, invalidated |-> event.invalidated]
<1>1. /\ event.kind = "flow.result" /\ event.from = current.step /\ event.from \in Step
      /\ event.accepted = AcceptedKeys(Definition, event.effect, event.results)
      /\ event.effect \notin Controls => SoundResults(current.step, event.results)
  BY AcceptedControl, AcceptedBusiness DEF ResultPayload
<1>2. next = ApplyFlowResult(Definition, current, event,
                             ResultTargetStatus(Definition, event.effect))
  BY DEF EvaluatedState
<1>3. DOMAIN current.outputs = Keys(Definition)
  BY DEF IInv, TypeOK, States, Outputs
<1> HIDE DEF event, next
<1>4. event.accepted \subseteq Keys(Definition)
  <2>1. CASE event.effect \in Controls
    BY <1>1, <2>1 DEF AcceptedKeys
  <2>2. CASE event.effect \notin Controls
    <3>1. SoundResults(current.step, event.results) /\ current.step \in Step
      BY <1>1, <2>2
    <3>2. {event.results[i].id : i \in DOMAIN event.results}
             \subseteq RelevantConditionIDs(Definition, current.step)
      BY <3>1 DEF SoundResults
    <3>3. \A i \in DOMAIN event.results : event.results[i].id \in Definition.conditions
      BY <3>1, <3>2, BundleFacts
    <3>4. event.accepted = {Definition.key[event.results[i].id] : i \in DOMAIN event.results}
      BY <1>1, <2>2 DEF AcceptedKeys
    <3> QED
      BY <3>3, <3>4 DEF Keys
  <2> QED
    BY <2>1, <2>2
<1>5. /\ next.step = event.to /\ DOMAIN next.outputs = Keys(Definition)
      /\ \A k \in Keys(Definition) :
            next.outputs[k] = IF k \in event.accepted THEN AcceptedOutput(Definition, event, k)
                              ELSE IF k \in event.invalidated THEN NoOutput
                              ELSE current.outputs[k]
  BY <1>1, <1>2, <1>3 DEF ApplyFlowResult
<1>6. NoOutput.producer = Nil /\ \A k : AcceptedOutput(Definition, event, k).producer # Nil
  BY <1>1, BundleFacts DEF NoOutput, AcceptedOutput
<1>7. {r.key : r \in OutputRows(next)} =
         ({r.key : r \in OutputRows(current)} \ event.invalidated) \cup event.accepted
  <2>1. \A k \in Keys(Definition) :
           next.outputs[k].producer # Nil <=>
              \/ current.outputs[k].producer # Nil /\ k \notin event.invalidated
              \/ k \in event.accepted
    BY <1>5, <1>6
  <2>2. /\ {r.key : r \in OutputRows(next)}
               = {k \in Keys(Definition) : next.outputs[k].producer # Nil}
        /\ {r.key : r \in OutputRows(current)}
               = {k \in Keys(Definition) : current.outputs[k].producer # Nil}
    BY <1>3, <1>5, RowKeys
  <2> QED
    BY <1>4, <2>1, <2>2
<1>8. /\ LogRow(event) = [from |-> event.from, to |-> event.to, result |-> event.effect]
      /\ Audit(event) = {line}
  BY <1>1 DEF LogRow, Audit
<1>9. /\ line.from = event.from /\ line.to = event.to /\ line.accepted = event.accepted
      /\ line.invalidated = event.invalidated /\ "effect" \in DOMAIN line
  OBVIOUS
<1>10. LogRow(event).from = current.step /\ LogRow(event).to = next.step
  BY <1>1, <1>5, <1>8
<1> HIDE DEF line
<1>11. Told(event, next)
  BY <1>1, <1>5, <1>7, <1>8, <1>9, <1>10 DEF Told
<1> QED
  BY <1>11 DEF event, next

\* The answers of a binding and of a sync are valid, and their Events are no
\* flow audit.
LEMMA TraceTold ==
    ASSUME NEW commit \in TraceCommits
    PROVE  Told(commit.event, commit.next)
<1>1. ASSUME NEW document \in Documents, BindRefusal(document) = OK,
             commit.event.kind = "trace.document_bound", commit.event.document = document
      PROVE  Told(commit.event, commit.next)
  <2>1. TraceBindResponseIsValid(BindResponse(OK))
    BY DEF TraceBindResponseIsValid, BindResponse, Defined, TraceBindEffect, Unspecified, OK
  <2>2. Audit(commit.event) = {}
    BY <1>1 DEF Audit
  <2> QED
    BY <1>1, <2>1, <2>2 DEF Told
<1>2. ASSUME commit.event.kind = "trace.sync_started"
      PROVE  Told(commit.event, commit.next)
  <2>1. Audit(commit.event) = {}
    BY <1>2 DEF Audit
  <2> QED
    BY <1>2, <2>1 DEF Told
<1>3. ASSUME NEW results, commit.event.kind = "trace.synced",
             commit.event.outcome = SyncOutcome(results)
      PROVE  Told(commit.event, commit.next)
  <2>1. SyncOutcome(results) \in {"partial", "skipped", "succeeded"}
    BY DEF SyncOutcome
  <2>2. TraceSyncResponseIsValid(SyncResponse(commit.event))
    BY <1>3, <2>1
       DEF TraceSyncResponseIsValid, SyncResponse, Defined, PublicSyncOutcome, Unspecified
  <2>3. Audit(commit.event) = {}
    BY <1>3 DEF Audit
  <2> QED
    BY <1>3, <2>2, <2>3 DEF Told
<1>4. CASE \E document \in Documents :
             /\ BindRefusal(document) = OK
             /\ commit = [next |-> [current EXCEPT !.trace = document],
                          event |-> [kind |-> "trace.document_bound",
                                     previous |-> current.trace, document |-> document],
                          shows |-> Project(current), valid |-> TRUE]
  BY <1>1, <1>4
<1>5. CASE \E event \in SyncEvents : commit.event = event
  BY <1>2, <1>3, <1>5, SyncEventKinds
<1>6. CASE \E event \in SyncEvents :
             commit = [next |-> current, event |-> event, shows |-> Project(current),
                       valid |-> TRUE]
  BY <1>5, <1>6
<1> QED
  BY <1>4, <1>6, TraceCommitted

\* CommitViewsAgree follows from IInv.
LEMMA CommitViews == IInv => CommitViewsAgree
<1> SUFFICES ASSUME IInv, NEW commit \in NextCommits
             PROVE  Told(DecodeEvent(EncodeEvent(commit.event), commit.event.kind), commit.next)
  BY DEF CommitViewsAgree, Told
<1>1. DecodeEvent(EncodeEvent(commit.event), commit.event.kind) = commit.event
  BY CommitsKept DEF Kept, EventReadsBack
<1>2. current \in States
  BY DEF IInv, TypeOK
<1>3. ASSUME NEW request \in Requests, Accepted(request), commit = ResultCommit(request)
      PROVE  Told(commit.event, commit.next)
  <2>1. /\ commit.event = ResultPayload(Definition, current, request)
        /\ commit.next = EvaluatedState(Definition, current, request)
    BY <1>3 DEF ResultCommit
  <2> QED
    BY <1>3, <2>1, ResultTold DEF Accepted
<1>4. Told(commit.event, commit.next)
  BY <1>2, <1>3, InitTold, ProgressTold, TraceTold DEF NextCommits
<1> QED
  BY <1>1, <1>4

-----------------------------------------------------------------------------
(* A history of syncs, as trace/config.json and `trace status` show it *)

\* The fold of RenderTraceConfig over a history of any length.
LEMMA Folded ==
    ASSUME NEW bound, NEW events, Len(events) \in Nat
    PROVE  \E after :
             /\ after[0] = BoundConfig(bound)
             /\ \A n \in 1..Len(events) :
                   after[n] = IF n \in Syncs(events) THEN ApplySync(after[n - 1], events[n], n)
                              ELSE after[n - 1]
             /\ RenderTraceConfig(bound, events) =
                   {c \in {after[Len(events)]} :
                       (bound # {} \/ Syncs(events) # {}) /\ TraceConfigIsValid(c)}
<1> DEFINE last == Len(events)
           next(c, n) == IF n \in Syncs(events) THEN ApplySync(c, events[n], n) ELSE c
           fold(f, k) == [n \in 0..k |-> IF n = 0 THEN BoundConfig(bound) ELSE next(f[n - 1], n)]
           unfolded == {k \in Nat : ~\E f : f = fold(f, k)}
<1> HIDE DEF next
<1>1. 0 \notin unfolded
  <2> DEFINE f == [n \in 0..0 |-> BoundConfig(bound)]
  <2>1. f = fold(f, 0)
    OBVIOUS
  <2> QED
    BY <2>1
<1>2. ASSUME NEW k \in Nat, k # 0, NEW g, g = fold(g, k - 1)
      PROVE  k \notin unfolded
  <2> DEFINE f == [n \in 0..k |-> IF n = k THEN next(g[k - 1], k) ELSE g[n]]
  <2>1. \A n \in 0..(k - 1) : f[n] = g[n]
    OBVIOUS
  <2>2. f[k] = next(f[k - 1], k)
    BY <1>2, <2>1
  <2>3. \A n \in 0..(k - 1) : g[n] = IF n = 0 THEN BoundConfig(bound) ELSE next(g[n - 1], n)
    BY <1>2
  <2>4. \A n \in 0..k : f[n] = IF n = 0 THEN BoundConfig(bound) ELSE next(f[n - 1], n)
    BY <1>2, <2>1, <2>2, <2>3
  <2>5. f = fold(f, k)
    BY <2>4
  <2> QED
    BY <2>5
<1>3. unfolded = {}
  <2> SUFFICES ASSUME unfolded # {} PROVE FALSE
    OBVIOUS
  <2>1. PICK k \in unfolded : \A n \in unfolded : k <= n
    BY LeastNatural
  <2>2. k \in Nat
    BY <2>1
  <2>3. k # 0 /\ k - 1 \notin unfolded
    <3> HIDE DEF unfolded
    <3> QED
      BY <1>1, <2>1, <2>2
  <2>4. PICK g : g = fold(g, k - 1)
    BY <2>2, <2>3
  <2> QED
    BY <1>2, <2>1, <2>2, <2>3, <2>4
<1> DEFINE after == CHOOSE f : f = fold(f, last)
<1>4. after = fold(after, last)
  BY <1>3
<1>5. RenderTraceConfig(bound, events) =
         {c \in {after[last]} :
             (bound # {} \/ Syncs(events) # {}) /\ TraceConfigIsValid(c)}
  BY DEF RenderTraceConfig, next
<1> HIDE DEF after
<1>6. /\ after[0] = BoundConfig(bound)
      /\ \A n \in 1..last : after[n] = next(after[n - 1], n)
  BY <1>4
<1> QED
  BY <1>5, <1>6 DEF next

\* The last member of a set of positions, position by position.
LEMMA LastOfStep ==
    ASSUME NEW S, S \subseteq Nat \ {0}, NEW n \in Nat \ {0}
    PROVE  /\ LastOf(S \cap (1..0)) = 0
           /\ LastOf(S \cap (1..n)) = IF n \in S THEN n ELSE LastOf(S \cap (1..(n - 1)))
<1>1. LastOf(S \cap (1..0)) = 0
  <2>1. S \cap (1..0) = {}
    OBVIOUS
  <2> QED
    BY <2>1 DEF LastOf
<1>2. CASE n \in S
  <2> DEFINE T == S \cap (1..n)
  <2>1. /\ n \in T \cup {0} /\ \A j \in T : j <= n
        /\ \A i \in T \cup {0} : i \in Nat /\ (n <= i => i = n)
    BY <1>2
  <2>2. n \in T
    BY <1>2
  <2> HIDE DEF T
  <2>3. LastOf(T) = n
    BY <2>1, <2>2 DEF LastOf
  <2> QED
    BY <1>1, <1>2, <2>3 DEF T
<1>3. CASE n \notin S
  <2>1. S \cap (1..n) = S \cap (1..(n - 1))
    BY <1>3
  <2> QED
    BY <1>1, <1>3, <2>1
<1> QED
  BY <1>2, <1>3

\* The targets that answer a sync: a Registry that is turned off does not.
Reached(binding) ==
    PlannedSyncTargets(binding) \ (IF Disabled(binding.registry) THEN {"registry"} ELSE {})

\* What an Event trace.synced of a binding satisfies, or one before it.
OneSync(event, reached) ==
    /\ event.kind = "trace.synced"
    /\ DOMAIN event.targets \subseteq PublicTarget \ {Unspecified}
    /\ event.targets \in [DOMAIN event.targets -> TargetResults]
    /\ \/ /\ event.outcome = "partial" /\ Having(event, "failed") # {}
          /\ Having(event, "succeeded") \cup Having(event, "failed") = reached
       \/ /\ event.outcome = "succeeded" /\ Having(event, "failed") = {}
          /\ Having(event, "succeeded") = reached
       \/ /\ event.outcome = "skipped" /\ Having(event, "failed") = {}
          /\ Having(event, "succeeded") = {}

\* A sync of a Requirement that is not bound reaches nothing.
LEMMA SkippedSync ==
    ASSUME NEW targets \in TargetSets, NEW reached
    PROVE  OneSync(Synced(Skipped(targets)), reached)
<1> DEFINE results == Skipped(targets)
<1>1. /\ targets # {} /\ targets \subseteq PublicTarget \ {Unspecified}
  BY DEF TargetSets, PublicTarget, Unspecified
<1>2. /\ DOMAIN results = targets /\ results \in [targets -> TargetResults]
      /\ \A t \in targets : results[t].status = "skipped"
  BY DEF Skipped, TargetResults
<1> HIDE DEF results
<1>3. {results[t].status : t \in DOMAIN results} = {"skipped"}
  BY <1>1, <1>2
<1>4. SyncOutcome(results) = "skipped"
  BY <1>3 DEF SyncOutcome
<1>5. /\ Having(Synced(results), "failed") = {} /\ Having(Synced(results), "succeeded") = {}
  BY <1>2 DEF Having, Synced
<1> QED
  BY <1>1, <1>2, <1>4, <1>5 DEF OneSync, Synced, results

\* A sync of a bound Requirement asks every target that is not turned off.
LEMMA BoundSync ==
    ASSUME NEW binding, NEW event \in SyncsOf(binding)
    PROVE  OneSync(event, Reached(binding))
<1> DEFINE targets == PlannedSyncTargets(binding)
<1>1. PICK results :
         /\ results \in [targets -> UNION {Answers(binding, t) : t \in targets}]
         /\ \A t \in targets : results[t] \in Answers(binding, t)
         /\ event = Synced(results)
  BY DEF SyncsOf
<1>2. targets \subseteq PublicTarget \ {Unspecified} /\ "trace_document" \in targets
  BY DEF PlannedSyncTargets, PublicTarget, Unspecified
<1>3. \A t \in targets :
         /\ results[t] \in TargetResults
         /\ results[t].status \in {"succeeded", "failed"} <=> t \in Reached(binding)
  <2>1. \A t \in targets : Answers(binding, t) \subseteq TargetResults
    BY DEF Answers, TargetResults, ErrorCodes
  <2>2. \A t \in targets : t \in Reached(binding) <=> ~(t = "registry" /\ Disabled(binding.registry))
    BY DEF Reached
  <2>3. \A t \in targets : \A answer \in Answers(binding, t) :
           answer.status \in {"succeeded", "failed"} <=>
              ~(t = "registry" /\ Disabled(binding.registry))
    BY DEF Answers
  <2> QED
    BY <1>1, <2>1, <2>2, <2>3
<1>4. "trace_document" \in Reached(binding) /\ Reached(binding) \subseteq targets
  BY <1>2 DEF Reached
<1>5. DOMAIN results = targets /\ results \in [targets -> TargetResults]
  BY <1>1, <1>3
<1> HIDE DEF targets
<1> DEFINE failed == {t \in targets : results[t].status = "failed"}
           succeeded == {t \in targets : results[t].status = "succeeded"}
<1>6. Having(event, "failed") = failed /\ Having(event, "succeeded") = succeeded
  BY <1>1, <1>5 DEF Having, Synced
<1>7. failed \cup succeeded = Reached(binding)
  BY <1>3, <1>4
<1>8. \/ event.outcome = "partial" /\ failed # {}
      \/ event.outcome = "succeeded" /\ failed = {}
  <2> DEFINE statuses == {results[t].status : t \in DOMAIN results}
  <2>1. event.outcome = SyncOutcome(results)
    BY <1>1 DEF Synced
  <2>2. "failed" \in statuses <=> failed # {}
    BY <1>5
  <2>3. statuses # {"skipped"}
    BY <1>2, <1>3, <1>4, <1>5
  <2> HIDE DEF statuses
  <2>4. SyncOutcome(results) = IF "failed" \in statuses THEN "partial" ELSE "succeeded"
    BY <2>3 DEF SyncOutcome, statuses
  <2> QED
    BY <2>1, <2>2, <2>4
<1>9. event.kind = "trace.synced" /\ event.targets = results
  BY <1>1 DEF Synced
<1> QED
  BY <1>2, <1>5, <1>6, <1>7, <1>8, <1>9 DEF OneSync

\* Every Event of a history is a sync of its binding or one that reached nothing.
LEMMA HistorySyncs ==
    ASSUME NEW binding, NEW events \in Histories(binding)
    PROVE  /\ Len(events) \in Nat
           /\ Syncs(events) = 1..Len(events)
           /\ \A i \in 1..Len(events) : OneSync(events[i], Reached(binding))
<1> DEFINE Lines == {event \in SyncsOf(binding) \cup {Synced(Skipped(T)) : T \in TargetSets} :
                        OneSync(event, Reached(binding))}
           bound == UNION {[1..n -> SyncsOf(binding)] : n \in 0..MaxSyncs}
           before == {<<Synced(Skipped(targets))>> : targets \in TargetSets}
<1>1. SyncsOf(binding) \subseteq Lines
  BY BoundSync
<1>2. \A targets \in TargetSets : Synced(Skipped(targets)) \in Lines
  BY SkippedSync
<1>3. \A event \in Lines : OneSync(event, Reached(binding))
  OBVIOUS
<1> HIDE DEF Lines
<1>4. bound \subseteq Seq(Lines)
  <2>1. ASSUME NEW n \in 0..MaxSyncs, NEW later \in [1..n -> SyncsOf(binding)]
        PROVE  later \in Seq(Lines)
    <3>1. n \in Nat
      BY DEF MaxSyncs
    <3> QED
      BY <1>1, <3>1
  <2> QED
    BY <2>1
<1>5. {<<>>} \cup before \subseteq Seq(Lines)
  <2>1. \A line \in Lines : <<line>> \in Seq(Lines)
    OBVIOUS
  <2> DEFINE line(targets) == Synced(Skipped(targets))
  <2>2. \A targets \in TargetSets : line(targets) \in Lines
    BY <1>2
  <2>3. before = {<<line(targets)>> : targets \in TargetSets}
    OBVIOUS
  <2> HIDE DEF line, before
  <2>4. before \subseteq Seq(Lines)
    BY <2>1, <2>2, <2>3
  <2>5. <<>> \in Seq(Lines)
    OBVIOUS
  <2> QED
    BY <2>4, <2>5
<1>6. PICK earlier \in {<<>>} \cup before, later \in bound : events = earlier \o later
  BY DEF Histories
<1> HIDE DEF bound, before
<1>7. events \in Seq(Lines)
  <2>1. earlier \in Seq(Lines) /\ later \in Seq(Lines)
    BY <1>4, <1>5
  <2>2. earlier \o later \in Seq(Lines)
    BY <2>1
  <2> QED
    BY <1>6, <2>2
<1>8. Len(events) \in Nat /\ DOMAIN events = 1..Len(events)
  BY <1>7
<1>9. \A i \in 1..Len(events) : OneSync(events[i], Reached(binding))
  BY <1>3, <1>7
<1>10. \A i \in 1..Len(events) : events[i].kind = "trace.synced"
  BY <1>9 DEF OneSync
<1>11. Syncs(events) = 1..Len(events)
  BY <1>8, <1>10 DEF Syncs
<1> QED
  BY <1>8, <1>9, <1>11

\* The Registry a command may work with is named and, unless it is turned off,
\* has all its coordinates.
LEMMA ResolvedRegistry ==
    ASSUME NEW registry \in Resolved
    PROVE  /\ registry.profile \in {"production", "test"}
           /\ registry.coordinates \in [Coordinates -> Coordinate]
           /\ ~Disabled(registry) => \A c \in Coordinates : registry.coordinates[c] # ""
<1>1. PICK compiled \in Registry, environment \in SUBSET Coordinates :
         ValidateRegistry(compiled) /\ registry = ApplyRuntimeOverrides(compiled, environment)
  BY DEF Resolved
<1>2. /\ compiled.profile \in {"production", "test"}
      /\ compiled.coordinates \in [Coordinates -> {"", "embedded"}]
  BY DEF Registry
<1>3. CASE Disabled(compiled)
  BY <1>1, <1>2, <1>3 DEF ApplyRuntimeOverrides, Coordinate
<1>4. CASE ~Disabled(compiled)
  <2> DEFINE set == [c \in Coordinates |-> IF c \in environment THEN "environment"
                                           ELSE compiled.coordinates[c]]
  <2>1. registry = [compiled EXCEPT !.coordinates = set]
    BY <1>1, <1>4 DEF ApplyRuntimeOverrides
  <2>2. registry.coordinates = set /\ registry.profile = compiled.profile
    BY <2>1 DEF Registry
  <2>3. \A c \in Coordinates : compiled.coordinates[c] # ""
    BY <1>1, <1>4 DEF ValidateRegistry, Disabled
  <2>4. set \in [Coordinates -> Coordinate]
    BY <1>2 DEF Coordinate
  <2>5. \A c \in Coordinates : set[c] # ""
    BY <2>3
  <2> QED
    BY <1>2, <2>2, <2>4, <2>5
<1> QED
  BY <1>3, <1>4

\* What a binding of the State holds.
LEMMA BindingFields ==
    ASSUME NEW binding \in FewBindings
    PROVE  /\ binding.document_url \in Documents
           /\ binding.cli_log_document_url \in BOOLEAN
           /\ binding.registry \in Resolved
<1>1. \A b \in Bindings : b.registry \in Resolved /\ b.cli_log_document_url \in BOOLEAN
  BY DEF Bindings
<1>2. \E d \in Documents, b \in Bindings :
         binding = [document_url |-> d, registry |-> b.registry,
                    cli_log_document_url |-> b.cli_log_document_url]
  BY DEF FewBindings
<1> QED
  BY <1>1, <1>2

\* The error of the whole is that of the targets.
ErrorsAgree(codes, error) ==
    error = {<<t, codes[t]>> : t \in {t \in PublicTarget \ {Unspecified} : codes[t] # OK}}

FailWithin(codes, reached) ==
    \A t \in PublicTarget \ {Unspecified} : codes[t] # OK => t \in reached

\* What trace/config.json is after the first n Events of a history.
ConfigShows(binding, events, n, config) ==
    /\ config \in TraceConfig
    /\ config.trace_document_url = {binding.document_url}
    /\ config.registry = {binding.registry.coordinates}
    /\ config.registry_profile = {binding.registry.profile}
    /\ ErrorsAgree(config.target_last_sync_error, config.last_sync_error)
    /\ FailWithin(config.target_last_sync_error, Reached(binding))
    /\ \A t \in PublicTarget \ {Unspecified} :
          LET tries     == Attempts(events, t) \cap (1..n)
              successes == {i \in Attempts(events, t) : t \in Having(events[i], "succeeded")}
          IN  /\ config.target_last_sync_at[t] = LastOf(successes \cap (1..n))
              /\ config.target_last_sync_error[t] =
                    IF tries = {} THEN OK ELSE events[LastOf(tries)].targets[t].error

\* Before any sync trace/config.json shows the binding alone.
LEMMA BoundConfigShows ==
    ASSUME NEW binding \in FewBindings, NEW events, Syncs(events) \subseteq Nat \ {0}
    PROVE  ConfigShows(binding, events, 0, BoundConfig({binding}))
<1> DEFINE config == BoundConfig({binding})
           never == [t \in PublicTarget \ {Unspecified} |-> 0]
           none == [t \in PublicTarget \ {Unspecified} |-> OK]
           urls == {b.document_url : b \in {binding}}
           log == \E b \in {binding} : b.cli_log_document_url
           profiles == {b.registry.profile : b \in {binding}}
           tables == {b.registry.coordinates : b \in {binding}}
<1>1. /\ urls = {binding.document_url} /\ log = binding.cli_log_document_url
      /\ profiles = {binding.registry.profile} /\ tables = {binding.registry.coordinates}
  <2>1. log = binding.cli_log_document_url
    <3> HIDE DEF urls, profiles, tables
    <3> QED
      BY BindingFields
  <2> QED
    BY <2>1
<1>2. config = [[trace_document_url |-> {}, cli_log_document_url |-> FALSE,
                 registry_profile |-> {}, registry |-> {}, last_sync_at |-> 0,
                 last_sync_error |-> {}, target_last_sync_at |-> never,
                 target_last_sync_error |-> none]
                EXCEPT !.trace_document_url = urls, !.cli_log_document_url = log,
                       !.registry_profile = profiles, !.registry = tables]
  BY DEF BoundConfig, NoTraceConfig
<1> HIDE DEF config, never, urls, log, profiles, tables, none
<1>3. config = [trace_document_url |-> urls, cli_log_document_url |-> log,
                registry_profile |-> profiles, registry |-> tables, last_sync_at |-> 0,
                last_sync_error |-> {}, target_last_sync_at |-> never,
                target_last_sync_error |-> none]
  BY <1>2
<1>4. /\ config.trace_document_url = {binding.document_url}
      /\ config.cli_log_document_url = binding.cli_log_document_url
      /\ config.registry_profile = {binding.registry.profile}
      /\ config.registry = {binding.registry.coordinates}
      /\ config.last_sync_at = 0 /\ config.last_sync_error = {}
      /\ config.target_last_sync_at = [t \in PublicTarget \ {Unspecified} |-> 0]
      /\ config.target_last_sync_error = [t \in PublicTarget \ {Unspecified} |-> OK]
  BY <1>1, <1>3 DEF never, none
<1>5. config = [trace_document_url |-> config.trace_document_url,
                cli_log_document_url |-> config.cli_log_document_url,
                registry_profile |-> config.registry_profile, registry |-> config.registry,
                last_sync_at |-> config.last_sync_at,
                last_sync_error |-> config.last_sync_error,
                target_last_sync_at |-> config.target_last_sync_at,
                target_last_sync_error |-> config.target_last_sync_error]
  BY <1>3
<1>6. /\ binding.document_url \in DocumentText /\ binding.cli_log_document_url \in BOOLEAN
      /\ binding.registry.profile \in RegistryProfile
      /\ binding.registry.coordinates \in [Coordinates -> Coordinate]
  BY BindingFields, ResolvedRegistry DEF DocumentText, RegistryProfile
<1>7. config \in TraceConfig
  BY <1>4, <1>5, <1>6 DEF TraceConfig
<1>8. ASSUME NEW t \in PublicTarget \ {Unspecified}
      PROVE  /\ config.target_last_sync_error[t] = OK /\ config.target_last_sync_at[t] = 0
             /\ Attempts(events, t) \cap (1..0) = {}
             /\ LastOf({i \in Attempts(events, t) : t \in Having(events[i], "succeeded")}
                         \cap (1..0)) = 0
  <2>1. Attempts(events, t) \subseteq Nat \ {0}
    BY DEF Attempts
  <2> DEFINE successes == {i \in Attempts(events, t) : t \in Having(events[i], "succeeded")}
  <2>2. successes \subseteq Nat \ {0}
    BY <2>1
  <2> HIDE DEF successes
  <2>3. LastOf(successes \cap (1..0)) = 0
    BY <2>2, LastOfStep, 1 \in Nat \ {0}
  <2>4. config.target_last_sync_error[t] = OK /\ config.target_last_sync_at[t] = 0
    BY <1>4
  <2>5. Attempts(events, t) \cap (1..0) = {}
    BY <2>1
  <2> QED
    BY <2>3, <2>4, <2>5 DEF successes
<1>9. {t \in PublicTarget \ {Unspecified} : config.target_last_sync_error[t] # OK} = {}
  BY <1>8
<1>10. ErrorsAgree(config.target_last_sync_error, config.last_sync_error)
  BY <1>4, <1>9 DEF ErrorsAgree
<1>11. FailWithin(config.target_last_sync_error, Reached(binding))
  BY <1>8 DEF FailWithin
<1>12. ConfigShows(binding, events, 0, config)
  BY <1>4, <1>7, <1>8, <1>10, <1>11 DEF ConfigShows
<1> QED
  BY <1>12 DEF config

\* What a sync leaves in trace/config.json.
MomentsAfter(config, event, now) ==
    [t \in PublicTarget \ {Unspecified} |->
        IF t \in Having(event, "succeeded") THEN now ELSE config.target_last_sync_at[t]]

CodesAfter(config, event) ==
    [t \in PublicTarget \ {Unspecified} |->
        IF t \in Having(event, "succeeded") THEN OK
        ELSE IF t \in Having(event, "failed") THEN event.targets[t].error
        ELSE config.target_last_sync_error[t]]

ErrorAfter(config, event) ==
    IF event.outcome = "succeeded" THEN {}
    ELSE IF event.outcome = "partial"
    THEN {<<t, event.targets[t].error>> : t \in Having(event, "failed")}
    ELSE config.last_sync_error

MomentAfter(config, event, now) ==
    IF event.outcome = "succeeded" THEN now ELSE config.last_sync_at

\* ApplySync field by field.
LEMMA ApplySyncFields ==
    ASSUME NEW config \in TraceConfig, NEW event, NEW now
    PROVE  ApplySync(config, event, now) =
              [trace_document_url |-> config.trace_document_url,
               cli_log_document_url |-> config.cli_log_document_url,
               registry_profile |-> config.registry_profile,
               registry |-> config.registry,
               last_sync_at |-> MomentAfter(config, event, now),
               last_sync_error |-> ErrorAfter(config, event),
               target_last_sync_at |-> MomentsAfter(config, event, now),
               target_last_sync_error |-> CodesAfter(config, event)]
<1> DEFINE at == [t \in DOMAIN config.target_last_sync_at |->
                     IF t \in Having(event, "succeeded") THEN now
                     ELSE config.target_last_sync_at[t]]
           codes == [t \in DOMAIN config.target_last_sync_error |->
                        IF t \in Having(event, "succeeded") THEN OK
                        ELSE IF t \in Having(event, "failed") THEN event.targets[t].error
                        ELSE config.target_last_sync_error[t]]
           moment == IF event.outcome = "succeeded" THEN now ELSE config.last_sync_at
           error == CASE event.outcome = "succeeded" -> {}
                      [] event.outcome = "partial" ->
                            {<<t, event.targets[t].error>> : t \in Having(event, "failed")}
                      [] OTHER -> config.last_sync_error
<1>1. ApplySync(config, event, now) =
         [config EXCEPT !.target_last_sync_at = at, !.target_last_sync_error = codes,
                        !.last_sync_at = moment, !.last_sync_error = error]
  BY DEF ApplySync
<1>2. /\ DOMAIN config.target_last_sync_at = PublicTarget \ {Unspecified}
      /\ DOMAIN config.target_last_sync_error = PublicTarget \ {Unspecified}
  BY DEF TraceConfig
<1>3. at = MomentsAfter(config, event, now) /\ codes = CodesAfter(config, event)
  BY <1>2 DEF MomentsAfter, CodesAfter
<1>4. error = ErrorAfter(config, event) /\ moment = MomentAfter(config, event, now)
  BY DEF ErrorAfter, MomentAfter
<1> HIDE DEF at, codes, moment, error
<1>5. ApplySync(config, event, now) =
         [trace_document_url |-> config.trace_document_url,
          cli_log_document_url |-> config.cli_log_document_url,
          registry_profile |-> config.registry_profile, registry |-> config.registry,
          last_sync_at |-> moment, last_sync_error |-> error,
          target_last_sync_at |-> at, target_last_sync_error |-> codes]
  BY <1>1 DEF TraceConfig
<1> QED
  BY <1>3, <1>4, <1>5

\* The errors of the targets, and that of the whole, after a sync.
LEMMA ErrorsAfterSync ==
    ASSUME NEW event, NEW reached, OneSync(event, reached),
           NEW config \in TraceConfig,
           ErrorsAgree(config.target_last_sync_error, config.last_sync_error),
           FailWithin(config.target_last_sync_error, reached)
    PROVE  /\ CodesAfter(config, event) \in [PublicTarget \ {Unspecified} -> ErrorCode \cup {OK}]
           /\ ErrorAfter(config, event) \in SUBSET (PublicTarget \X ErrorCode)
           /\ FailWithin(CodesAfter(config, event), reached)
           /\ ErrorsAgree(CodesAfter(config, event), ErrorAfter(config, event))
<1> DEFINE named == PublicTarget \ {Unspecified}
           failed == Having(event, "failed")
           succeeded == Having(event, "succeeded")
           old == config.target_last_sync_error
           codes == CodesAfter(config, event)
           error == ErrorAfter(config, event)
           failing == {t \in named : codes[t] # OK}
<1>1. /\ failed \subseteq named /\ succeeded \subseteq named /\ failed \cap succeeded = {}
      /\ \A t \in failed : event.targets[t].error \in ErrorCode /\ event.targets[t].error # OK
  <2>1. \A answer \in TargetResults :
           answer.status = "failed" => answer.error \in ErrorCode /\ answer.error # OK
    BY DEF TargetResults, ErrorCodes, ErrorCode, OK
  <2>2. failed \subseteq DOMAIN event.targets /\ succeeded \subseteq DOMAIN event.targets
    BY DEF Having
  <2>3. failed \cap succeeded = {}
    BY DEF Having
  <2>4. \A t \in failed : event.targets[t] \in TargetResults /\ event.targets[t].status = "failed"
    BY DEF Having, OneSync
  <2>5. DOMAIN event.targets \subseteq named
    BY DEF OneSync
  <2> QED
    BY <2>1, <2>2, <2>3, <2>4, <2>5
<1>2. old \in [named -> ErrorCode \cup {OK}]
  BY DEF TraceConfig
<1>3. \/ event.outcome = "partial" /\ failed # {} /\ succeeded \cup failed = reached
      \/ event.outcome = "succeeded" /\ failed = {} /\ succeeded = reached
      \/ event.outcome = "skipped" /\ failed = {} /\ succeeded = {}
  BY DEF OneSync
<1>4. \A t \in named : codes[t] = IF t \in succeeded THEN OK
                                  ELSE IF t \in failed THEN event.targets[t].error ELSE old[t]
  BY DEF CodesAfter
<1>5. /\ \A t \in named : old[t] # OK => t \in reached
      /\ config.last_sync_error = {<<t, old[t]>> : t \in {t \in named : old[t] # OK}}
  BY DEF ErrorsAgree, FailWithin
<1> HIDE DEF named, failed, succeeded, old, codes, error
<1>6. codes \in [named -> ErrorCode \cup {OK}]
  <2>1. \A t \in named : codes[t] \in ErrorCode \cup {OK}
    BY <1>1, <1>2, <1>4
  <2>2. codes = [t \in named |-> codes[t]]
    BY DEF named, codes, CodesAfter
  <2> QED
    BY <2>1, <2>2
<1>7. \A t \in named : codes[t] # OK => t \in reached
  BY <1>1, <1>3, <1>4, <1>5
<1> DEFINE Right == /\ error \in SUBSET (PublicTarget \X ErrorCode)
                    /\ error = {<<t, codes[t]>> : t \in failing}
<1>8. ASSUME Right
      PROVE  /\ codes \in [PublicTarget \ {Unspecified} -> ErrorCode \cup {OK}]
             /\ error \in SUBSET (PublicTarget \X ErrorCode)
             /\ FailWithin(codes, reached) /\ ErrorsAgree(codes, error)
  BY <1>6, <1>7, <1>8 DEF FailWithin, ErrorsAgree, named
<1>9. ASSUME event.outcome = "succeeded"
      PROVE  Right
  <2>1. failing = {}
    BY <1>3, <1>4, <1>5, <1>9
  <2>2. error = {} /\ error = {<<t, codes[t]>> : t \in failing}
    BY <1>9, <2>1 DEF error, ErrorAfter
  <2> QED
    BY <2>2
<1>10. ASSUME event.outcome = "partial"
      PROVE  Right
  <2>1. failing = failed
    <3>1. \A t \in failing : t \in named /\ codes[t] # OK
      OBVIOUS
    <3>2. \A t \in named : codes[t] # OK => t \in failing
      BY DEF named
    <3>3. \A t \in failed : t \in named /\ codes[t] # OK
      BY <1>1, <1>4
    <3>4. \A t \in named : codes[t] # OK => t \in failed
      BY <1>3, <1>4, <1>7, <1>10
    <3> HIDE DEF failing
    <3> QED
      BY <3>1, <3>2, <3>3, <3>4
  <2>2. \A t \in failed : codes[t] = event.targets[t].error
    BY <1>1, <1>4
  <2>3. error = {<<t, event.targets[t].error>> : t \in failed}
    BY <1>10 DEF failed, error, ErrorAfter
  <2> HIDE DEF failing
  <2>4. error = {<<t, codes[t]>> : t \in failing}
    <3> DEFINE left(t) == <<t, event.targets[t].error>>
               right(t) == <<t, codes[t]>>
    <3>1. {left(t) : t \in failed} = {right(t) : t \in failed}
      <4>1. \A t \in failed : left(t) = right(t)
        BY <2>2
      <4> HIDE DEF left, right
      <4> QED
        BY <4>1
    <3> QED
      BY <2>1, <2>3, <3>1
  <2>5. failed \subseteq PublicTarget
    BY <1>1 DEF named
  <2>6. error \in SUBSET (PublicTarget \X ErrorCode)
    BY <1>1, <2>3, <2>5
  <2> QED
    BY <2>4, <2>6
<1>11. ASSUME event.outcome = "skipped"
      PROVE  Right
  <2>1. codes = old
    <3>1. \A t \in named : codes[t] = old[t]
      BY <1>3, <1>4, <1>11
    <3> QED
      BY <1>2, <1>6, <3>1
  <2>2. error = config.last_sync_error
    BY <1>11 DEF error, ErrorAfter
  <2>3. error \in SUBSET (PublicTarget \X ErrorCode)
    BY <2>2 DEF TraceConfig
  <2>4. error = {<<t, codes[t]>> : t \in failing}
    BY <1>5, <2>1, <2>2 DEF named
  <2> QED
    BY <2>3, <2>4
<1>12. Right
  <2> HIDE DEF Right
  <2> QED
    BY <1>3, <1>9, <1>10, <1>11
<1> QED
  BY <1>8, <1>12 DEF codes, error, Right

\* trace/config.json stays true with every sync.
LEMMA SyncConfigShows ==
    ASSUME NEW binding, NEW events, NEW n \in Nat \ {0}, n \in Syncs(events),
           Syncs(events) \subseteq Nat \ {0}, OneSync(events[n], Reached(binding)),
           NEW config, ConfigShows(binding, events, n - 1, config)
    PROVE  ConfigShows(binding, events, n, ApplySync(config, events[n], n))
<1> DEFINE named == PublicTarget \ {Unspecified}
           event == events[n]
           next == ApplySync(config, event, n)
           codes == CodesAfter(config, event)
           error == ErrorAfter(config, event)
           at == MomentsAfter(config, event, n)
           moment == MomentAfter(config, event, n)
<1>1. config \in TraceConfig /\ OneSync(event, Reached(binding))
  BY DEF ConfigShows
<1>2. next = [trace_document_url |-> config.trace_document_url,
              cli_log_document_url |-> config.cli_log_document_url,
              registry_profile |-> config.registry_profile, registry |-> config.registry,
              last_sync_at |-> moment, last_sync_error |-> error,
              target_last_sync_at |-> at, target_last_sync_error |-> codes]
  BY <1>1, ApplySyncFields
<1>3. /\ ErrorsAgree(config.target_last_sync_error, config.last_sync_error)
      /\ FailWithin(config.target_last_sync_error, Reached(binding))
  BY DEF ConfigShows
<1>4. /\ codes \in [named -> ErrorCode \cup {OK}]
      /\ error \in SUBSET (PublicTarget \X ErrorCode)
      /\ FailWithin(codes, Reached(binding)) /\ ErrorsAgree(codes, error)
  <2> HIDE DEF event
  <2> QED
    BY <1>1, <1>3, ErrorsAfterSync
<1> HIDE DEF event, next, codes, error, at, moment, named
<1>5. /\ next.target_last_sync_error = codes /\ next.last_sync_error = error
      /\ next.target_last_sync_at = at
  BY <1>2
<1>6. next \in TraceConfig
  <2>1. /\ config.trace_document_url \in SUBSET DocumentText
        /\ config.cli_log_document_url \in BOOLEAN
        /\ config.registry_profile \in SUBSET RegistryProfile
        /\ config.registry \in SUBSET [Coordinates -> Coordinate]
        /\ config.last_sync_at \in Nat
        /\ config.target_last_sync_at \in [named -> Nat]
    BY <1>1 DEF TraceConfig, named
  <2>2. moment \in Nat
    BY <2>1 DEF moment, MomentAfter
  <2>3. at \in [named -> Nat]
    BY <2>1 DEF at, MomentsAfter, named
  <2> QED
    BY <1>2, <1>4, <2>1, <2>2, <2>3 DEF TraceConfig, named
<1>7. /\ next.trace_document_url = {binding.document_url}
      /\ next.registry = {binding.registry.coordinates}
      /\ next.registry_profile = {binding.registry.profile}
  BY <1>2 DEF ConfigShows
<1>8. ASSUME NEW t \in named
      PROVE  LET tries     == Attempts(events, t) \cap (1..n)
                 successes == {i \in Attempts(events, t) : t \in Having(events[i], "succeeded")}
             IN  /\ next.target_last_sync_at[t] = LastOf(successes \cap (1..n))
                 /\ next.target_last_sync_error[t] =
                       IF tries = {} THEN OK ELSE events[LastOf(tries)].targets[t].error
  <2> DEFINE attempts == Attempts(events, t)
             successes == {i \in attempts : t \in Having(events[i], "succeeded")}
  <2>1. attempts \subseteq Nat \ {0} /\ successes \subseteq Nat \ {0}
    BY DEF Attempts
  <2>2. /\ n \in attempts <=> t \in Having(event, "succeeded") \cup Having(event, "failed")
        /\ n \in successes <=> t \in Having(event, "succeeded")
    BY DEF Attempts, event
  <2>3. /\ config.target_last_sync_at[t] = LastOf(successes \cap (1..(n - 1)))
        /\ config.target_last_sync_error[t] =
              IF attempts \cap (1..(n - 1)) = {} THEN OK
              ELSE events[LastOf(attempts \cap (1..(n - 1)))].targets[t].error
    BY DEF ConfigShows, named
  <2>4. t \in Having(event, "succeeded") => event.targets[t].error = OK
    <3>1. \A answer \in TargetResults : answer.status = "succeeded" => answer.error = OK
      BY DEF TargetResults
    <3> QED
      BY <1>1, <3>1 DEF Having, OneSync
  <2>5. /\ next.target_last_sync_at[t] = IF t \in Having(event, "succeeded") THEN n
                                         ELSE config.target_last_sync_at[t]
        /\ next.target_last_sync_error[t] =
              IF t \in Having(event, "succeeded") \cup Having(event, "failed")
              THEN event.targets[t].error ELSE config.target_last_sync_error[t]
    BY <1>5, <2>4 DEF at, codes, MomentsAfter, CodesAfter, named
  <2> HIDE DEF attempts, successes
  <2>6. next.target_last_sync_at[t] = LastOf(successes \cap (1..n))
    BY <2>1, <2>2, <2>3, <2>5, LastOfStep
  <2>7. CASE n \in attempts
    <3>1. LastOf(attempts \cap (1..n)) = n
      BY <2>1, <2>7, LastOfStep
    <3>2. attempts \cap (1..n) # {}
      BY <2>7
    <3>3. next.target_last_sync_error[t] = events[n].targets[t].error
      BY <2>2, <2>5, <2>7 DEF event
    <3> QED
      BY <2>6, <3>1, <3>2, <3>3 DEF attempts, successes
  <2>8. CASE n \notin attempts
    <3>1. attempts \cap (1..n) = attempts \cap (1..(n - 1))
      BY <2>8
    <3>2. next.target_last_sync_error[t] = config.target_last_sync_error[t]
      BY <2>2, <2>5, <2>8
    <3> QED
      BY <2>3, <2>6, <3>1, <3>2 DEF attempts, successes
  <2> QED
    BY <2>7, <2>8
<1>9. ConfigShows(binding, events, n, next)
  BY <1>4, <1>5, <1>6, <1>7, <1>8 DEF ConfigShows, named
<1> QED
  BY <1>9 DEF next, event
\* Folded over a history, trace/config.json shows all of it; the last sync is the
\* one that `trace status` finds.
LEMMA ConfigFolded ==
    ASSUME NEW binding \in FewBindings, NEW events \in Histories(binding)
    PROVE  \E config :
              /\ config \in RenderTraceConfig({binding}, events)
              /\ ConfigShows(binding, events, Len(events), config)
              /\ Len(events) > 0 =>
                    \E before \in TraceConfig :
                       config = ApplySync(before, events[Len(events)], Len(events))
<1>1. /\ Len(events) \in Nat /\ Syncs(events) = 1..Len(events)
      /\ \A i \in 1..Len(events) : OneSync(events[i], Reached(binding))
  BY HistorySyncs
<1> DEFINE last == Len(events)
<1>2. PICK after :
         /\ after[0] = BoundConfig({binding})
         /\ \A n \in 1..last :
               after[n] = IF n \in Syncs(events) THEN ApplySync(after[n - 1], events[n], n)
                          ELSE after[n - 1]
         /\ RenderTraceConfig({binding}, events) =
               {c \in {after[last]} :
                   ({binding} # {} \/ Syncs(events) # {}) /\ TraceConfigIsValid(c)}
  BY <1>1, Folded, Zenon
<1>3. Syncs(events) \subseteq Nat \ {0}
  BY <1>1
<1> HIDE DEF last
<1>4. last \in Nat /\ Syncs(events) = 1..last
  BY <1>1 DEF last
<1>5. \A n \in 1..last : after[n] = ApplySync(after[n - 1], events[n], n)
  BY <1>2, <1>4
<1> DEFINE wrong == {n \in 0..last : ~ConfigShows(binding, events, n, after[n])}
<1>6. 0 \notin wrong
  BY <1>2, <1>3, BoundConfigShows
<1>7. ASSUME NEW n \in 1..last, n - 1 \notin wrong
      PROVE  n \notin wrong
  <2>1. ConfigShows(binding, events, n - 1, after[n - 1])
    BY <1>4, <1>7
  <2>2. n \in Nat \ {0} /\ n \in Syncs(events) /\ OneSync(events[n], Reached(binding))
    BY <1>1, <1>4 DEF last
  <2>3. ConfigShows(binding, events, n, ApplySync(after[n - 1], events[n], n))
    BY <1>3, <2>1, <2>2, SyncConfigShows
  <2> QED
    BY <1>5, <2>3
<1>8. wrong = {}
  <2> SUFFICES ASSUME wrong # {} PROVE FALSE
    OBVIOUS
  <2>1. wrong \subseteq 0..last
    OBVIOUS
  <2> HIDE DEF wrong
  <2>2. wrong \subseteq Nat
    BY <1>4, <2>1
  <2>3. PICK n \in wrong : \A m \in wrong : n <= m
    BY <2>2, LeastNatural
  <2>4. n \in 1..last
    BY <1>4, <1>6, <2>1, <2>3
  <2>5. n - 1 \notin wrong
    BY <1>4, <2>3, <2>4
  <2> QED
    BY <1>7, <2>3, <2>4, <2>5
<1>9. \A n \in 0..last : ConfigShows(binding, events, n, after[n])
  BY <1>8
<1> HIDE DEF wrong
<1>10. ConfigShows(binding, events, last, after[last])
  BY <1>4, <1>9
<1>11. TraceConfigIsValid(after[last])
  <2>1. after[last].registry_profile = {binding.registry.profile}
    BY <1>10 DEF ConfigShows
  <2>2. binding.registry.profile \in {"production", "test"}
    BY BindingFields, ResolvedRegistry
  <2> QED
    BY <2>1, <2>2 DEF TraceConfigIsValid, Defined, RegistryProfile, Unspecified
<1>12. after[last] \in RenderTraceConfig({binding}, events)
  BY <1>2, <1>11
<1>13. last > 0 => \E before \in TraceConfig : after[last] = ApplySync(before, events[last], last)
  <2> SUFFICES ASSUME last > 0
               PROVE  \E before \in TraceConfig : after[last] = ApplySync(before, events[last], last)
    OBVIOUS
  <2>1. last - 1 \in 0..last /\ last \in 1..last
    BY <1>4
  <2>2. after[last - 1] \in TraceConfig
    BY <1>9, <2>1 DEF ConfigShows
  <2> QED
    BY <1>5, <2>1, <2>2
<1> QED
  BY <1>10, <1>12, <1>13 DEF last

\* The errors of a last sync that `trace status` shows are those in trace/config.json.
LEMMA TargetsShown ==
    ASSUME NEW event, NEW reached, OneSync(event, reached)
    PROVE  /\ PublicTargets(event.targets) \in SUBSET PublicTargetResult
           /\ \A result \in PublicTargets(event.targets) : PublicTargetResultIsValid(result)
           /\ {<<r.target, (CHOOSE e \in r.error : TRUE).code>> :
                  r \in {r \in PublicTargets(event.targets) : r.status = "failed"}}
                = {<<t, event.targets[t].error>> : t \in Having(event, "failed")}
<1> DEFINE targets == event.targets
           shown(t) == {[code |-> code] : code \in Optional(targets[t].error, OK)}
           row(t) == [target |-> t, status |-> targets[t].status, error |-> shown(t)]
<1>1. PublicTargets(targets) = {row(t) : t \in DOMAIN targets}
  BY DEF PublicTargets
<1>2. \A t \in DOMAIN targets :
         /\ t \in PublicTarget \ {Unspecified}
         /\ targets[t].status \in PublicTargetStatus \ {Unspecified}
         /\ targets[t].error \in ErrorCode \cup {OK}
         /\ targets[t].error = OK <=> targets[t].status # "failed"
  <2>1. \A answer \in TargetResults :
           /\ answer.status \in PublicTargetStatus \ {Unspecified}
           /\ answer.error \in ErrorCode \cup {OK}
           /\ answer.error = OK <=> answer.status # "failed"
    BY DEF TargetResults, PublicTargetStatus, Unspecified, ErrorCode, ErrorCodes, OK
  <2> QED
    BY <2>1 DEF OneSync
<1>3. OK \notin ErrorCode /\ Unspecified \notin ErrorCode
  BY DEF ErrorCode, OK, Unspecified
<1>4. ASSUME NEW t \in DOMAIN targets
      PROVE  /\ shown(t) \in SUBSET PublicTargetError
             /\ \A error \in shown(t) : PublicTargetErrorIsValid(error)
             /\ targets[t].status = "failed" =>
                   (CHOOSE e \in shown(t) : TRUE).code = targets[t].error
  <2>1. CASE targets[t].error = OK
    <3>1. shown(t) = {}
      BY <2>1 DEF Optional
    <3> HIDE DEF shown
    <3> QED
      BY <1>2, <2>1, <3>1
  <2>2. CASE targets[t].error # OK
    <3>1. shown(t) = {[code |-> targets[t].error]}
      BY <2>2 DEF Optional
    <3>2. targets[t].error \in ErrorCode \ {Unspecified}
      BY <1>2, <1>3, <2>2
    <3> HIDE DEF shown
    <3>3. shown(t) \in SUBSET PublicTargetError
      BY <3>1, <3>2 DEF PublicTargetError
    <3>4. \A error \in shown(t) : PublicTargetErrorIsValid(error)
      BY <3>1, <3>2 DEF PublicTargetErrorIsValid, Defined
    <3>5. (CHOOSE e \in shown(t) : TRUE) \in shown(t)
      BY <3>1
    <3>6. \A e \in shown(t) : e.code = targets[t].error
      BY <3>1
    <3>7. (CHOOSE e \in shown(t) : TRUE).code = targets[t].error
      BY <3>5, <3>6
    <3> QED
      BY <3>3, <3>4, <3>7
  <2> QED
    BY <2>1, <2>2
<1>5. \A t : row(t).target = t /\ row(t).status = targets[t].status /\ row(t).error = shown(t)
  OBVIOUS
<1> HIDE DEF shown
<1>6. \A t \in DOMAIN targets :
         row(t) \in PublicTargetResult /\ PublicTargetResultIsValid(row(t))
  BY <1>2, <1>4 DEF PublicTargetResult, PublicTargetResultIsValid, Defined
<1> DEFINE failure(r) == <<r.target, (CHOOSE e \in r.error : TRUE).code>>
           pair(t) == <<t, targets[t].error>>
<1>7. \A t \in Having(event, "failed") : failure(row(t)) = pair(t)
  <2>1. \A t \in Having(event, "failed") : t \in DOMAIN targets /\ targets[t].status = "failed"
    BY DEF Having
  <2> HIDE DEF row
  <2> QED
    BY <1>4, <1>5, <2>1
<1>8. {r \in PublicTargets(targets) : r.status = "failed"}
         = {row(t) : t \in Having(event, "failed")}
  <2>1. \A t : t \in Having(event, "failed") <=>
               t \in DOMAIN targets /\ targets[t].status = "failed"
    BY DEF Having
  <2> HIDE DEF row, targets
  <2> QED
    BY <1>1, <1>5, <2>1
<1> HIDE DEF row, failure, pair
<1>9. {failure(r) : r \in {row(t) : t \in Having(event, "failed")}}
         = {pair(t) : t \in Having(event, "failed")}
  BY <1>7
<1>10. {failure(r) : r \in {r \in PublicTargets(targets) : r.status = "failed"}}
          = {pair(t) : t \in Having(event, "failed")}
  BY <1>8, <1>9
<1>11. /\ PublicTargets(targets) \in SUBSET PublicTargetResult
       /\ \A result \in PublicTargets(targets) : PublicTargetResultIsValid(result)
  BY <1>1, <1>6
<1> QED
  BY <1>10, <1>11 DEF failure, pair

\* `trace status` of a bound Requirement.
LEMMA StatusShown ==
    ASSUME NEW binding \in FewBindings, NEW events \in Histories(binding)
    PROVE  LET status == StatusOfTrace({binding}, events) IN
           /\ status \in TraceStatusResponse
           /\ status.document_url = {binding.document_url}
           /\ {r.coordinates : r \in status.registry} = {binding.registry.coordinates}
           /\ ~Disabled(binding.registry) => TraceStatusResponseIsValid(status)
           /\ \A sync \in status.last_sync :
                 /\ Len(events) > 0
                 /\ OneSync(events[Len(events)], Reached(binding))
                 /\ sync = [occurred_at |-> Len(events), outcome |-> events[Len(events)].outcome,
                            targets |-> PublicTargets(events[Len(events)].targets)]
<1> DEFINE status == StatusOfTrace({binding}, events)
           last == Len(events)
           entry(b) == [profile |-> b.registry.profile, coordinates |-> b.registry.coordinates]
           shown(i) == [occurred_at |-> i, outcome |-> events[i].outcome,
                        targets |-> PublicTargets(events[i].targets)]
<1>1. /\ last \in Nat /\ Syncs(events) = 1..last
      /\ \A i \in 1..last : OneSync(events[i], Reached(binding))
  BY HistorySyncs
<1> HIDE DEF last
<1>2. status = [document_url |-> {b.document_url : b \in {binding}},
                registry |-> {entry(b) : b \in {binding}}, event_count |-> last,
                last_sync |-> LatestSync(events),
                cli_log_document_url |-> \E b \in {binding} : b.cli_log_document_url]
  BY DEF StatusOfTrace, last
<1>3. {b.document_url : b \in {binding}} = {binding.document_url}
  OBVIOUS
<1>4. {entry(b) : b \in {binding}} = {entry(binding)}
  <2> HIDE DEF entry
  <2> QED
    OBVIOUS
<1>5. LatestSync(events) = {shown(i) : i \in {i \in 1..last : \A j \in 1..last : j <= i}}
  BY <1>1 DEF LatestSync
<1>6. \A i \in {i \in 1..last : \A j \in 1..last : j <= i} : last > 0 /\ i = last
  BY <1>1
<1>7. ASSUME NEW sync \in LatestSync(events)
      PROVE  last > 0 /\ sync = shown(last)
  <2> HIDE DEF shown
  <2> QED
    BY <1>5, <1>6
<1>8. ASSUME NEW sync \in LatestSync(events)
      PROVE  /\ sync \in TraceLastSync /\ TraceLastSyncIsValid(sync)
             /\ OneSync(events[last], Reached(binding))
  <2>1. last > 0 /\ sync = shown(last) /\ OneSync(events[last], Reached(binding))
    BY <1>1, <1>7
  <2>2. events[last].outcome \in PublicSyncOutcome \ {Unspecified}
    BY <2>1 DEF OneSync, PublicSyncOutcome, Unspecified
  <2>3. PublicTargets(events[last].targets) \in SUBSET PublicTargetResult
    BY <2>1, TargetsShown
  <2> QED
    BY <1>1, <2>1, <2>2, <2>3 DEF TraceLastSync, TraceLastSyncIsValid, Defined
<1> HIDE DEF status, shown, entry
<1>9. /\ status.document_url = {binding.document_url}
      /\ status.registry = {entry(binding)} /\ status.event_count = last
      /\ status.last_sync = LatestSync(events)
      /\ status = [document_url |-> {binding.document_url}, registry |-> {entry(binding)},
                   event_count |-> last, last_sync |-> LatestSync(events),
                   cli_log_document_url |-> status.cli_log_document_url]
  BY <1>2, <1>3, <1>4
<1>10. status.cli_log_document_url \in BOOLEAN
  BY <1>2
<1>11. /\ entry(binding) \in TraceRegistry /\ entry(binding).coordinates = binding.registry.coordinates
       /\ ~Disabled(binding.registry) => TraceRegistryIsValid(entry(binding))
  <2>1. /\ binding.registry.profile \in {"production", "test"}
        /\ binding.registry.coordinates \in [Coordinates -> Coordinate]
        /\ ~Disabled(binding.registry) =>
              \A c \in Coordinates : binding.registry.coordinates[c] # ""
    BY BindingFields, ResolvedRegistry
  <2> QED
    BY <2>1 DEF entry, TraceRegistry, TraceRegistryIsValid
<1>12. status \in TraceStatusResponse
  <2>1. binding.document_url \in DocumentText
    BY BindingFields DEF DocumentText
  <2>2. LatestSync(events) \in SUBSET TraceLastSync
    BY <1>8
  <2>3. last \in Int
    BY <1>1
  <2> QED
    BY <1>9, <1>10, <1>11, <2>1, <2>2, <2>3 DEF TraceStatusResponse
<1>13. ~Disabled(binding.registry) => TraceStatusResponseIsValid(status)
  BY <1>1, <1>8, <1>9, <1>11 DEF TraceStatusResponseIsValid
<1>14. {r.coordinates : r \in status.registry} = {binding.registry.coordinates}
  BY <1>9, <1>11
<1>15. \A sync \in status.last_sync :
          last > 0 /\ OneSync(events[last], Reached(binding)) /\ sync = shown(last)
  BY <1>7, <1>8, <1>9
<1> QED
  BY <1>9, <1>12, <1>13, <1>14, <1>15 DEF status, last, shown

\* What a sync that `trace status` finds last says of trace/config.json.
LEMMA LastSyncShown ==
    ASSUME NEW before \in TraceConfig, NEW event, NEW now, NEW reached,
           OneSync(event, reached)
    PROVE  LET config == ApplySync(before, event, now) IN
           /\ event.outcome = "succeeded" =>
                 config.last_sync_at = now /\ config.last_sync_error = {}
           /\ event.outcome # "skipped" =>
                 config.last_sync_error =
                    {<<t, event.targets[t].error>> : t \in Having(event, "failed")}
<1> DEFINE config == ApplySync(before, event, now)
<1>1. /\ config.last_sync_error = ErrorAfter(before, event)
      /\ config.last_sync_at = MomentAfter(before, event, now)
  <2> DEFINE error == ErrorAfter(before, event)
             moment == MomentAfter(before, event, now)
             at == MomentsAfter(before, event, now)
             codes == CodesAfter(before, event)
  <2>1. config = [trace_document_url |-> before.trace_document_url,
                  cli_log_document_url |-> before.cli_log_document_url,
                  registry_profile |-> before.registry_profile,
                  registry |-> before.registry,
                  last_sync_at |-> moment, last_sync_error |-> error,
                  target_last_sync_at |-> at, target_last_sync_error |-> codes]
    BY ApplySyncFields
  <2> HIDE DEF error, moment, at, codes, config
  <2>2. config.last_sync_error = error /\ config.last_sync_at = moment
    BY <2>1
  <2> QED
    BY <2>2 DEF error, moment
<1> HIDE DEF config
<1> SUFFICES /\ event.outcome = "succeeded" =>
                   config.last_sync_at = now /\ config.last_sync_error = {}
             /\ event.outcome # "skipped" =>
                   config.last_sync_error =
                      {<<t, event.targets[t].error>> : t \in Having(event, "failed")}
  BY DEF config
<1>2. CASE event.outcome = "succeeded"
  <2>1. config.last_sync_error = {} /\ config.last_sync_at = now
    BY <1>1, <1>2 DEF ErrorAfter, MomentAfter
  <2>2. Having(event, "failed") = {}
    BY <1>2 DEF OneSync
  <2> QED
    BY <2>1, <2>2
<1>3. CASE event.outcome = "partial"
  BY <1>1, <1>3 DEF ErrorAfter
<1>4. CASE event.outcome = "skipped"
  BY <1>4
<1> QED
  BY <1>2, <1>3, <1>4 DEF OneSync

\* Over any bounded history of syncs the two readers agree.
LEMMA HistoriesAgree ==
    ASSUME NEW binding \in FewBindings, NEW events \in Histories(binding)
    PROVE  LET status == StatusOfTrace({binding}, events) IN
           \E config \in RenderTraceConfig({binding}, events) :
              /\ \A t \in PublicTarget \ {Unspecified} : TargetShownRight(config, events, t)
              /\ config.last_sync_error =
                    {<<t, config.target_last_sync_error[t]>> :
                        t \in {t \in PublicTarget \ {Unspecified} :
                                  config.target_last_sync_error[t] # OK}}
              /\ \A sync \in status.last_sync :
                    /\ sync.outcome = "succeeded" =>
                          config.last_sync_at = sync.occurred_at /\ config.last_sync_error = {}
                    /\ sync.outcome # "skipped" =>
                          config.last_sync_error =
                             {<<r.target, (CHOOSE e \in r.error : TRUE).code>> :
                                 r \in {r \in sync.targets : r.status = "failed"}}
              /\ config.registry = {r.coordinates : r \in status.registry}
              /\ config.trace_document_url = status.document_url
              /\ config \in TraceConfig /\ status \in TraceStatusResponse
              /\ ~Disabled(binding.registry) => TraceStatusResponseIsValid(status)
              /\ \A sync \in status.last_sync : \A result \in sync.targets :
                    PublicTargetResultIsValid(result)
              /\ TraceRenderResponseIsValid(RenderResponse(events))
<1> DEFINE status == StatusOfTrace({binding}, events)
           last == Len(events)
           event == events[last]
           reached == Reached(binding)
           shown == [occurred_at |-> last, outcome |-> event.outcome,
                     targets |-> PublicTargets(event.targets)]
<1>1. PICK config :
         /\ config \in RenderTraceConfig({binding}, events)
         /\ ConfigShows(binding, events, last, config)
         /\ last > 0 => \E before \in TraceConfig : config = ApplySync(before, event, last)
  BY ConfigFolded, Zenon
<1>2. /\ status \in TraceStatusResponse
      /\ status.document_url = {binding.document_url}
      /\ {r.coordinates : r \in status.registry} = {binding.registry.coordinates}
      /\ ~Disabled(binding.registry) => TraceStatusResponseIsValid(status)
      /\ \A sync \in status.last_sync : last > 0 /\ OneSync(event, reached) /\ sync = shown
  BY StatusShown, Zenon
<1>3. last \in Nat /\ Syncs(events) = 1..last
  BY HistorySyncs
<1>4. TraceRenderResponseIsValid(RenderResponse(events))
  BY <1>3 DEF TraceRenderResponseIsValid, RenderResponse
<1> HIDE DEF status, last, reached
<1>5. ASSUME NEW t \in PublicTarget \ {Unspecified}
      PROVE  TargetShownRight(config, events, t)
  <2> DEFINE tries == Attempts(events, t)
             successes == {i \in tries : t \in Having(events[i], "succeeded")}
  <2>1. /\ config.target_last_sync_at[t] = LastOf(successes \cap (1..last))
        /\ config.target_last_sync_error[t] =
              IF tries \cap (1..last) = {} THEN OK
              ELSE events[LastOf(tries \cap (1..last))].targets[t].error
    BY <1>1 DEF ConfigShows
  <2>2. tries \subseteq 1..last
    BY <1>3 DEF Attempts
  <2>3. tries \cap (1..last) = tries /\ successes \cap (1..last) = successes
    <3> HIDE DEF tries
    <3> QED
      BY <2>2
  <2> QED
    BY <2>1, <2>3 DEF TargetShownRight
<1>6. config.last_sync_error =
         {<<t, config.target_last_sync_error[t]>> :
             t \in {t \in PublicTarget \ {Unspecified} : config.target_last_sync_error[t] # OK}}
  BY <1>1 DEF ConfigShows, ErrorsAgree
<1> DEFINE failures(targets) ==
              {<<r.target, (CHOOSE e \in r.error : TRUE).code>> :
                  r \in {r \in targets : r.status = "failed"}}
<1>7. ASSUME NEW sync \in status.last_sync
      PROVE  /\ sync.outcome = "succeeded" =>
                   config.last_sync_at = sync.occurred_at /\ config.last_sync_error = {}
             /\ sync.outcome # "skipped" => config.last_sync_error = failures(sync.targets)
             /\ \A result \in sync.targets : PublicTargetResultIsValid(result)
  <2>1. last > 0 /\ OneSync(event, reached) /\ sync = shown
    BY <1>2
  <2>2. PICK before \in TraceConfig : config = ApplySync(before, event, last)
    BY <1>1, <2>1
  <2> HIDE DEF event
  <2>3. /\ event.outcome = "succeeded" =>
              config.last_sync_at = last /\ config.last_sync_error = {}
        /\ event.outcome # "skipped" =>
              config.last_sync_error =
                 {<<t, event.targets[t].error>> : t \in Having(event, "failed")}
    BY <2>1, <2>2, LastSyncShown
  <2>4. /\ \A result \in PublicTargets(event.targets) : PublicTargetResultIsValid(result)
        /\ failures(PublicTargets(event.targets))
              = {<<t, event.targets[t].error>> : t \in Having(event, "failed")}
    BY <2>1, TargetsShown
  <2> HIDE DEF failures
  <2> QED
    BY <2>1, <2>3, <2>4
<1>8. /\ config.registry = {r.coordinates : r \in status.registry}
      /\ config.trace_document_url = status.document_url
      /\ config \in TraceConfig
  BY <1>1, <1>2 DEF ConfigShows
<1> HIDE DEF failures, event, shown
<1>9. /\ \A sync \in status.last_sync :
            /\ sync.outcome = "succeeded" =>
                  config.last_sync_at = sync.occurred_at /\ config.last_sync_error = {}
            /\ sync.outcome # "skipped" => config.last_sync_error = failures(sync.targets)
      /\ \A sync \in status.last_sync : \A result \in sync.targets :
            PublicTargetResultIsValid(result)
  BY <1>7
<1> QED
  BY <1>1, <1>2, <1>4, <1>5, <1>6, <1>8, <1>9, Zenon DEF status, failures

\* SyncViewsAgree speaks of no State: it holds always.
LEMMA SyncViews == SyncViewsAgree
<1>1. ASSUME NEW request \in TraceBindRequest, NEW registry \in Resolved,
             BindRequestRefusal(request, registry) = OK
      PROVE  [registry |-> registry, cli_log_document_url |-> request.cli_log_document_url]
                \in Bindings
  <2>1. registry.require_cli_log_document = request.cli_log_document_url
    BY <1>1 DEF BindRequestRefusal, OK
  <2>2. request.cli_log_document_url \in BOOLEAN
    BY DEF TraceBindRequest
  <2> QED
    BY <2>1, <2>2 DEF Bindings
<1>2. \A code \in LarkReplies, fallback \in DOMAIN ErrorCodes :
         LarkFailure(code, fallback) \in DOMAIN ErrorCodes
  BY DEF LarkFailure, ErrorCodes
<1> QED
  BY <1>1, <1>2, HistoriesAgree, Zenon DEF SyncViewsAgree

\* Every reader of the Trace is told the same story, that of the commits: the
\* State, the last sync and the rows of the log, whatever failed in which order.
THEOREM TraceToldTruly == Spec => []TraceViewsAgree
<1>1. IInv => TraceViewsAgree
  BY SyncViews, StateViews, CommitViews DEF TraceViewsAgree
<1> QED
  BY <1>1, InvariantInductive, PTL

-----------------------------------------------------------------------------
(* The panorama (module WorkflowView)                                      *)

\* Where a business report may lead when each Flow Route leads to the next Step.
LEMMA StepwiseRoutes ==
    ASSUME OneStepAtATime, NEW event, SelectsOneRoute(Definition, event),
           event.from \in Step, event.effect \in {"advanced", "looped", "completed"},
           event.effect = "completed" <=> event.to = Nil
    PROVE  /\ event.effect = "advanced" => event.to = event.from + 1
           /\ event.effect = "completed" => event.from = Definition.steps
           /\ event.effect = "looped" => event.to <= event.from
<1> DEFINE routes == IF event.effect = "looped" THEN Definition.loops[event.from]
                     ELSE Definition.flows[event.from]
           ids == {event.results[i].id : i \in DOMAIN event.results}
<1>1. PICK i \in DOMAIN routes : i \in Matching(routes, event.to, ids)
  BY DEF SelectsOneRoute, Controls
<1>2. routes[i].to = event.to
  BY <1>1 DEF Matching, Available
<1>3. event.from \in Nat /\ Definition.steps \in Nat
  BY BundleFacts, BundleAssumption DEF IsBundle
<1>4. CASE event.effect = "looped"
  <2>1. routes[i].to \in 1..event.from
    BY <1>1, <1>4, BundleAssumption DEF ValidBundle, ValidLoops, Step
  <2> QED
    BY <1>2, <1>3, <1>4, <2>1
<1>5. CASE event.effect # "looped"
  <2>1. routes[i].to = IF event.from = Definition.steps THEN Terminal ELSE event.from + 1
    BY <1>1, <1>5 DEF OneStepAtATime
  <2> QED
    BY <1>2, <1>3, <1>5, <2>1 DEF Terminal, Nil
<1> QED
  BY <1>4, <1>5

\* A Step that the position has left behind.
Behind(s) == current.step = Nil \/ s < current.step

\* The inductive invariant: an Output belongs to the Step that produced it, and a
\* Step left behind has one unless a Jump has skipped it.
WorkLeft ==
    /\ \A k \in Keys(Definition) : Registered(k) =>
          \E c \in RelevantConditionIDs(Definition, current.outputs[k].producer) :
             Definition.key[c] = k
    /\ initialized =>
          \A s \in Step : Behind(s) /\ s \notin current.skipped =>
             \E k \in Keys(Definition) : current.outputs[k].producer = s

\* What a committed report registers belongs to its Step, and a business report
\* registers something.
LEMMA ReportRegisters ==
    ASSUME IInv, NEW request \in Requests, Committed(request)
    PROVE  LET payload == ResultPayload(Definition, current, request)
               accepted == AcceptedKeys(Definition, payload.effect, request.results) IN
           /\ accepted \subseteq Keys(Definition)
           /\ \A k \in accepted :
                 \E c \in RelevantConditionIDs(Definition, current.step) : Definition.key[c] = k
           /\ payload.effect \notin Controls => accepted # {}
<1> DEFINE payload == ResultPayload(Definition, current, request)
           results == request.results
           effect == payload.effect
<1>1. CASE effect \in Controls
  BY <1>1 DEF AcceptedKeys
<1>2. CASE effect \notin Controls
  <2>1. ~IsControl(request)
    BY <1>2 DEF IsControl, ResultPayload, Effect, Controls
  <2>2. /\ SoundResults(current.step, payload.results)
        /\ ValidNewEvent(Definition, payload)
        /\ current.step \in Step
    BY <2>1, AcceptedBusiness DEF Committed
  <2>3. payload.kind = "flow.result" /\ payload.results = results
    BY DEF ResultPayload
  <2>4. results # << >>
    BY <2>2, <2>3 DEF ValidNewEvent, WellFormedResult
  <2>5. results \in Seq(Reportable)
    BY RequestTypes
  <2>6. \A i \in DOMAIN results :
           /\ results[i].id \in RelevantConditionIDs(Definition, current.step)
           /\ results[i].id \in Definition.conditions
    BY <2>2, <2>3, BundleFacts DEF SoundResults
  <2> HIDE DEF payload, results
  <2>7. AcceptedKeys(Definition, effect, results)
           = {Definition.key[results[i].id] : i \in DOMAIN results}
    BY <1>2 DEF AcceptedKeys
  <2>8. 1 \in DOMAIN results
    BY <2>4, <2>5
  <2> QED
    BY <2>6, <2>7, <2>8 DEF Keys, payload, results
<1> QED
  BY <1>1, <1>2

\* The skipped Steps after a committed report.
LEMMA SkippedMove ==
    ASSUME IInv, NEW request \in Requests, Committed(request)
    PROVE  LET payload == ResultPayload(Definition, current, request) IN
           current'.skipped = IF payload.effect = "jumped"
                              THEN JumpedSkippedSteps(current.skipped, current.step, payload.to)
                              ELSE current.skipped
<1> DEFINE payload == ResultPayload(Definition, current, request)
<1>1. payload.from = current.step
  BY AcceptedControl, AcceptedBusiness DEF Committed
<1>2. current' = ApplyFlowResult(Definition, current, payload,
                                 ResultTargetStatus(Definition, payload.effect))
  BY DEF Committed, EvaluatedState
<1> HIDE DEF payload
<1>3. current'.skipped = IF payload.effect = "jumped"
                         THEN JumpedSkippedSteps(current.skipped, payload.from, payload.to)
                         ELSE current.skipped
  BY <1>2 DEF ApplyFlowResult
<1> QED
  BY <1>1, <1>3 DEF payload

\* A committed report keeps WorkLeft.
LEMMA ReportLeavesWork ==
    ASSUME OneStepAtATime, IInv, WorkLeft, NEW request \in Requests, Committed(request)
    PROVE  WorkLeft'
<1> DEFINE payload == ResultPayload(Definition, current, request)
           accepted == AcceptedKeys(Definition, payload.effect, request.results)
           from == current.step
           to == payload.to
<1>1. /\ from \in Step /\ to \in Step \cup {Nil}
      /\ payload.effect \in {"advanced", "looped", "completed", "started", "jumped"}
      /\ payload.effect = "completed" <=> to = Nil
      /\ payload.effect = "started" => to = from
  <2>1. /\ payload.from = from /\ from \in Step /\ to \in Step \cup {Nil}
        /\ payload.effect \in {"advanced", "looped", "completed", "started", "jumped"}
        /\ payload.effect = "completed" <=> to = Nil
        /\ ValidNewEvent(Definition, payload)
    BY AcceptedControl, AcceptedBusiness, BundleFacts DEF Committed, Controls
  <2>2. payload.kind = "flow.result"
    BY DEF ResultPayload
  <2> HIDE DEF payload
  <2>3. WellFormedResult(Definition, payload)
    BY <2>1, <2>2 DEF ValidNewEvent
  <2> QED
    BY <2>1, <2>3 DEF WellFormedResult
<1>2. payload.effect \notin Controls =>
         /\ payload.effect = "advanced" => to = from + 1
         /\ payload.effect = "completed" => from = Definition.steps
         /\ payload.effect = "looped" => to <= from
  <2> SUFFICES ASSUME payload.effect \notin Controls
               PROVE  /\ payload.effect = "advanced" => to = from + 1
                      /\ payload.effect = "completed" => from = Definition.steps
                      /\ payload.effect = "looped" => to <= from
    OBVIOUS
  <2>1. ~IsControl(request)
    BY DEF IsControl, ResultPayload, Effect, Controls
  <2>2. ValidNewEvent(Definition, payload) /\ payload.from = from
    BY <2>1, AcceptedBusiness DEF Committed
  <2>3. payload.kind = "flow.result"
    BY DEF ResultPayload
  <2> HIDE DEF payload
  <2>4. SelectsOneRoute(Definition, payload)
    BY <2>2, <2>3 DEF ValidNewEvent
  <2>5. payload.effect \in {"advanced", "looped", "completed"}
    BY <1>1 DEF Controls
  <2> QED
    BY <1>1, <2>2, <2>4, <2>5, StepwiseRoutes
<1>3. /\ current'.step = to /\ initialized /\ initialized'
      /\ accepted \subseteq Keys(Definition)
      /\ \A k \in accepted :
            \E c \in RelevantConditionIDs(Definition, from) : Definition.key[c] = k
      /\ payload.effect \notin Controls => accepted # {}
  BY ReportRegisters DEF Committed, EvaluatedState, ApplyFlowResult
<1>4. \A k \in Keys(Definition) :
         /\ k \in accepted => current'.outputs[k].producer = from
         /\ \/ k \in accepted
            \/ /\ payload.effect \in {"looped", "jumped"}
               /\ current.outputs[k].producer >= to
               /\ current'.outputs[k] = NoOutput
            \/ current'.outputs[k] = current.outputs[k]
  BY OutputsMove
<1>5. current'.skipped = IF payload.effect = "jumped"
                         THEN JumpedSkippedSteps(current.skipped, from, to)
                         ELSE current.skipped
  BY SkippedMove
<1> HIDE DEF payload, accepted, to
<1>6. ASSUME NEW k \in Keys(Definition), current'.outputs[k].producer # Nil
      PROVE  \E c \in RelevantConditionIDs(Definition, current'.outputs[k].producer) :
                Definition.key[c] = k
  <2>1. CASE k \in accepted
    BY <1>3, <1>4, <2>1
  <2>2. CASE current'.outputs[k] = NoOutput
    BY <1>6, <2>2 DEF NoOutput
  <2>3. CASE current'.outputs[k] = current.outputs[k]
    BY <1>6, <2>3 DEF WorkLeft, Registered
  <2> QED
    BY <1>4, <2>1, <2>2, <2>3
<1>7. Step \subseteq Nat /\ Nil \notin Step /\ Nil = 0 /\ Step = 1..Definition.steps
      /\ Definition.steps \in Nat
  BY BundleFacts, BundleAssumption DEF Nil, Step, Steps, IsBundle
\* An Output of an earlier Step that is not returned behind is kept.
<1>8. ASSUME NEW s \in Step, s < from, to = Nil \/ s < to, s \notin current.skipped
      PROVE  \E k \in Keys(Definition) : current'.outputs[k].producer = s
  <2>1. PICK k \in Keys(Definition) : current.outputs[k].producer = s
    BY <1>3, <1>8 DEF WorkLeft, Behind
  <2>2. k \notin accepted
    <3> SUFFICES ASSUME k \in accepted PROVE FALSE
      OBVIOUS
    <3>1. PICK c \in RelevantConditionIDs(Definition, from) : Definition.key[c] = k
      BY <1>3
    <3>2. PICK e \in RelevantConditionIDs(Definition, s) : Definition.key[e] = k
      BY <1>7, <2>1 DEF WorkLeft, Registered
    <3>3. from = s
      BY <1>1, <3>1, <3>2 DEF OneStepAtATime
    <3> QED
      BY <1>7, <1>8, <3>3
  <2>3. ~(payload.effect \in {"looped", "jumped"} /\ current.outputs[k].producer >= to)
    BY <1>1, <1>7, <1>8, <2>1
  <2>4. current'.outputs[k] = current.outputs[k]
    BY <1>4, <2>2, <2>3
  <2> QED
    BY <2>1, <2>4
<1>9. payload.effect \notin Controls =>
         \E k \in Keys(Definition) : current'.outputs[k].producer = from
  BY <1>3, <1>4
<1>10. ASSUME NEW s \in Step, to = Nil \/ s < to, s \notin current'.skipped
       PROVE  \E k \in Keys(Definition) : current'.outputs[k].producer = s
  <2>1. CASE payload.effect = "jumped"
    <3>1. to \in Step
      BY <1>1, <2>1
    <3>2. s < from /\ s \notin current.skipped
      <4>1. CASE to > from
        <5>1. s \notin current.skipped \cup from..(to - 1)
          BY <1>5, <1>10, <2>1, <4>1 DEF JumpedSkippedSteps
        <5> QED
          BY <1>1, <1>7, <1>10, <3>1, <5>1
      <4>2. CASE ~(to > from)
        <5>1. s \notin {t \in current.skipped : t < to}
          BY <1>5, <1>10, <2>1, <4>2 DEF JumpedSkippedSteps
        <5>2. s < to
          BY <1>7, <1>10, <3>1
        <5> QED
          BY <1>1, <1>7, <3>1, <4>2, <5>1, <5>2
      <4> QED
        BY <4>1, <4>2
    <3> QED
      BY <1>8, <1>10, <3>2
  <2>2. CASE payload.effect # "jumped"
    <3>1. s \notin current.skipped
      BY <1>5, <1>10, <2>2
    <3>2. s <= from /\ (s = from => payload.effect \notin Controls)
      BY <1>1, <1>2, <1>7, <1>10, <2>2 DEF Controls
    <3>3. s < from \/ s = from
      BY <1>1, <1>7, <3>2
    <3> QED
      BY <1>8, <1>9, <1>10, <3>1, <3>2, <3>3
  <2> QED
    BY <2>1, <2>2
<1> QED
  BY <1>3, <1>6, <1>10 DEF WorkLeft, Behind, Registered
\* Every step keeps WorkLeft.
LEMMA WorkLeftPreserved ==
    ASSUME OneStepAtATime, IInv, WorkLeft, [Next]_vars
    PROVE  WorkLeft'
<1>1. CASE UNCHANGED <<initialized, current, replayed>>
  BY <1>1 DEF WorkLeft, Behind, Registered
<1>2. CASE /\ current'.outputs = current.outputs /\ current'.skipped = current.skipped
           /\ \/ initialized /\ current'.step = current.step
              \/ /\ current'.step = FirstStepID
                 /\ \A k \in Keys(Definition) : ~Registered(k)
  <2>1. \A s \in Step : ~(FirstStepID = Nil \/ s < FirstStepID)
    BY BundleAssumption DEF FirstStepID, Nil, Step, Steps, IsBundle
  <2> QED
    BY <1>2, <2>1 DEF WorkLeft, Behind, Registered
<1>3. ASSUME NEW document \in Documents, initialized,
             current' = [current EXCEPT !.trace = document]
      PROVE  WorkLeft'
  <2>1. current \in States
    BY DEF IInv, TypeOK
  <2>2. /\ current'.outputs = current.outputs /\ current'.skipped = current.skipped
        /\ current'.step = current.step
    BY <1>3, <2>1 DEF States
  <2> QED
    BY <1>3, <2>2 DEF WorkLeft, Behind, Registered
<1>4. ASSUME NEW request \in Requests, Committed(request)
      PROVE  WorkLeft'
  BY <1>4, ReportLeavesWork
<1> QED
  BY <1>1, <1>2, <1>3, <1>4, StepCases

\* The rounded share of a Step among fewer than 200 is below 100 percent.
LEMMA ShareBelowHundred ==
    ASSUME OneStepAtATime, current.step \in Step
    PROVE  ProgressPercent(current) # 100
<1> DEFINE N == Definition.steps
           half == N \div 2
           x == (current.step - 1) * 100 + half
<1>1. N \in Nat /\ N < 200 /\ current.step \in 1..N
  BY BundleAssumption DEF IsBundle, OneStepAtATime, Step, Steps
<1>2. half \in Int /\ half < 100
  BY <1>1
<1>3. x \in Int /\ x < N * 100
  <2> HIDE DEF half
  <2> QED
    BY <1>1, <1>2
<1>4. ProgressPercent(current) = x \div N
  <2>1. current.step # Nil
    BY <1>1 DEF Nil
  <2> QED
    BY <2>1 DEF ProgressPercent
<1>5. \A y, n \in Int : n > 0 /\ y < n * 100 => y \div n # 100
  OBVIOUS
<1> HIDE DEF x
<1> QED
  BY <1>1, <1>3, <1>4, <1>5

\* What the panorama shows follows from IInv and WorkLeft.
LEMMA PanoramaShown ==
    ASSUME OneStepAtATime, IInv, WorkLeft
    PROVE  ShownDoneIsDone
<1> DEFINE shown == Display(current)
           left(s) == shown.steps[s] \in {"completed", "skipped"} /\ s # current.step
           produced(s) == \E k \in Keys(Definition) : current.outputs[k].producer = s
<1> SUFFICES ASSUME initialized
             PROVE  /\ \A s \in Step : shown.steps[s] = "completed" => produced(s)
                    /\ \A s \in Step : shown.steps[s] = "skipped" => ~produced(s)
                    /\ \A s \in Step :
                          shown.steps[s] = "current" => \E task \in Tasks : task.step_id = s
                    /\ shown.progress = 100 <=> shown.status = "done"
                    /\ shown.status = "done" <=> \A s \in Step : left(s)
  BY Zenon DEF ShownDoneIsDone
<1>1. /\ ValidateAgainst(Definition, current) /\ Validate(current)
      /\ current \in States /\ DOMAIN current.outputs = Keys(Definition)
      /\ current.step \in Step \cup {Nil}
  BY DEF IInv, TypeOK, States, Outputs
<1>2. /\ shown.status = DisplayStatus(current) /\ shown.progress = ProgressPercent(current)
      /\ \A s \in Step : shown.steps[s] = DisplayStepState(current, s)
  BY DEF Display
<1> HIDE DEF shown
<1>3. Step \subseteq Nat /\ Nil \notin Step
  BY BundleFacts
<1>4. ASSUME NEW s \in Step
      PROVE  /\ shown.steps[s] = "skipped" <=> s \in current.skipped
             /\ shown.steps[s] = "completed" <=> s \notin current.skipped /\ Behind(s)
             /\ shown.steps[s] = "current" => s = current.step
  <2>1. CASE s \in current.skipped
    BY <1>2, <2>1 DEF DisplayStepState
  <2>2. CASE s \notin current.skipped /\ Behind(s)
    <3>1. DisplayStepState(current, s) = "completed"
      BY <2>2 DEF DisplayStepState, Behind
    <3> QED
      BY <1>2, <2>2, <3>1
  <2>3. CASE s \notin current.skipped /\ ~Behind(s)
    <3>1. /\ DisplayStepState(current, s) \in {"current", "pending"}
          /\ DisplayStepState(current, s) = "current" => s = current.step
      BY <2>3 DEF DisplayStepState, Behind
    <3> QED
      BY <1>2, <2>3, <3>1
  <2> QED
    BY <2>1, <2>2, <2>3
<1>5. \A s \in Step : shown.steps[s] = "completed" => produced(s)
  BY <1>4 DEF WorkLeft
<1>6. \A s \in Step : shown.steps[s] = "skipped" => ~produced(s)
  BY <1>1, <1>3, <1>4 DEF ValidateAgainst
<1>7. ASSUME NEW s \in Step, shown.steps[s] = "current"
      PROVE  \E task \in Tasks : task.step_id = s
  <2>1. Tasks = {Task(current)} /\ s = current.step
    BY <1>4, <1>7, TaskShown
  <2> QED
    BY <2>1 DEF Task
<1>8. shown.status = "done" <=> current.step = Nil
  <2>1. current.step # Nil => current.status \in Statuses
    BY <1>1 DEF Validate
  <2> QED
    BY <1>2, <2>1 DEF DisplayStatus, Statuses, Running
<1>9. shown.progress = 100 <=> current.step = Nil
  <2>1. current.step = Nil => ProgressPercent(current) = 100
    BY DEF ProgressPercent
  <2> QED
    BY <1>1, <1>2, <2>1, ShareBelowHundred
<1>10. current.step = Nil <=> \A s \in Step : left(s)
  <2>1. ASSUME current.step = Nil, NEW s \in Step
        PROVE  left(s)
    BY <1>3, <1>4, <2>1 DEF Behind
  <2>2. current.step # Nil => current.step \in Step /\ ~left(current.step)
    BY <1>1
  <2> QED
    BY <2>1, <2>2
<1> QED
  BY <1>5, <1>6, <1>7, <1>8, <1>9, <1>10

\* For every bundle whose Flow Routes lead from Step to Step, the panorama is true
\* on every path of reports, Loops, Jumps and starts (display.go).
THEOREM PanoramaTrue == ASSUME OneStepAtATime PROVE Spec => []ShownDoneIsDone
<1>1. Init => WorkLeft
  <2> SUFFICES ASSUME Init PROVE WorkLeft
    OBVIOUS
  <2>1. current.outputs = Unregistered(Definition) /\ ~initialized
    BY DEF Init, Blank
  <2> QED
    BY <2>1 DEF WorkLeft, Registered, Unregistered, NoOutput
<1>2. IInv /\ WorkLeft /\ [Next]_vars => WorkLeft'
  BY WorkLeftPreserved
<1>3. IInv /\ WorkLeft => ShownDoneIsDone
  BY PanoramaShown
<1> QED
  BY <1>1, <1>2, <1>3, InvariantInductive, PTL DEF Spec

-----------------------------------------------------------------------------
(* What the status offers (module WorkflowView)                            *)

\* Without Jumps no Step is skipped.
LEMMA NothingSkipped ==
    ASSUME ~Definition.controls
    PROVE  Spec => [](current.skipped = {})
<1>1. Init => current.skipped = {}
  BY DEF Init, Blank
<1>2. IInv /\ current.skipped = {} /\ [Next]_vars => (current.skipped = {})'
  <2> SUFFICES ASSUME IInv, current.skipped = {}, [Next]_vars
               PROVE  current'.skipped = {}
    OBVIOUS
  <2>1. ASSUME NEW request \in Requests, Committed(request)
        PROVE  current'.skipped = {}
    <3>1. ~IsControl(request)
      BY <2>1 DEF Committed, ResultRefusal, ControlRefusal, CurrentStepRefusal, OK
    <3>2. ResultPayload(Definition, current, request).effect # "jumped"
      BY <2>1, <3>1, AcceptedBusiness DEF Committed
    <3> QED
      BY <2>1, <3>2, SkippedMove
  <2>2. ASSUME NEW document \in Documents, current' = [current EXCEPT !.trace = document]
        PROVE  current'.skipped = {}
    BY <2>2 DEF IInv, TypeOK, States
  <2> QED
    BY <2>1, <2>2, StepCases
<1> QED
  BY <1>1, <1>2, InvariantInductive, PTL DEF Spec

\* A report with Evidence of a human.
Confirmed(request) ==
    [step |-> request.step, route |-> request.route, results |-> request.results,
     human |-> TRUE, manifest |-> request.manifest, summary |-> request.summary]

\* That Evidence changes nothing for a business report.
LEMMA HumanIgnored ==
    ASSUME NEW request \in BusinessRequests, Accepted(request)
    PROVE  Accepted(Confirmed(request))
<1> DEFINE other == Confirmed(request)
           payload == ResultPayload(Definition, current, request)
           same == ResultPayload(Definition, current, other)
<1>1. /\ other.step = request.step /\ other.route = request.route
      /\ other.results = request.results /\ other.manifest = request.manifest
      /\ other.summary = request.summary /\ ~IsControl(request) /\ ~IsControl(other)
      /\ request.route.kind \in {"next", "back", "terminal"}
  BY DEF BusinessRequests, IsControl, Confirmed
<1> HIDE DEF other
<1>2. ResultRefusal(Definition, current, other) = ResultRefusal(Definition, current, request)
  <2>1. \A i : ResultFault(Definition, current, other, i)
                  = ResultFault(Definition, current, request, i)
    BY <1>1 DEF ResultFault, SourceMatches
  <2>2. ConditionsRefusal(Definition, current, other)
           = ConditionsRefusal(Definition, current, request)
    <3> DEFINE faults(r) == {i \in DOMAIN r.results : ResultFault(Definition, current, r, i) # OK}
               first(S) == CHOOSE i \in S : \A j \in S : i <= j
    <3>1. faults(other) = faults(request)
      BY <1>1, <2>1
    <3>2. \A r : ConditionsRefusal(Definition, current, r)
                    = IF faults(r) = {} THEN OK
                      ELSE ResultFault(Definition, current, r, first(faults(r)))
      BY DEF ConditionsRefusal
    <3> HIDE DEF faults, first
    <3> QED
      BY <2>1, <3>1, <3>2
  <2>3. Reported(other) = Reported(request) /\ RoutesFor(Definition, other) = RoutesFor(Definition, request)
    BY <1>1 DEF Reported, RoutesFor
  <2>4. BusinessRefusal(Definition, current, other)
           = BusinessRefusal(Definition, current, request)
    BY <1>1, <2>2, <2>3 DEF BusinessRefusal
  <2> QED
    BY <1>1, <2>4 DEF ResultRefusal
<1>3. /\ same.kind = payload.kind /\ same.effect = payload.effect
      /\ same.from = payload.from /\ same.to = payload.to
      /\ same.results = payload.results /\ same.summary = payload.summary
      /\ same.accepted = payload.accepted /\ same.invalidated = payload.invalidated
      /\ payload.kind = "flow.result" /\ payload.effect \notin Controls
  BY <1>1 DEF ResultPayload, Effect, Controls
<1> HIDE DEF payload, same
<1>4. \A base, status : ApplyFlowResult(Definition, base, same, status)
                           = ApplyFlowResult(Definition, base, payload, status)
  <2>1. \A k : AcceptedOutput(Definition, same, k) = AcceptedOutput(Definition, payload, k)
    BY <1>3 DEF AcceptedOutput
  <2> QED
    BY <1>3, <2>1 DEF ApplyFlowResult
<1>5. EvaluatedState(Definition, current, other) = EvaluatedState(Definition, current, request)
  BY <1>3, <1>4 DEF EvaluatedState, payload, same
<1>6. ValidNewEvent(Definition, same) <=> ValidNewEvent(Definition, payload)
  <2>1. WellFormedResult(Definition, same) <=> WellFormedResult(Definition, payload)
    BY <1>3 DEF WellFormedResult
  <2>2. SelectsOneRoute(Definition, same) <=> SelectsOneRoute(Definition, payload)
    BY <1>3 DEF SelectsOneRoute
  <2> QED
    BY <1>3, <2>1, <2>2 DEF ValidNewEvent
<1>7. Replays(Definition, replayed, same) <=> Replays(Definition, replayed, payload)
  <2>1. ReplaysResult(Definition, replayed, same) <=> ReplaysResult(Definition, replayed, payload)
    BY <1>3 DEF ReplaysResult
  <2> QED
    BY <1>3, <2>1 DEF Replays
<1>8. Replay(Definition, replayed, same) = Replay(Definition, replayed, payload)
  BY <1>3, <1>4 DEF Replay
<1>9. \A next : CommitRefusal(next, same) = CommitRefusal(next, payload)
  BY <1>6, <1>7, <1>8, Zenon DEF CommitRefusal
<1> QED
  BY <1>2, <1>5, <1>9 DEF Accepted, payload, same, other

\* Without skipped Steps, what passes the checks of a report is committed.
LEMMA PassedIsAccepted ==
    ASSUME IInv, initialized, current.skipped = {}, Followable, NEW request \in BusinessRequests,
           ResultRefusal(Definition, current, request) = OK
    PROVE  Accepted(request)
<1> DEFINE next == EvaluatedState(Definition, current, request)
           payload == ResultPayload(Definition, current, request)
<1>1. request \in Requests
  BY DEF Requests
<1>2. ~IsControl(request)
  BY DEF BusinessRequests, IsControl
<1>3. payload.effect # "jumped"
  BY <1>1, <1>2, AcceptedBusiness
<1>4. next.skipped = {}
  BY <1>3 DEF EvaluatedState, ApplyFlowResult
<1> HIDE DEF next, payload
<1>5. CommitRefusal(next, payload) = OK
  BY <1>1, <1>4, Foretold DEF DryRunForetells, next, payload
<1> QED
  BY <1>5 DEF Accepted, next, payload

\* A selection with one field set counts one.
LEMMA OneFieldCounts ==
    ASSUME NEW selection \in RouteSelection, NEW f \in SelectionFields,
           selection[f] # {}, \A g \in SelectionFields \ {f} : selection[g] = {}
    PROVE  CountSetFields(selection) = 1
<1>1. DOMAIN selection = SelectionFields
  BY DEF RouteSelection, SelectionFields
<1>2. {g \in DOMAIN selection : selection[g] # {}} = {f}
  BY <1>1
<1> QED
  BY <1>2, FS_Singleton DEF CountSetFields

\* The Routes that a business report may name.
BusinessRoutes ==
    [kind : {"next", "back"}, to : Step] \cup [kind : {"terminal"}, to : {Terminal}]

\* A selection that sets one field is valid and stands for the Route of the field.
LEMMA RouteCopied ==
    ASSUME NEW to
    PROVE  /\ to \in Step =>
                 LET next == [NoSelection EXCEPT !.next_step_id = {to}]
                     back == [NoSelection EXCEPT !.back_step_id = {to}] IN
                 /\ next \in RouteSelection /\ back \in RouteSelection
                 /\ RouteSelectionIsValid(next) /\ RouteSelectionIsValid(back)
                 /\ CountSetFields(next) = 1 /\ CountSetFields(back) = 1
                 /\ next.terminal = {} /\ next.start_current_step = {}
                 /\ back.terminal = {} /\ back.start_current_step = {}
                 /\ SelectedRoute(next) = [kind |-> "next", to |-> to]
                 /\ SelectedRoute(back) = [kind |-> "back", to |-> to]
           /\ LET terminal == [NoSelection EXCEPT !.terminal = {TRUE}] IN
              /\ terminal \in RouteSelection
              /\ RouteSelectionIsValid(terminal)
              /\ CountSetFields(terminal) = 1
              /\ terminal.terminal = {TRUE} /\ terminal.start_current_step = {}
              /\ SelectedRoute(terminal) = [kind |-> "terminal", to |-> Terminal]
<1>1. ASSUME to \in Step
      PROVE  LET next == [NoSelection EXCEPT !.next_step_id = {to}] IN
             /\ next \in RouteSelection /\ RouteSelectionIsValid(next)
             /\ CountSetFields(next) = 1
             /\ next.terminal = {} /\ next.start_current_step = {}
             /\ SelectedRoute(next) = [kind |-> "next", to |-> to]
  <2> DEFINE next == [NoSelection EXCEPT !.next_step_id = {to}]
  <2>1. /\ next.next_step_id = {to} /\ next.back_step_id = {} /\ next.terminal = {}
        /\ next.start_current_step = {} /\ next.jump_step_id = {}
        /\ next \in RouteSelection
    BY <1>1 DEF NoSelection, RouteSelection, Field
  <2> HIDE DEF next
  <2>2. RouteSelectionIsValid(next)
    BY <1>1, <2>1, BundleFacts DEF RouteSelectionIsValid
  <2>3. CountSetFields(next) = 1
    BY <2>1, OneFieldCounts DEF SelectionFields
  <2>4. SelectedRoute(next) = [kind |-> "next", to |-> to]
    BY <2>1 DEF SelectedRoute, Get
  <2> QED
    BY <2>1, <2>2, <2>3, <2>4 DEF next
<1>2. ASSUME to \in Step
      PROVE  LET back == [NoSelection EXCEPT !.back_step_id = {to}] IN
             /\ back \in RouteSelection /\ RouteSelectionIsValid(back)
             /\ CountSetFields(back) = 1
             /\ back.terminal = {} /\ back.start_current_step = {}
             /\ SelectedRoute(back) = [kind |-> "back", to |-> to]
  <2> DEFINE back == [NoSelection EXCEPT !.back_step_id = {to}]
  <2>1. /\ back.next_step_id = {} /\ back.back_step_id = {to} /\ back.terminal = {}
        /\ back.start_current_step = {} /\ back.jump_step_id = {}
        /\ back \in RouteSelection
    BY <1>2 DEF NoSelection, RouteSelection, Field
  <2> HIDE DEF back
  <2>2. RouteSelectionIsValid(back)
    BY <1>2, <2>1, BundleFacts DEF RouteSelectionIsValid
  <2>3. CountSetFields(back) = 1
    BY <2>1, OneFieldCounts DEF SelectionFields
  <2>4. SelectedRoute(back) = [kind |-> "back", to |-> to]
    BY <2>1 DEF SelectedRoute, Get
  <2> QED
    BY <2>1, <2>2, <2>3, <2>4 DEF back
<1>3. LET terminal == [NoSelection EXCEPT !.terminal = {TRUE}] IN
      /\ terminal \in RouteSelection /\ RouteSelectionIsValid(terminal)
      /\ CountSetFields(terminal) = 1
      /\ terminal.terminal = {TRUE} /\ terminal.start_current_step = {}
      /\ SelectedRoute(terminal) = [kind |-> "terminal", to |-> Terminal]
  <2> DEFINE terminal == [NoSelection EXCEPT !.terminal = {TRUE}]
  <2>1. /\ terminal.next_step_id = {} /\ terminal.back_step_id = {}
        /\ terminal.terminal = {TRUE} /\ terminal.start_current_step = {}
        /\ terminal.jump_step_id = {} /\ terminal \in RouteSelection
    BY DEF NoSelection, RouteSelection, Field
  <2> HIDE DEF terminal
  <2>2. RouteSelectionIsValid(terminal)
    BY <2>1 DEF RouteSelectionIsValid
  <2>3. CountSetFields(terminal) = 1
    BY <2>1, OneFieldCounts DEF SelectionFields
  <2>4. SelectedRoute(terminal) = [kind |-> "terminal", to |-> Terminal]
    BY <2>1 DEF SelectedRoute
  <2> QED
    BY <2>1, <2>2, <2>3, <2>4 DEF terminal
<1> QED
  BY <1>1, <1>2, <1>3

\* A Route that the status shows is one of the Step, and its selection, copied as it
\* is shown, passes the validation and stands for that Route.
LEMMA RouteShown ==
    ASSUME NEW s \in Step, NEW view \in AvailableRouteViews(s)
    PROVE  \E route \in BusinessRoutes :
              LET routes == IF route.kind = "back" THEN Definition.loops[s]
                            ELSE Definition.flows[s] IN
              /\ \E i \in DOMAIN routes : routes[i].to = route.to /\ routes[i].when = view.when
              /\ view.route \in RouteSelection /\ RouteSelectionIsValid(view.route)
              /\ CountSetFields(view.route) = 1
              /\ FALSE \notin view.route.terminal /\ FALSE \notin view.route.start_current_step
              /\ SelectedRoute(view.route) = route
<1>1. CASE view \in FlowRouteViews(Definition.flows[s])
  <2>1. PICK i \in DOMAIN Definition.flows[s] :
           view = [direction |-> "flow", when |-> Definition.flows[s][i].when,
                   route |-> IF Definition.flows[s][i].to = Terminal
                             THEN [NoSelection EXCEPT !.terminal = {TRUE}]
                             ELSE [NoSelection EXCEPT
                                     !.next_step_id = {Definition.flows[s][i].to}]]
    BY <1>1 DEF FlowRouteViews
  <2> DEFINE to == Definition.flows[s][i].to
  <2>2. view.when = Definition.flows[s][i].when
    BY <2>1
  <2>3. to \in {Terminal} \cup (s + 1)..Definition.steps
    BY BundleAssumption DEF ValidBundle, ValidFlows, Step
  <2>4. to # Terminal => to \in Step
    BY <2>3, BundleFacts, BundleAssumption DEF Step, Steps, IsBundle
  <2>5. CASE to = Terminal
    <3> DEFINE route == [kind |-> "terminal", to |-> Terminal]
               terminal == [NoSelection EXCEPT !.terminal = {TRUE}]
    <3>1. view.route = terminal
      BY <2>1, <2>5
    <3>2. route \in BusinessRoutes /\ route.kind = "terminal" /\ route.to = to
      BY <2>5 DEF BusinessRoutes
    <3>3. /\ terminal \in RouteSelection /\ RouteSelectionIsValid(terminal)
          /\ CountSetFields(terminal) = 1
          /\ FALSE \notin terminal.terminal /\ FALSE \notin terminal.start_current_step
          /\ SelectedRoute(terminal) = route
      BY RouteCopied
    <3> HIDE DEF route, terminal
    <3> QED
      BY <2>2, <3>1, <3>2, <3>3
  <2>6. CASE to # Terminal
    <3> DEFINE route == [kind |-> "next", to |-> to]
               next == [NoSelection EXCEPT !.next_step_id = {to}]
    <3>1. view.route = next
      BY <2>1, <2>6
    <3>2. route \in BusinessRoutes /\ route.kind = "next" /\ route.to = to
      BY <2>4, <2>6 DEF BusinessRoutes
    <3>3. /\ next \in RouteSelection /\ RouteSelectionIsValid(next)
          /\ CountSetFields(next) = 1
          /\ FALSE \notin next.terminal /\ FALSE \notin next.start_current_step
          /\ SelectedRoute(next) = route
      BY <2>4, <2>6, RouteCopied
    <3> HIDE DEF route, next
    <3> QED
      BY <2>2, <3>1, <3>2, <3>3
  <2> QED
    BY <2>5, <2>6
<1>2. CASE view \in LoopRouteViews(Definition.loops[s])
  <2>1. PICK i \in DOMAIN Definition.loops[s] :
           view = [direction |-> "loop", when |-> Definition.loops[s][i].when,
                   route |-> [NoSelection EXCEPT !.back_step_id = {Definition.loops[s][i].to}]]
    BY <1>2 DEF LoopRouteViews
  <2> DEFINE to == Definition.loops[s][i].to
             route == [kind |-> "back", to |-> to]
             back == [NoSelection EXCEPT !.back_step_id = {to}]
  <2>2. view.when = Definition.loops[s][i].when /\ view.route = back
    BY <2>1
  <2>3. to \in 1..s
    BY BundleAssumption DEF ValidBundle, ValidLoops, Step
  <2>4. to \in Step
    BY <2>3, BundleFacts, BundleAssumption DEF Step, Steps, IsBundle
  <2>5. route \in BusinessRoutes /\ route.kind = "back" /\ route.to = to
    BY <2>4 DEF BusinessRoutes
  <2>6. /\ back \in RouteSelection /\ RouteSelectionIsValid(back)
        /\ CountSetFields(back) = 1
        /\ FALSE \notin back.terminal /\ FALSE \notin back.start_current_step
        /\ SelectedRoute(back) = route
    BY <2>4, RouteCopied
  <2> HIDE DEF route, back
  <2> QED
    BY <2>2, <2>5, <2>6
<1> QED
  BY <1>1, <1>2 DEF AvailableRouteViews

\* A human's confirmation, with the manifest of an outcome if there is one.
EvidenceFor(outcome) ==
    {[source |-> "human", manifest |-> NoValue]} \cup
    IF outcome = NoValue THEN {} ELSE {[source |-> "file", manifest |-> outcome]}

\* That Evidence is offered, valid, and claims the outcome.
LEMMA EvidenceClaims ==
    ASSUME NEW outcome \in ManifestOutcomes
    PROVE  /\ EvidenceFor(outcome) \in EvidenceOffered
           /\ ValidateEvidence(EvidenceFor(outcome))
           /\ HasHumanEvidence(EvidenceFor(outcome)) = TRUE
           /\ ClaimedOutcome(EvidenceFor(outcome)) = outcome
<1> DEFINE human == [source |-> "human", manifest |-> NoValue]
           file == [source |-> "file", manifest |-> outcome]
           evidence == EvidenceFor(outcome)
           manifests == {item \in evidence : item.source = "file" /\ item.manifest # NoValue}
<1>1. evidence = {human} \cup IF outcome = NoValue THEN {} ELSE {file}
  BY DEF EvidenceFor
<1>2. /\ human.source = "human" /\ human.manifest = NoValue
      /\ file.source = "file" /\ file.manifest = outcome
  OBVIOUS
<1>3. evidence \in EvidenceOffered
  BY <1>1 DEF EvidenceOffered
<1> HIDE DEF human, file, evidence
<1>4. ValidateEvidence(evidence)
  BY <1>1, <1>2 DEF ValidateEvidence, EvidenceIsValid, Defined, EvidenceSource, Unspecified
<1>5. HasHumanEvidence(evidence) = TRUE
  BY <1>1, <1>2 DEF HasHumanEvidence
<1>6. manifests = IF outcome = NoValue THEN {} ELSE {file}
  BY <1>1, <1>2
<1>7. ClaimedOutcome(evidence) = IF Cardinality(manifests) = 1
                                 THEN (CHOOSE item \in manifests : TRUE).manifest ELSE NoValue
  BY DEF ClaimedOutcome
<1> HIDE DEF manifests
<1>8. ClaimedOutcome(evidence) = outcome
  <2>1. CASE outcome = NoValue
    BY <1>6, <1>7, <2>1, FS_EmptySet
  <2>2. CASE outcome # NoValue
    <3>1. manifests = {file} /\ Cardinality(manifests) = 1
      BY <1>6, <2>2, FS_Singleton
    <3>2. (CHOOSE item \in manifests : TRUE) = file
      BY <3>1
    <3> QED
      BY <1>2, <1>7, <3>1, <3>2
  <2> QED
    BY <2>1, <2>2
<1> QED
  BY <1>3, <1>4, <1>5, <1>8 DEF evidence

\* A finite set can be listed.
LEMMA Listed ==
    ASSUME NEW S, IsFiniteSet(S)
    PROVE  \E f \in [1..Cardinality(S) -> S] :
              /\ \A i, j \in 1..Cardinality(S) : f[i] = f[j] => i = j
              /\ \A x \in S : \E i \in 1..Cardinality(S) : f[i] = x
<1>1. PICK f : f \in Bijection(1..Cardinality(S), S)
  BY FS_CardinalityType DEF ExistsBijection
<1>2. f \in Injection(1..Cardinality(S), S) /\ f \in Surjection(1..Cardinality(S), S)
  BY <1>1 DEF Bijection
<1> QED
  BY <1>2 DEF Injection, IsInjective, Surjection

\* What a shown Route asks for: Conditions of the Step that no exclusive group keeps apart.
LEMMA GroupShown ==
    ASSUME NEW s \in Step, NEW view \in AvailableRouteViews(s), NEW group \in view.when
    PROVE  /\ group # {} /\ NoExclusivePair(Definition, group)
           /\ group \subseteq RelevantConditionIDs(Definition, s)
<1>1. \/ \E i \in DOMAIN Definition.loops[s] : Definition.loops[s][i].when = view.when
      \/ \E i \in DOMAIN Definition.flows[s] : Definition.flows[s][i].when = view.when
  <2>1. PICK routes : /\ routes = Definition.loops[s] \/ routes = Definition.flows[s]
                      /\ \E i \in DOMAIN routes : routes[i].when = view.when
    <3>1. PICK route \in BusinessRoutes :
             LET routes == IF route.kind = "back" THEN Definition.loops[s]
                           ELSE Definition.flows[s] IN
             \E i \in DOMAIN routes : routes[i].to = route.to /\ routes[i].when = view.when
      BY RouteShown, Zenon
    <3> DEFINE routes == IF route.kind = "back" THEN Definition.loops[s]
                         ELSE Definition.flows[s]
    <3>2. routes = Definition.loops[s] \/ routes = Definition.flows[s]
      OBVIOUS
    <3>3. \E i \in DOMAIN routes : routes[i].when = view.when
      BY <3>1
    <3> HIDE DEF routes
    <3> QED
      BY <3>2, <3>3
  <2> QED
    BY <2>1
<1>2. ASSUME NEW i \in DOMAIN Definition.loops[s], Definition.loops[s][i].when = view.when
      PROVE  ValidWhen(Definition, view.when) /\ group \subseteq RelevantConditionIDs(Definition, s)
  <2>1. ValidWhen(Definition, Definition.loops[s][i].when)
    BY BundleAssumption DEF ValidBundle, ValidLoops, Step
  <2>2. group \subseteq ConditionIDs(Definition.loops[s])
    BY <1>2 DEF ConditionIDs
  <2> QED
    BY <1>2, <2>1, <2>2 DEF RelevantConditionIDs
<1>3. ASSUME NEW i \in DOMAIN Definition.flows[s], Definition.flows[s][i].when = view.when
      PROVE  ValidWhen(Definition, view.when) /\ group \subseteq RelevantConditionIDs(Definition, s)
  <2>1. ValidWhen(Definition, Definition.flows[s][i].when)
    BY BundleAssumption DEF ValidBundle, ValidFlows, Step
  <2>2. group \subseteq ConditionIDs(Definition.flows[s])
    BY <1>3 DEF ConditionIDs
  <2> QED
    BY <1>3, <2>1, <2>2 DEF RelevantConditionIDs
<1>4. ValidWhen(Definition, view.when) /\ group \subseteq RelevantConditionIDs(Definition, s)
  BY <1>1, <1>2, <1>3
<1> QED
  BY <1>4 DEF ValidWhen

\* Values that a report of the group can have: valid ones that agree with the bound
\* document and with one manifest.
LEMMA ValuesAtHand ==
    ASSUME Followable, current.step \in Step,
           NEW view \in AvailableRouteViews(current.step), NEW group \in view.when,
           \A c \in Shown(Task(current)) : c.id \in group => Obtainable(c),
           current.status # "awaiting_confirmation"
    PROVE  \E manifest \in ManifestOutcomes, chosen \in [group -> Values] :
              \A c \in group :
                 /\ chosen[c] \in Definition.valid[c]
                 /\ Definition.source[c] = "trace_document_url" =>
                       current.trace # NoValue /\ chosen[c] = current.trace
                 /\ Definition.source[c] = "verify_evidence_outcome" =>
                       manifest # NoValue /\ chosen[c] = manifest
<1> DEFINE verified == {c \in group : Definition.source[c] = "verify_evidence_outcome"}
           Fits(c, manifest, v) ==
              /\ v \in Definition.valid[c]
              /\ Definition.source[c] = "trace_document_url" =>
                    current.trace # NoValue /\ v = current.trace
              /\ Definition.source[c] = "verify_evidence_outcome" =>
                    manifest # NoValue /\ v = manifest
<1>1. group \subseteq RelevantConditionIDs(Definition, current.step)
  BY GroupShown
<1>2. \A c \in group : Definition.valid[c] \subseteq Values
  BY <1>1, BundleFacts
<1>3. NoValue \notin Values /\ NoValue \in ManifestOutcomes
  BY ParametersAssumption, ReportAssumption
<1>4. ASSUME NEW c \in group
      PROVE  /\ Definition.source[c] = "trace_document_url" =>
                   current.trace \in Definition.valid[c]
             /\ Definition.source[c] = "verify_evidence_outcome" =>
                   Definition.valid[c] \cap ManifestOutcomes # {}
             /\ Definition.source[c] \notin {"trace_document_url", "verify_evidence_outcome"} =>
                   Definition.valid[c] # {}
  <2> DEFINE shown == [id |-> c, values |-> Definition.valid[c], source |-> Definition.source[c]]
  <2>1. shown \in ConditionViews(current.step)
    BY <1>1 DEF ConditionViews
  <2>2. shown \in Shown(Task(current))
    BY <2>1 DEF Shown, Task
  <2>3. /\ shown.id = c /\ shown.values = Definition.valid[c]
        /\ shown.source = Definition.source[c]
    OBVIOUS
  <2> HIDE DEF shown
  <2>4. Obtainable(shown)
    BY <2>2, <2>3
  <2> QED
    BY <2>3, <2>4 DEF Obtainable
<1>5. \E manifest \in ManifestOutcomes : \A c \in verified :
         manifest # NoValue /\ manifest \in Definition.valid[c]
  <2>1. CASE verified = {}
    BY <1>3, <2>1
  <2>2. CASE verified # {}
    <3>1. PICK c \in verified : TRUE
      BY <2>2
    <3>2. PICK manifest \in ManifestOutcomes : manifest \in Definition.valid[c]
      BY <1>4, <3>1
    <3>3. manifest # NoValue
      BY <1>2, <1>3, <3>1, <3>2
    <3>4. \A e \in verified : e = c
      BY <3>1 DEF Followable
    <3> QED
      BY <3>2, <3>3, <3>4
  <2> QED
    BY <2>1, <2>2
<1>6. PICK manifest \in ManifestOutcomes : \A c \in verified :
         manifest # NoValue /\ manifest \in Definition.valid[c]
  BY <1>5
<1>7. ASSUME NEW c \in group
      PROVE  \E v \in Values : Fits(c, manifest, v)
  <2>1. CASE Definition.source[c] = "trace_document_url"
    BY <1>2, <1>3, <1>4, <2>1
  <2>2. CASE Definition.source[c] = "verify_evidence_outcome"
    BY <1>2, <1>6, <2>2
  <2>3. CASE Definition.source[c] \notin {"trace_document_url", "verify_evidence_outcome"}
    BY <1>2, <1>4, <2>3
  <2> QED
    BY <2>1, <2>2, <2>3
<1> HIDE DEF Fits
<1> DEFINE chosen == [c \in group |-> CHOOSE v \in Values : Fits(c, manifest, v)]
<1>8. chosen \in [group -> Values] /\ \A c \in group : Fits(c, manifest, chosen[c])
  BY <1>7
<1> HIDE DEF chosen
<1>9. \E values \in [group -> Values] : \A c \in group : Fits(c, manifest, values[c])
  BY <1>8
<1> QED
  BY <1>9 DEF Fits

\* The Results of a report list a group of Conditions with such values.
Lists(request, group, n, f) ==
    /\ n \in Nat /\ f \in [1..n -> group] /\ DOMAIN request.results = 1..n
    /\ \A i, j \in 1..n : f[i] = f[j] => i = j
    /\ \A i \in 1..n :
          /\ request.results[i].id = f[i]
          /\ request.results[i].value \in Definition.valid[f[i]]
          /\ Definition.source[f[i]] = "trace_document_url" =>
                current.trace # NoValue /\ request.results[i].value = current.trace
          /\ Definition.source[f[i]] = "verify_evidence_outcome" =>
                request.manifest # NoValue /\ request.results[i].value = request.manifest

\* Such a list has no fault.
LEMMA FaultFree ==
    ASSUME Followable, NEW request, NEW view \in AvailableRouteViews(request.step),
           request.step \in Step, NEW group \in view.when, NEW n, NEW f, Lists(request, group, n, f)
    PROVE  ConditionsRefusal(Definition, current, request) = OK
<1> USE DEF Lists
<1>1. request.step \in Step
  OBVIOUS
<1>2. /\ NoExclusivePair(Definition, group)
      /\ group \subseteq RelevantConditionIDs(Definition, request.step)
      /\ \A c, e \in group : c # e => Definition.key[c] # Definition.key[e]
  BY <1>1, GroupShown DEF Followable
<1>3. ASSUME NEW i \in 1..n
      PROVE  ResultFault(Definition, current, request, i) = OK
  <2> DEFINE result == request.results[i]
             earlier == {request.results[j].id : j \in 1..(i - 1)}
             known == earlier \cap Definition.conditions
  <2>1. \A j \in 1..(i - 1) :
           j \in 1..n /\ request.results[j].id \in group /\ request.results[j].id # f[i]
    OBVIOUS
  <2>2. result.id = f[i] /\ f[i] \in group
    OBVIOUS
  <2>3. earlier \subseteq group \ {f[i]} /\ known \subseteq group \ {f[i]}
    BY <2>1
  <2>4. SourceMatches(Definition, current, request, result)
    BY <2>2 DEF SourceMatches
  <2>5. result.value \in Definition.valid[f[i]]
    OBVIOUS
  <2>6. ResultFault(Definition, current, request, i) =
           IF result.id \in earlier THEN "CONDITION_CONFLICT"
           ELSE IF result.id \notin RelevantConditionIDs(Definition, request.step)
           THEN "CONDITION_NOT_ALLOWED"
           ELSE IF ~NoExclusivePair(Definition, {result.id} \cup known) THEN "CONDITION_CONFLICT"
           ELSE IF result.value \notin Definition.valid[result.id] THEN "OUTPUT_INVALID"
           ELSE IF ~SourceMatches(Definition, current, request, result) THEN "OUTPUT_INVALID"
           ELSE IF \E c \in known : Definition.key[c] = Definition.key[result.id]
           THEN "CONDITION_CONFLICT"
           ELSE OK
    BY DEF ResultFault
  <2> HIDE DEF result, earlier, known
  <2>7. NoExclusivePair(Definition, {result.id} \cup known)
    BY <1>2, <2>2, <2>3 DEF NoExclusivePair
  <2>8. ~\E c \in known : Definition.key[c] = Definition.key[result.id]
    BY <1>2, <2>2, <2>3
  <2> QED
    BY <1>2, <2>2, <2>3, <2>4, <2>5, <2>6, <2>7, <2>8
<1>4. {i \in DOMAIN request.results : ResultFault(Definition, current, request, i) # OK} = {}
  BY <1>3
<1> QED
  BY <1>4 DEF ConditionsRefusal

\* A report of what a shown Route asks for passes every check.
LEMMA ShownPasses ==
    ASSUME Followable, IInv, initialized, current.step \in Step,
           NEW view \in AvailableRouteViews(current.step), NEW group \in view.when,
           \A c \in Shown(Task(current)) : c.id \in group => Obtainable(c)
    PROVE  \E request \in BusinessRequests :
              /\ request.step = current.step
              /\ request.route = SelectedRoute(view.route)
              /\ Reported(request) = group
              /\ ResultRefusal(Definition, current, request) = OK
<1>1. current.status # "awaiting_confirmation"
  BY BundleFacts DEF IInv, ValidateAgainst, Followable
<1>2. PICK manifest \in ManifestOutcomes, chosen \in [group -> Values] :
         \A c \in group :
            /\ chosen[c] \in Definition.valid[c]
            /\ Definition.source[c] = "trace_document_url" =>
                  current.trace # NoValue /\ chosen[c] = current.trace
            /\ Definition.source[c] = "verify_evidence_outcome" =>
                  manifest # NoValue /\ chosen[c] = manifest
  BY <1>1, ValuesAtHand
<1>3. /\ IsFiniteSet(group) /\ Cardinality(group) <= MaxResults
      /\ \A c \in group : \A v \in Definition.valid[c] : [id |-> c, value |-> v] \in Reportable
  BY DEF Followable
<1> DEFINE n == Cardinality(group)
<1>4. PICK f \in [1..n -> group] :
         /\ \A i, j \in 1..n : f[i] = f[j] => i = j
         /\ \A x \in group : \E i \in 1..n : f[i] = x
  BY <1>3, Listed
<1>5. n \in 1..MaxResults
  <2>1. n \in Nat /\ (n = 0 <=> group = {})
    BY <1>3, FS_CardinalityType, FS_EmptySet
  <2>2. group # {}
    BY GroupShown
  <2> QED
    BY <1>3, <2>1, <2>2, ParametersAssumption
<1> HIDE DEF n
<1> DEFINE results == [i \in 1..n |-> [id |-> f[i], value |-> chosen[f[i]]]]
<1>6. /\ results \in ResultSequences /\ DOMAIN results = 1..n
      /\ \A i \in 1..n : results[i].id = f[i] /\ results[i].value = chosen[f[i]]
  <2>1. \A i \in 1..n : [id |-> f[i], value |-> chosen[f[i]]] \in Reportable
    BY <1>2, <1>3, <1>4
  <2>2. results \in [1..n -> Reportable]
    BY <2>1
  <2> QED
    BY <1>5, <2>2 DEF ResultSequences
<1> HIDE DEF results
<1>7. PICK summary \in Summaries : TRUE
  BY DEF Followable
<1>8. PICK route \in BusinessRoutes :
         LET routes == IF route.kind = "back" THEN Definition.loops[current.step]
                       ELSE Definition.flows[current.step] IN
         /\ \E i \in DOMAIN routes : routes[i].to = route.to /\ routes[i].when = view.when
         /\ SelectedRoute(view.route) = route
  BY RouteShown, Zenon
<1> DEFINE request == [step |-> current.step, route |-> route, results |-> results,
                       human |-> FALSE, manifest |-> manifest, summary |-> summary]
<1>9. request \in BusinessRequests
  BY <1>2, <1>6, <1>7, <1>8 DEF BusinessRequests, BusinessRoutes
<1>10. /\ request.step = current.step /\ request.route = route /\ request.results = results
       /\ request.manifest = manifest
  OBVIOUS
<1> HIDE DEF request
<1>11. Reported(request) = group
  <2>1. Reported(request) = {results[i].id : i \in DOMAIN results}
    BY <1>10 DEF Reported
  <2>2. \A i \in DOMAIN results : results[i].id \in group
    BY <1>4, <1>6
  <2>3. \A c \in group : \E i \in DOMAIN results : results[i].id = c
    BY <1>4, <1>6
  <2> QED
    BY <2>1, <2>2, <2>3
<1>12. ConditionsRefusal(Definition, current, request) = OK
  <2>1. n \in Nat /\ f \in [1..n -> group] /\ \A i, j \in 1..n : f[i] = f[j] => i = j
    BY <1>4, <1>5, ParametersAssumption
  <2>2. DOMAIN request.results = 1..n
    BY <1>6, <1>10
  <2>3. \A i \in 1..n :
           /\ request.results[i].id = f[i]
           /\ request.results[i].value \in Definition.valid[f[i]]
           /\ Definition.source[f[i]] = "trace_document_url" =>
                 current.trace # NoValue /\ request.results[i].value = current.trace
           /\ Definition.source[f[i]] = "verify_evidence_outcome" =>
                 request.manifest # NoValue /\ request.results[i].value = request.manifest
    BY <1>2, <1>4, <1>6, <1>10
  <2>4. view \in AvailableRouteViews(request.step) /\ request.step \in Step
    BY <1>10
  <2>5. Lists(request, group, n, f)
    BY <2>1, <2>2, <2>3, Zenon DEF Lists
  <2> QED
    BY <2>4, <2>5, FaultFree
<1>13. RouteRefusal(RoutesFor(Definition, request), route.to, group) = OK
  <2> DEFINE routes == RoutesFor(Definition, request)
  <2>0. routes = IF route.kind = "back" THEN Definition.loops[current.step]
                 ELSE Definition.flows[current.step]
    BY <1>10 DEF RoutesFor
  <2> HIDE DEF routes
  <2>1. PICK i \in DOMAIN routes : routes[i].to = route.to /\ routes[i].when = view.when
    BY <1>8, <2>0
  <2>2. DOMAIN routes \subseteq Nat /\ ~AmbiguousRoutes(Definition, routes)
    BY <2>0, BundleFacts
  <2>3. i \in Available(routes, route.to) /\ i \in Matching(routes, route.to, group)
    BY <2>1 DEF Available, Matching, Matches
  <2>4. NoExclusivePair(Definition, group)
    BY GroupShown
  <2>5. \A j, k \in Matching(routes, route.to, group) : j = k
    BY <2>2, <2>4, StaticCheckSuffices
  <2>6. /\ Available(routes, route.to) # {} /\ Matching(routes, route.to, group) # {}
        /\ ~\E j, k \in Matching(routes, route.to, group) : j # k
    BY <2>3, <2>5
  <2>7. RouteRefusal(routes, route.to, group) = OK
    BY <2>6, Zenon DEF RouteRefusal
  <2> QED
    BY <2>7 DEF routes
<1>14. ResultRefusal(Definition, current, request) = OK
  <2>1. CurrentStepRefusal(current, request.step) = OK
    BY <1>10, BundleFacts DEF CurrentStepRefusal
  <2>2. ~IsControl(request)
    BY <1>9 DEF BusinessRequests, IsControl
  <2>3. BusinessRefusal(Definition, current, request) = OK
    BY <1>1, <1>10, <1>11, <1>12, <1>13 DEF BusinessRefusal
  <2> QED
    BY <2>1, <2>2, <2>3 DEF ResultRefusal
<1> QED
  BY <1>8, <1>9, <1>10, <1>11, <1>14

\* An agent's message for such a report is valid, and is understood as the report.
LEMMA MessageUnderstood ==
    ASSUME NEW request \in BusinessRequests, NEW view \in AvailableRouteViews(request.step),
           request.route = SelectedRoute(view.route)
    PROVE  LET message == Submission(request.step, view.route, request.results,
                                     EvidenceFor(request.manifest), request.summary) IN
           /\ ValidateResultRequest(message)
           /\ Understood(message) = Confirmed(request)
<1> DEFINE evidence == EvidenceFor(request.manifest)
           message == Submission(request.step, view.route, request.results, evidence,
                                 request.summary)
<1>1. /\ request.step \in Step /\ request.results \in ResultSequences
      /\ request.manifest \in ManifestOutcomes /\ request.summary \in Summaries
  BY DEF BusinessRequests
<1>2. /\ RouteSelectionIsValid(view.route) /\ CountSetFields(view.route) = 1
      /\ FALSE \notin view.route.terminal /\ FALSE \notin view.route.start_current_step
  BY <1>1, RouteShown
<1>3. /\ ValidateEvidence(evidence) /\ HasHumanEvidence(evidence) = TRUE
      /\ ClaimedOutcome(evidence) = request.manifest
  BY <1>1, EvidenceClaims
<1> HIDE DEF evidence
<1>4. /\ message.step_id = request.step /\ message.condition_results = request.results
      /\ message.summary = request.summary /\ message.route = {view.route}
      /\ message.evidence = evidence
  BY DEF Submission
<1> HIDE DEF message
<1>5. request.results # << >>
  <2>1. PICK n \in 1..MaxResults : request.results \in [1..n -> Reportable]
    BY <1>1 DEF ResultSequences
  <2>2. DOMAIN request.results = 1..n /\ 1 \in 1..n
    BY <2>1, ParametersAssumption
  <2> QED
    BY <2>2
<1>6. FlowResultRequestIsValid(message)
  BY <1>1, <1>2, <1>4, <1>5, BundleFacts, ReportAssumption DEF FlowResultRequestIsValid
<1>7. ValidateResultRequest(message)
  BY <1>2, <1>3, <1>4, <1>6 DEF ValidateResultRequest
<1>8. Get(message.route, NoSelection) = view.route
  BY <1>4 DEF Get
<1>9. Understood(message) =
         [step |-> request.step, route |-> request.route, results |-> request.results,
          human |-> TRUE, manifest |-> request.manifest, summary |-> request.summary]
  <2>1. SelectedRoute(Get(message.route, NoSelection)) = request.route
    BY <1>8
  <2> QED
    BY <1>3, <1>4, <2>1, Zenon DEF Understood
<1> QED
  BY <1>7, <1>9 DEF message, evidence, Confirmed

\* Whatever is shown is accepted.
LEMMA ShownIsAccepted ==
    ASSUME Followable, IInv, current.skipped = {}
    PROVE  OfferedIsAccepted
<1> SUFFICES ASSUME initialized, NEW task \in Tasks, NEW view \in task.available_routes,
                    NEW group \in view.when,
                    \A c \in Shown(task) : c.id \in group => Obtainable(c)
             PROVE  \E results \in ResultSequences, evidence \in EvidenceOffered,
                       summary \in Summaries :
                       LET message == Submission(task.step_id, view.route, results, evidence,
                                                 summary)
                       IN  /\ ValidateResultRequest(message)
                           /\ Reported(Understood(message)) = group
                           /\ Accepted(Understood(message))
  BY DEF OfferedIsAccepted
<1>1. current.step \in Step
  <2>1. current.step \in {Nil} \cup Step
    BY DEF IInv, TypeOK, States
  <2>2. current.step # Nil
    BY DEF Tasks, Project
  <2> QED
    BY <2>1, <2>2
<1>2. task = Task(current)
  BY <1>1, TaskShown
<1>3. current.status # "awaiting_confirmation"
  BY <1>1, BundleFacts DEF IInv, ValidateAgainst, Followable
<1>4. /\ task.step_id = current.step
      /\ task.available_routes = CommonJumpRouteViews \cup AvailableRouteViews(current.step)
  BY <1>2, <1>3 DEF Task
<1>5. view \in AvailableRouteViews(current.step)
  BY <1>4 DEF CommonJumpRouteViews, Followable
<1>6. PICK request \in BusinessRequests :
         /\ request.step = current.step
         /\ request.route = SelectedRoute(view.route)
         /\ Reported(request) = group
         /\ ResultRefusal(Definition, current, request) = OK
  BY <1>1, <1>2, <1>5, ShownPasses
<1> DEFINE confirmed == Confirmed(request)
           evidence == EvidenceFor(request.manifest)
           message == Submission(task.step_id, view.route, request.results, evidence,
                                 request.summary)
<1>7. Accepted(confirmed)
  BY <1>6, PassedIsAccepted, HumanIgnored
<1>8. Reported(confirmed) = group
  <2>1. confirmed.results = request.results
    BY DEF Confirmed
  <2> HIDE DEF confirmed
  <2> QED
    BY <1>6, <2>1 DEF Reported
<1>9. ValidateResultRequest(message) /\ Understood(message) = confirmed
  <2>1. view \in AvailableRouteViews(request.step) /\ task.step_id = request.step
    BY <1>4, <1>5, <1>6
  <2> QED
    BY <1>6, <2>1, MessageUnderstood
<1>10. /\ request.results \in ResultSequences /\ request.summary \in Summaries
       /\ evidence \in EvidenceOffered
  BY EvidenceClaims DEF BusinessRequests
<1> HIDE DEF evidence, confirmed
<1> QED
  BY <1>7, <1>8, <1>9, <1>10

\* For every bundle whose status can be followed, an agent that follows it is never
\* stuck: each Route it is shown, copied as it is shown and with what it asks for,
\* is understood and accepted, after any history of reports and Loops.
THEOREM NeverStuck == ASSUME Followable PROVE Spec => []OfferedIsAccepted
<1>1. ~Definition.controls
  BY DEF Followable
<1>2. Spec => [](current.skipped = {})
  BY <1>1, NothingSkipped
<1>3. IInv /\ current.skipped = {} => OfferedIsAccepted
  BY ShownIsAccepted
<1> QED
  BY <1>2, <1>3, InvariantInductive, PTL
=============================================================================
