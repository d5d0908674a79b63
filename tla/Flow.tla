-------------------------------- MODULE Flow --------------------------------
(***************************************************************************)
(* The flow runtime of one Requirement (internal/flow/runtime.go) with     *)
(* `trace bind`, the other command that commits to it: every command loads *)
(* the State, decides, and commits one Event.  A command is one atomic     *)
(* step here; module Store interleaves the file operations inside it.      *)
(*                                                                         *)
(* `replayed` is what ValidateHistory computes from the committed Events:  *)
(* every commit replays the new Event on it and compares the result with   *)
(* the State it is about to write.  `reply` is the last command's error    *)
(* code, OK when it was accepted.                                          *)
(***************************************************************************)
EXTENDS FlowState

CONSTANTS
    Definition,        \* the Workflow the Requirement is bound to
    Documents,         \* URLs that can be bound as the Trace document
    SourceDocument,    \* the Requirement's source_url
    Reportable,        \* the ConditionResults [id, value] reports are made of
    ManifestOutcomes,  \* what the manifest.json Evidence of a report may say
    MaxResults         \* bound: ConditionResults in one report

VARIABLES initialized, current, replayed, reply

vars == <<initialized, current, replayed, reply>>

ASSUME BundleAssumption == IsBundle(Definition, Values) /\ ValidBundle(Definition)

ASSUME ParametersAssumption ==
    /\ Documents \subseteq Values
    /\ NoValue \notin Values
    /\ ManifestOutcomes \subseteq Values \cup {NoValue}
    /\ MaxResults \in Nat

\* A report need not come with a manifest, and one without a summary is refused.
ASSUME ReportAssumption == NoValue \in ManifestOutcomes /\ NoSummary \notin Summaries

-----------------------------------------------------------------------------
(* Requests *)

Step == Steps(Definition)

ResultSequences == UNION {[1..n -> Reportable] : n \in 1..MaxResults}

BusinessRequests ==
    [step : Step,
     route : [kind : {"next", "back"}, to : Step] \cup [kind : {"terminal"}, to : {Terminal}],
     results : ResultSequences, human : {FALSE}, manifest : ManifestOutcomes, summary : Summaries]

ControlRequests ==
    [step : Step,
     route : [kind : {"start"}, to : {Terminal}] \cup [kind : {"jump"}, to : Step],
     results : ResultSequences, human : BOOLEAN,
     manifest : {NoValue}, summary : Summaries]

Requests == BusinessRequests \cup ControlRequests

-----------------------------------------------------------------------------
(* Load and commit *)

Blank == [step |-> Nil, status |-> NoStatus, summary |-> NoSummary,
          outputs |-> Unregistered(Definition), skipped |-> {}, trace |-> NoValue]

\* Store.LoadBound, with ValidateHistory's comparison of the tail
LoadRefusal ==
    IF ~initialized THEN "NOT_INITIALIZED"
    ELSE IF \/ ~ValidateAgainst(Definition, current)
            \/ ReplayedState(Definition, replayed) # current THEN "STATE_CORRUPT"
    ELSE OK

\* validateAndCommit, then Store.Commit's validateCommit
CommitRefusal(next, event) ==
    IF ~Validate(next) \/ ~ValidateAgainst(Definition, next) THEN "INTERNAL"
    ELSE IF \/ ~ValidNewEvent(Definition, event)
            \/ ~Replays(Definition, replayed, event)
            \/ ReplayedState(Definition, Replay(Definition, replayed, event)) # next
    THEN "STATE_CORRUPT"
    ELSE OK

Refuse(code) == reply' = code /\ UNCHANGED <<initialized, current, replayed>>

Commit(next, event) ==
    IF CommitRefusal(next, event) # OK THEN Refuse(CommitRefusal(next, event))
    ELSE /\ initialized' = TRUE
         /\ current' = next
         /\ replayed' = Replay(Definition, replayed, event)
         /\ reply' = OK

-----------------------------------------------------------------------------
(* Commands *)

FlowInit ==
    IF initialized THEN Refuse("ALREADY_INITIALIZED")
    ELSE Commit([Blank EXCEPT !.step = FirstStepID,
                              !.status = EntryStepStatus(Definition),
                              !.summary = WorkflowInitialized],
                [kind |-> "flow.initialized", step |-> FirstStepID,
                 status |-> EntryStepStatus(Definition)])

ProgressRefusal(step) ==
    IF LoadRefusal # OK THEN LoadRefusal
    ELSE IF CurrentStepRefusal(current, step) # OK THEN CurrentStepRefusal(current, step)
    ELSE IF current.status = "awaiting_confirmation" THEN "REPORT_NOT_ALLOWED"
    ELSE OK

Progress(step, status, summary) ==
    IF ProgressRefusal(step) # OK THEN Refuse(ProgressRefusal(step))
    ELSE Commit([current EXCEPT !.status = status, !.summary = summary],
                [kind |-> "flow.progressed", from |-> step, fromStatus |-> current.status,
                 to |-> status, summary |-> summary])

Result(request) ==
    IF LoadRefusal # OK THEN Refuse(LoadRefusal)
    ELSE IF ResultRefusal(Definition, current, request) # OK
    THEN Refuse(ResultRefusal(Definition, current, request))
    ELSE Commit(EvaluatedState(Definition, current, request),
                ResultPayload(Definition, current, request))

\* trace/runtime.go: a document may not be the Requirement's source or the
\* value of a registered Output.
ProtectedDocument(document) ==
    \/ document = SourceDocument
    \/ \E k \in DOMAIN current.outputs :
          current.outputs[k].producer # Nil /\ current.outputs[k].value = document

BindRefusal_Rebinds(document) ==
    IF LoadRefusal # OK THEN LoadRefusal
    ELSE IF ProtectedDocument(document) THEN "PROTECTED_DOCUMENT"
    ELSE IF current.trace = document THEN "unchanged"
    ELSE OK

BindRefusal(document) ==
    IF LoadRefusal # OK THEN LoadRefusal
    ELSE IF ProtectedDocument(document) THEN "PROTECTED_DOCUMENT"
    ELSE IF current.trace = document THEN "unchanged"
    ELSE IF current.trace # NoValue THEN "INVALID_ARGUMENT"
    ELSE OK

BindTrace(document) ==
    IF BindRefusal(document) # OK THEN Refuse(BindRefusal(document))
    ELSE Commit([current EXCEPT !.trace = document],
                [kind |-> "trace.document_bound", previous |-> current.trace,
                 document |-> document])

-----------------------------------------------------------------------------

Init ==
    /\ initialized = FALSE
    /\ current = Blank
    /\ replayed = EmptyReplay(Definition)
    /\ reply = OK

Next ==
    \/ FlowInit
    \/ \E step \in Step, status \in Running, summary \in Summaries :
          Progress(step, status, summary)
    \/ \E request \in BusinessRequests : Result(request)
    \/ \E request \in ControlRequests : Result(request)
    \/ \E document \in Documents : BindTrace(document)

Spec == Init /\ [][Next]_vars

-----------------------------------------------------------------------------
(* Properties *)

Registered(k) == current.outputs[k].producer # Nil

Codes ==
    {OK, "ALREADY_INITIALIZED", "NOT_INITIALIZED", "STATE_CORRUPT", "INTERNAL",
     "REPORT_NOT_ALLOWED", "STEP_NOT_CURRENT", "CONDITION_CONFLICT",
     "CONDITION_NOT_ALLOWED", "OUTPUT_INVALID", "ROUTE_NOT_ALLOWED",
     "ROUTE_NOT_MATCHED", "ROUTE_AMBIGUOUS", "PROTECTED_DOCUMENT",
     "INVALID_ARGUMENT", "unchanged"}

Outputs ==
    [Keys(Definition) ->
        [producer : Step, value : Values] \cup {NoOutput}]

States ==
    [step : {Nil} \cup Step, status : Statuses \cup {NoStatus},
     summary : Summaries \cup {NoSummary, WorkflowInitialized},
     outputs : Outputs, skipped : SUBSET Step, trace : Documents \cup {NoValue}]

Replayed ==
    [step : {Nil} \cup Step, status : Statuses \cup {NoStatus},
     summary : Summaries \cup {NoSummary, WorkflowInitialized},
     outputs : Outputs, skipped : SUBSET Step, trace : Documents \cup {NoValue},
     pending : {NoEffect, "advanced", "looped", "completed", "started", "jumped"}]

\* The type invariant.
TypeOK ==
    /\ initialized \in BOOLEAN
    /\ current \in States
    /\ replayed \in Replayed
    /\ reply \in Codes

\* The two readings of a report agree: whatever evaluateResult, Progress, Init
\* or Bind accepts, the independent replay of the Event history accepts too and
\* ends in the very State that was written, so no command is ever answered
\* STATE_CORRUPT on a Requirement that only the runtime has written.
HistoryAgrees ==
    /\ reply # "STATE_CORRUPT"
    /\ ReplayedState(Definition, replayed) = current

\* ROUTE_AMBIGUOUS is dead code under a validated bundle: the pairwise static
\* check of validateFlowAmbiguity and validateLoopAmbiguity covers every set of
\* Conditions a report can carry past the exclusive groups.
RouteNeverAmbiguous == reply # "ROUTE_AMBIGUOUS"

\* An Output cannot be taken from work that a return has undone.  Of the
\* Outputs produced at the cursor or behind it (which only a Loop's own report
\* can leave there), all come from one Step: every later return invalidates
\* them before a second Step can add its own.  And after a Jump, until the next
\* report moves the cursor, nothing the target or a later Step produced is
\* registered and no skipped Step produced anything (ADR 0102: a Jump
\* invalidates the target's and later Outputs).
NothingFromUndoneWork ==
    LET ahead(k) == Registered(k) /\ current.outputs[k].producer >= current.step IN
    /\ current.step # Nil =>
          \A k, l \in Keys(Definition) :
              ahead(k) /\ ahead(l) => current.outputs[k].producer = current.outputs[l].producer
    /\ replayed.pending = "jumped" =>
          \A k \in Keys(Definition) :
              Registered(k) => /\ ~ahead(k)
                               /\ current.outputs[k].producer \notin current.skipped

\* An Output whose only source is the Trace binding always names the document
\* that is bound, however many reports, Loops and Jumps lie in between: the
\* value is checked once, when it is reported, and the binding never moves.
TraceOutputsAuthoritative ==
    \A k \in Keys(Definition) :
        /\ Registered(k)
        /\ \A c \in Definition.conditions :
              Definition.key[c] = k => Definition.source[c] = "trace_document_url"
        => current.outputs[k].value = current.trace

\* A return to an earlier Step, or any other move, keeps what Steps before the
\* new cursor have produced, unless this very report registers it anew
\* (CONTEXT.md: a Loop keeps the facts of earlier Steps).
EarlierFactsSurvive ==
    [][\A k \in Keys(Definition) :
          Registered(k) /\ current.outputs[k].producer < current'.step =>
              \/ current'.outputs[k] = current.outputs[k]
              \/ current'.outputs[k].producer = current.step]_vars

-----------------------------------------------------------------------------
(* What the documents promise of the common controls *)

Accepted(request) ==
    /\ ResultRefusal(Definition, current, request) = OK
    /\ CommitRefusal(EvaluatedState(Definition, current, request),
                     ResultPayload(Definition, current, request)) = OK

AtAStep == initialized /\ current.step # Nil

\* technical-design.md and ADR 0102: a Jump can be used at any running Step,
\* to any real Step.
JumpUsable ==
    AtAStep /\ Definition.controls =>
        \A target \in Step : \E request \in ControlRequests :
            /\ request.route = [kind |-> "jump", to |-> target]
            /\ Accepted(request)
=============================================================================
