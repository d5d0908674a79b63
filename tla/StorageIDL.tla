----------------------------- MODULE StorageIDL ------------------------------
(***************************************************************************)
(* The files of a Requirement as the generated storage IDL types them: the *)
(* enums and messages of state.json, output/state.json, a line of          *)
(* events.jsonl and card/projection.json, and the rules that IsValid       *)
(* checks whenever one of them is written or read.  An enum has the member *)
(* Unspecified, which every rule refuses; of an optional field the shape   *)
(* says the values, and no conversion puts in more than one.  The rules do *)
(* not reach into lists and maps.                                          *)
(*                                                                         *)
(* Headers, identifiers, times, titles and the types of Outputs decide     *)
(* nothing here; the Registry profile of a Trace binding and its CLI log   *)
(* are part of its document.                                               *)
(***************************************************************************)
EXTENDS WorkflowView

-----------------------------------------------------------------------------
(* Enums *)

StoredStepStatus ==
    {Unspecified, "ready", "in_progress", "fixing", "blocked", "awaiting_confirmation"}
StoredEvidenceSource == {Unspecified, "human", "system", "ai", "file", "url"}
EventKinds ==
    {Unspecified, "flow_initialized", "flow_progressed", "flow_result", "trace_document_bound",
     "trace_sync_started", "trace_synced"}
StoredEffect == {Unspecified, "advanced", "looped", "completed", "started", "jumped"}
StoredDirection == {Unspecified, "flow", "loop", "start", "jump"}
TraceSyncOutcome == {Unspecified, "succeeded", "partial", "skipped"}
TraceTarget == {Unspecified, "trace_document", "registry", "cli_log_document"}
TraceTargetStatus == {Unspecified, "succeeded", "failed", "skipped"}
TraceTargetErrorCode ==
    {Unspecified, "trace_update_failed", "registry_update_failed", "network_failed",
     "upstream_auth_failed"}

-----------------------------------------------------------------------------
(* Texts that a message may leave empty *)

StepText == {Nil} \cup Step
SummaryText == {NoSummary, WorkflowInitialized} \cup Summaries
DocumentText == {NoValue} \cup Documents

-----------------------------------------------------------------------------
(* state.json and output/state.json *)

StoredEvidence == [source : StoredEvidenceSource]

TraceBinding == [document_url : DocumentText]

Integrations == [trace : SUBSET TraceBinding]

StoredFlowState ==
    [current_step_id : SUBSET StepText, current_step_status : SUBSET StoredStepStatus,
     current_step_summary : SUBSET SummaryText, integrations : Integrations,
     skipped_step_ids : SUBSET Step]

StoredOutput == [value : Values, producer_step_id : StepText]

\* The Outputs of a registry, by their keys.
OutputRegistry == UNION {[keys -> StoredOutput] : keys \in SUBSET Keys(Definition)}

TraceBindingIsValid(binding) == binding.document_url # NoValue

IntegrationsIsValid(integrations) ==
    \A binding \in integrations.trace : TraceBindingIsValid(binding)

StoredFlowStateIsValid(stored) ==
    /\ \A status \in stored.current_step_status : Defined(StoredStepStatus, status)
    /\ IntegrationsIsValid(stored.integrations)

StoredOutputIsValid(output) == output.producer_step_id # Nil

-----------------------------------------------------------------------------
(* events.jsonl *)

FlowInitializedPayload == [step_id : StepText, step_status : StoredStepStatus]

FlowProgressedPayload ==
    [from_step_id : StepText, from_step_status : StoredStepStatus,
     to_step_status : StoredStepStatus, summary : SummaryText]

StoredTransition ==
    [direction : StoredDirection, from_step_id : StepText, to_step_id : SUBSET StepText]

OutputChanges == [accepted : SUBSET Keys(Definition), invalidated : SUBSET Keys(Definition)]

FlowResultPayload ==
    [condition_results : {<< >>} \cup ResultSequences, summary : SummaryText,
     evidence : SUBSET StoredEvidence, effect : StoredEffect, transition : StoredTransition,
     output_changes : OutputChanges]

TraceDocumentBoundPayload ==
    [document_url : DocumentText, previous_document_url : SUBSET DocumentText]

TraceSyncStartedPayload == [targets : SUBSET TraceTarget]

TraceTargetError == [code : TraceTargetErrorCode]

TraceTargetResult ==
    [target : TraceTarget, status : TraceTargetStatus, error : SUBSET TraceTargetError]

TraceSyncedPayload == [outcome : TraceSyncOutcome, targets : SUBSET TraceTargetResult]

\* The union of payloads: a member for every kind.
EventPayload ==
    [flow_initialized : SUBSET FlowInitializedPayload,
     flow_progressed : SUBSET FlowProgressedPayload,
     flow_result : SUBSET FlowResultPayload,
     trace_document_bound : SUBSET TraceDocumentBoundPayload,
     trace_sync_started : SUBSET TraceSyncStartedPayload,
     trace_synced : SUBSET TraceSyncedPayload]

StoredEvent == [kind : EventKinds, payload : EventPayload]

FlowInitializedPayloadIsValid(payload) ==
    payload.step_id # Nil /\ Defined(StoredStepStatus, payload.step_status)

FlowProgressedPayloadIsValid(payload) ==
    /\ payload.from_step_id # Nil
    /\ Defined(StoredStepStatus, payload.from_step_status)
    /\ Defined(StoredStepStatus, payload.to_step_status)
    /\ payload.summary # NoSummary

StoredTransitionIsValid(transition) ==
    Defined(StoredDirection, transition.direction) /\ transition.from_step_id # Nil

FlowResultPayloadIsValid(payload) ==
    /\ payload.condition_results # << >>
    /\ payload.summary # NoSummary
    /\ Defined(StoredEffect, payload.effect)
    /\ StoredTransitionIsValid(payload.transition)

TraceDocumentBoundPayloadIsValid(payload) == payload.document_url # NoValue

TraceSyncStartedPayloadIsValid(payload) == payload.targets # {}

TraceTargetErrorIsValid(error) == Defined(TraceTargetErrorCode, error.code)

TraceTargetResultIsValid(result) ==
    /\ Defined(TraceTarget, result.target)
    /\ Defined(TraceTargetStatus, result.status)
    /\ \A error \in result.error : TraceTargetErrorIsValid(error)

TraceSyncedPayloadIsValid(payload) ==
    Defined(TraceSyncOutcome, payload.outcome) /\ payload.targets # {}

EventPayloadIsValid(payload) ==
    /\ \A p \in payload.flow_initialized : FlowInitializedPayloadIsValid(p)
    /\ \A p \in payload.flow_progressed : FlowProgressedPayloadIsValid(p)
    /\ \A p \in payload.flow_result : FlowResultPayloadIsValid(p)
    /\ \A p \in payload.trace_document_bound : TraceDocumentBoundPayloadIsValid(p)
    /\ \A p \in payload.trace_sync_started : TraceSyncStartedPayloadIsValid(p)
    /\ \A p \in payload.trace_synced : TraceSyncedPayloadIsValid(p)

StoredEventIsValid(event) ==
    Defined(EventKinds, event.kind) /\ EventPayloadIsValid(event.payload)

CountSetFieldsEventPayload(payload) ==
    Cardinality({member \in DOMAIN payload : payload[member] # {}})

-----------------------------------------------------------------------------
(* card/projection.json: the State without what the Registry needs *)

CardProjection ==
    [current_step_id : SUBSET StepText, current_step_status : SUBSET StoredStepStatus,
     current_step_summary : SUBSET SummaryText, outputs : OutputRegistry,
     trace_document_url : SUBSET DocumentText, skipped_step_ids : SUBSET Step]

CardProjectionIsValid(stored) ==
    \A status \in stored.current_step_status : Defined(StoredStepStatus, status)
=============================================================================
