------------------------------- MODULE TraceIDL -------------------------------
(***************************************************************************)
(* The messages of the trace commands (the generated trace IDL), the       *)
(* message of trace/config.json (storage IDL), and the Registry profiles   *)
(* that are compiled into a release (internal/traceconfig).  As in module  *)
(* StorageIDL a shape says the values of a message and IsValid which of    *)
(* them are accepted.                                                      *)
(*                                                                         *)
(* The moment of an Event is its position in the history, 0 the empty text *)
(* of a time.  A coordinate of the Registry table is empty, the one that   *)
(* is compiled in, or the one that an environment variable gives.          *)
(***************************************************************************)
EXTENDS Persistence

-----------------------------------------------------------------------------
(* traceconfig/registry.go *)

RegistryProfile == {Unspecified, "production", "test"}
Coordinates == {"url", "base_token", "table_id", "view_id"}
Coordinate == {"", "embedded", "environment"}

\* The fields every lark table must map are given or not as a whole.
Registry ==
    [profile : {"production", "test"}, provider : {"lark", "none"},
     coordinates : [Coordinates -> {"", "embedded"}], fields : BOOLEAN,
     require_cli_log_document : BOOLEAN, cli_log_url : BOOLEAN]

ValidateRegistry(registry) ==
    IF registry.provider = "none"
    THEN /\ \A c \in Coordinates : registry.coordinates[c] = ""
         /\ ~registry.require_cli_log_document /\ ~registry.fields
    ELSE /\ \A c \in Coordinates : registry.coordinates[c] # ""
         /\ registry.fields
         /\ registry.require_cli_log_document = registry.cli_log_url

Disabled(registry) == registry.provider = "none"

\* environment: the coordinates whose variable is set
ApplyRuntimeOverrides(registry, environment) ==
    IF Disabled(registry) THEN registry
    ELSE [registry EXCEPT !.coordinates =
            [c \in Coordinates |-> IF c \in environment THEN "environment" ELSE @[c]]]

\* The Registry a command may work with.
Resolved ==
    {ApplyRuntimeOverrides(registry, environment) :
        registry \in {r \in Registry : ValidateRegistry(r)}, environment \in SUBSET Coordinates}

-----------------------------------------------------------------------------
(* Enums *)

TraceBindEffect == {Unspecified, "bound", "unchanged"}
PublicSyncOutcome == {Unspecified, "succeeded", "partial", "skipped"}
PublicTarget == {Unspecified, "trace_document", "registry", "cli_log_document"}
PublicTargetStatus == {Unspecified, "succeeded", "failed", "skipped"}

-----------------------------------------------------------------------------
(* Requests and responses *)

PublicTargetError == [code : ErrorCode \cup {Unspecified}]

PublicTargetResult ==
    [target : PublicTarget, status : PublicTargetStatus, error : SUBSET PublicTargetError]

TraceRegistry == [profile : {"", "production", "test"}, coordinates : [Coordinates -> Coordinate]]

TraceLastSync ==
    [occurred_at : Nat, outcome : PublicSyncOutcome, targets : SUBSET PublicTargetResult]

TraceBindRequest ==
    [document_url : DocumentText, registry : Field({"", "production", "test", "other"}),
     cli_log_document_url : BOOLEAN]

TraceBindResponse == [effect : TraceBindEffect]

TraceStatusResponse ==
    [document_url : SUBSET DocumentText, registry : SUBSET TraceRegistry, event_count : Int,
     last_sync : SUBSET TraceLastSync, cli_log_document_url : BOOLEAN]

TraceRenderResponse == [event_count : Int, projection_path : {"", "events.md"}]

TraceSyncResponse == [outcome : PublicSyncOutcome, targets : SUBSET PublicTargetResult]

PublicTargetErrorIsValid(error) == Defined(ErrorCode, error.code)

PublicTargetResultIsValid(result) ==
    /\ Defined(PublicTarget, result.target)
    /\ Defined(PublicTargetStatus, result.status)
    /\ \A error \in result.error : PublicTargetErrorIsValid(error)

TraceRegistryIsValid(registry) ==
    registry.profile # "" /\ \A c \in Coordinates : registry.coordinates[c] # ""

TraceLastSyncIsValid(sync) == sync.occurred_at > 0 /\ Defined(PublicSyncOutcome, sync.outcome)

TraceBindRequestIsValid(request) == request.document_url # NoValue

TraceBindResponseIsValid(response) == Defined(TraceBindEffect, response.effect)

TraceStatusResponseIsValid(response) ==
    /\ \A registry \in response.registry : TraceRegistryIsValid(registry)
    /\ response.event_count >= 0
    /\ \A sync \in response.last_sync : TraceLastSyncIsValid(sync)

TraceRenderResponseIsValid(response) ==
    response.event_count >= 0 /\ response.projection_path # ""

TraceSyncResponseIsValid(response) == Defined(PublicSyncOutcome, response.outcome)

-----------------------------------------------------------------------------
(* trace/config.json *)

\* Of each target when it succeeded last and with which code its last attempt
\* failed; of the whole sync the failures of the last one, by target.
TraceConfig ==
    [trace_document_url : SUBSET DocumentText, cli_log_document_url : BOOLEAN,
     registry_profile : SUBSET RegistryProfile,
     registry : SUBSET [Coordinates -> Coordinate],
     last_sync_at : Nat, last_sync_error : SUBSET (PublicTarget \X ErrorCode),
     target_last_sync_at : [PublicTarget \ {Unspecified} -> Nat],
     target_last_sync_error : [PublicTarget \ {Unspecified} -> ErrorCode \cup {OK}]]

TraceConfigIsValid(config) ==
    \A profile \in config.registry_profile : Defined(RegistryProfile, profile)
=============================================================================
