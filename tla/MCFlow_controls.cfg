\* The runtime-controls test bundle: jumps, confirmations and Loops.
SPECIFICATION Spec
CONSTANTS
    value = value
    outcome = outcome
    document = document
    other = other
    NoValue = NoValue
    Summaries = {"reported"}
    Values <- ControlledValues
    Definition <- Controlled
    Reportable <- ControlledReports
    Documents = {document}
    SourceDocument = other
    ManifestOutcomes <- NoManifest
    MaxResults = 1
INVARIANTS
    HistoryAgrees
    NothingFromUndoneWork
    OnlyOfferedIsAccepted
    CommitsAreReadable
    RefusalsAreContracted
    ShownDoneIsDone
    TraceViewsAgree
PROPERTIES
    EarlierFactsSurvive
