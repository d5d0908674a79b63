\* A Jump at a running Step, after a self-Loop, against ADR 0102.
SPECIFICATION Spec
CONSTANTS
    value = value
    outcome = outcome
    document = document
    other = other
    NoValue = NoValue
    Summaries = {"reported"}
    Values <- ControlledValues
    Definition <- Controlled
    Reportable <- ControlledReports
    Documents = {document}
    SourceDocument = other
    ManifestOutcomes <- NoManifest
    MaxResults = 1
INVARIANT JumpUsable
