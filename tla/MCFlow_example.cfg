\* The example bundle, without common controls: Loops, shared Outputs, and Outputs that
\* come from the Trace binding and from a verification manifest.
SPECIFICATION Spec
CONSTANTS
    value = value
    outcome = outcome
    document = document
    other = other
    NoValue = NoValue
    Summaries = {"reported"}
    Values <- ExampleValues
    Definition <- Example
    Reportable <- ExampleReports
    Documents = {document, other}
    SourceDocument = value
    ManifestOutcomes <- ExampleManifests
    MaxResults = 2
INVARIANTS
    OfferedIsAccepted
    RouteNeverAmbiguous
    TraceOutputsAuthoritative
