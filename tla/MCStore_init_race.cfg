\* Two processes initialize the same Requirement, each with the configuration it prepared.
SPECIFICATION Spec
CONSTANTS
    a = a
    b = b
    old = old
    new = new
    NoPin = NoPin
    NoProc = NoProc
    Procs = {a, b}
    Initializers = {a, b}
    Snapshots = {old, new}
    Accepts <- OneWay
    Commands <- Reporters
    MaxEvents = 3
    MaxRebinds = 0
    MaxFaults = 0
    MaxCrashes = 0
INVARIANTS
    PinnedByInitializer
CHECK_DEADLOCK FALSE
