\* Two processes load, report, rebuild and rebind; one write fails, one process is killed.
SPECIFICATION Spec
CONSTANTS
    a = a
    b = b
    old = old
    new = new
    NoPin = NoPin
    NoProc = NoProc
    Procs = {a, b}
    Initializers = {a}
    Snapshots = {old, new}
    Accepts <- OneWay
    Commands <- Renderers
    MaxEvents = 3
    MaxRebinds = 1
    MaxFaults = 1
    MaxCrashes = 1
INVARIANTS
    TypeOK
    FilesStayTogether
    PinIsAccountedFor
PROPERTIES
    Linear
CHECK_DEADLOCK FALSE
