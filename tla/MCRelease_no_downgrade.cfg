\* Two updates without any fault: the one that asked for the latest release first switches last.
SPECIFICATION Spec
CONSTANTS
    a = a
    b = b
    NoProc = NoProc
    Procs = {a, b}
    MaxVersion = 2
    Exposed = {"workflow", "author"}
    Retired = {"legacy"}
    MaxCommands = 2
    MaxFaults = 0
PROPERTIES
    NoDowngrade
CHECK_DEADLOCK FALSE
