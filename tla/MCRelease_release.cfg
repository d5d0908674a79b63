\* Updates, refreshes, installations and activations race; one step fails or one process is killed.
SPECIFICATION FairSpec
CONSTANTS
    a = a
    b = b
    NoProc = NoProc
    Procs = {a, b}
    MaxVersion = 2
    Exposed = {"workflow", "author"}
    Retired = {"legacy"}
    MaxCommands = 2
    MaxFaults = 1
INVARIANTS
    TypeOK
    CurrentResolves
    EndsAsAnswered
PROPERTIES
    MigrationIsFinal
    CommandsEnd
CHECK_DEADLOCK FALSE
