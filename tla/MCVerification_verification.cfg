\* A smoke and another command on the same evidence directory: two commands of the candidate
\* misbehave, two writes fail or processes are killed, and somebody cleans up once.
SPECIFICATION Spec
CONSTANTS
    a = a
    b = b
    shared = shared
    NoProc = NoProc
    Procs = {a, b}
    Dirs = {shared}
    MaxDefects = 2
    MaxFaults = 2
    MaxCleanups = 1
INVARIANTS
    TypeOK
    PassedIsEarned
    NothingLeftBehind
PROPERTIES
    OutcomeIsFinal
CHECK_DEADLOCK FALSE
