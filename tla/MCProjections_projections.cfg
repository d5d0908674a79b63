SPECIFICATION Spec
CONSTANTS
  a = a
  b = b
  Procs = {a, b}
  NoProc = NoProc
  MaxEvents = 6
  MaxSnapshots = 1
  MaxFaults = 1
SYMMETRY Symmetry
INVARIANT TypeOK
PROPERTY SyncedDescribesItsStart
PROPERTY CardIsRepaired
PROPERTY TraceIsRepaired
PROPERTY SnapshotsKept
