SPECIFICATION Spec
CONSTANTS
  Procs = {a, b}
  Newest <- MCNewest
  MaxFaults = 1
  Invalid <- MCInvalid
INVARIANT CurrentIsValid
INVARIANT OneBinding
INVARIANT ReportsTheActiveVersion
INVARIANT FailureKeepsTheBinding
PROPERTY SyncNeverGoesBack
PROPERTY LockIsReleased
