CONSTANTS
  p1 = p1
  p2 = p2
  NoProcess = NoProcess
  Processes <- TwoProcesses
  Kinds <- AllKinds
  Mishaps <- AllMishaps
  MaxCommands = 3
  MaxMishaps = 2
SPECIFICATION Spec
SYMMETRY Interchangeable
CHECK_DEADLOCK FALSE
INVARIANTS
  LockExcludes
  NoLostUpdate
  FailedLeavesNoTrace
  ExpectedRevisionIsExact
  LedgerFollowsSnapshot
