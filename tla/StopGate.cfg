CONSTANTS
  Sessions = {s1, s2}
  Derived = "remote"
  Env <- UnsetEnv
  Unit = 2
  Offset = 1
  MaxTime = 3
  MaxCommits = 1
  MaxStarts = 3
SYMMETRY Symmetric
SPECIFICATION GateSpec
INVARIANTS
  EndedSessionsHoldNoLease
PROPERTIES
  PassesHaveACause
  BlocksAreDeserved
