CONSTANTS
  Tasks = {t1, t2}
  Holders = {s1, s2}
  NoHolder = NoHolder
  Default = 1
  Durations = {0, 1, 2}
  MaxClock = 3
  MaxTokens = 3
SPECIFICATION LeaseSpec
INVARIANTS
  LeaseExcludes
PROPERTIES
  DeadTokensStayDead
CHECK_DEADLOCK FALSE
