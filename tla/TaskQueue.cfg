CONSTANTS
  Tasks = {t1}
  NoTask = NoTask
  Jobs = {j1, j2}
  Conns = {c1, c2}
  MaxAttempts = 2
  MaxBackoff = 1
  MaxFaults = 2
  MaxLapses = 1
SPECIFICATION FairSpec
INVARIANTS
  SubscriptionSurvives
  WorksAreClaimed
PROPERTIES
  TasksAreSettled
