CONSTANTS
  Sessions = {s1, s2}
  Supervisors = {p1, p2}
  Versions = {"v1", "v2"}
  NoVersion = "none"
  Plugins <- SameOrNot
  IdleTimeout = 1
  LeaseTtl = 2
  SweepInterval = 2
SPECIFICATION FairSpec
INVARIANTS
  StaleLeasesExpire
  ForwardsToItsAgent
PROPERTIES
  ExitIsJustified
  EmptySupervisorExits
