SPECIFICATION Spec
CONSTANTS
  RequiredCheckKinds <- KindsUsed
  UnconfiguredKinds <- KindsUnconfigured
  ArtifactTypes <- ArtifactTypesUsed
  StatusesRecorded <- StatusesUsed
  MaxRevision = 4
INVARIANTS PersistedIsPortable OperationsMeetSchema SupersededLeadsOn
PROPERTIES HistoryIsKept ImplementsEngineeringState
CHECK_DEADLOCK FALSE
