CONSTANTS
  CriterionIds = {c1}
  QuestionIds = {q1}
  RequiredCheckKinds <- KindsUsed
  UnconfiguredKinds <- KindsUnconfigured
  StatusesRecorded <- StatusesUsed
  MaxEvidence = 3
SPECIFICATION Spec
INVARIANTS
  PlaceCoherent
  ShippedIsEvidenced
  ResolverAgreesWithGuards
PROPERTY ImplementsLifecycle
