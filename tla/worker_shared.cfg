SPECIFICATION Spec
CONSTANTS
  s1 = s1
  s2 = s2
  i1 = i1
  IDs = {i1}
  Services = {s1, s2}
  Placements <- Shared
  Probeless <- SharedProbeless
  FailureThreshold = 2
  RecoveryThreshold = 2
  BreakDuration = 1
INVARIANTS
  TypeOK
  GateHeldByTask
PROPERTIES
  CycleCoversRegistered
