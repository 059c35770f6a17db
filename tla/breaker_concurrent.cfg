SPECIFICATION FairSpec
CONSTANTS
  Callers = {c1, c2, c3}
  FailureThreshold = 2
  RecoveryThreshold = 2
  BreakDuration = 2
INVARIANTS
  TypeOK
  GateHeldByProbe
  CountersMatchState
PROPERTIES
  Recovers
  Protects
