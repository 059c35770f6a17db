\* Callers that never overlap: the setting of the comments in breaker.go.
SPECIFICATION Spec
CONSTANTS
  Callers = {c1}
  FailureThreshold = 3
  RecoveryThreshold = 3
  BreakDuration = 3
INVARIANTS
  NoLateResults
PROPERTIES
  ImplementsContract
