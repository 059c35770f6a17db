SPECIFICATION Spec
CONSTANTS
  Requests = {r1}
  Backends = {b1}
  NoBackend = NoBackend
  RetryCount = 1
  FailureThreshold = 2
  RecoveryThreshold = 1
  BreakDuration = 1
INVARIANTS
  RetriesSendTheRequest
