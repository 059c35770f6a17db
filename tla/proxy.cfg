SPECIFICATION FairSpec
CONSTANTS
  Requests = {r1, r2}
  Backends = {b1, b2}
  NoBackend = NoBackend
  RetryCount = 1
  FailureThreshold = 1
  RecoveryThreshold = 1
  BreakDuration = 1
INVARIANTS
  TypeOK
  GateHeldByForward
  AnswerMatchesAttempts

  
