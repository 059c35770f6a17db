----------------------------- MODULE BreakerOps -----------------------------
(***************************************************************************)
(* The operations of healthmonitor.CircuitBreaker                          *)
(* (internal/healthmonitor/breaker.go) as functions from breaker values to *)
(* breaker values.  Each method body runs under cb.mu, so each one is one  *)
(* atomic step of whoever calls it: CircuitBreaker.tla, GatewayProxy.tla   *)
(* and HealthWorker.tla are built from them.                               *)
(*                                                                         *)
(* Two data abstractions, both exact for what the code compares:           *)
(*   - openedAt is kept as openFor, the time since openedAt, which stops   *)
(*     growing at BreakDuration because the code only asks whether         *)
(*     now - openedAt >= breakDuration;                                    *)
(*   - failureCount stops growing at FailureThreshold because the code     *)
(*     only asks whether it has reached that threshold.                    *)
(***************************************************************************)
EXTENDS Naturals

CONSTANTS
  FailureThreshold,    \* consecutive failures that open the circuit
  RecoveryThreshold,   \* consecutive half-open successes that close it
  BreakDuration        \* time an open circuit waits before half-open

\* What the constructors are given: 3 and 20s (gateway/config.go), 3, 2 and twice
\* the probe interval (healthmonitor/config.go, worker.go), or overrides.
ASSUME FailureThresholdPositive == FailureThreshold \in Nat \ {0}
ASSUME RecoveryThresholdNat == RecoveryThreshold \in Nat
ASSUME BreakDurationPositive == BreakDuration \in Nat \ {0}

BreakerState == {"closed", "open", "half-open"}

\* NewCircuitBreakerWithRecovery raises a recovery threshold below 1 to 1.
EffectiveRecovery == IF RecoveryThreshold < 1 THEN 1 ELSE RecoveryThreshold

Breaker ==
  [ state         : BreakerState,
    failureCount  : 0..FailureThreshold,
    recoveryCount : 0..(EffectiveRecovery - 1),
    openFor       : 0..BreakDuration,
    halfOpenUsed  : BOOLEAN ]

NewBreaker ==
  [ state         |-> "closed",
    failureCount  |-> 0,
    recoveryCount |-> 0,
    openFor       |-> 0,
    halfOpenUsed  |-> FALSE ]

\* n + 1, except that a counter at its bound stays there.
Saturate(n, bound) == IF n < bound THEN n + 1 ELSE bound

\* cb.now().Sub(cb.openedAt) >= cb.breakDuration
Elapsed(cb) == cb.openFor >= BreakDuration

----------------------------------------------------------------------------
\* The boolean that Allow returns.
Allows(cb) ==
  \/ cb.state = "closed"
  \/ cb.state = "open" /\ Elapsed(cb)
  \/ cb.state = "half-open" /\ ~cb.halfOpenUsed

\* Mutant of Allow: the first request after the break leaves the circuit open.
AllowStaysOpen(cb) ==
  IF cb.state = "half-open" THEN [cb EXCEPT !.halfOpenUsed = TRUE] ELSE cb

\* What Allow leaves behind when it returns true; when it returns false it
\* changes nothing.
Allow(cb) ==
  IF cb.state = "closed"
  THEN cb
  ELSE [cb EXCEPT !.state = "half-open", !.halfOpenUsed = TRUE]

\* Mutants of RecordSuccess: a success that does not close the circuit leaves the
\* gate shut; the failures counted before the circuit opened survive its
\* recovery; closing does not reset the count of half-open successes.
RecordSuccessGateStaysShut(cb) ==
  LET recovers == cb.state = "half-open" /\ cb.recoveryCount + 1 >= EffectiveRecovery IN
  [ state         |-> IF recovers \/ cb.state # "half-open" THEN "closed" ELSE "half-open",
    failureCount  |-> 0,
    recoveryCount |-> IF recovers THEN 0
                      ELSE cb.recoveryCount + (IF cb.state = "half-open" THEN 1 ELSE 0),
    openFor       |-> cb.openFor,
    halfOpenUsed  |-> cb.state = "half-open" /\ ~recovers ]

RecordSuccessKeepsFailures(cb) ==
  LET recovers == cb.state = "half-open" /\ cb.recoveryCount + 1 >= EffectiveRecovery IN
  [ state         |-> IF recovers \/ cb.state # "half-open" THEN "closed" ELSE "half-open",
    failureCount  |-> cb.failureCount,
    recoveryCount |-> IF recovers THEN 0
                      ELSE cb.recoveryCount + (IF cb.state = "half-open" THEN 1 ELSE 0),
    openFor       |-> cb.openFor,
    halfOpenUsed  |-> FALSE ]

RecordSuccessKeepsRecovery(cb) ==
  LET recovers == cb.state = "half-open" /\ cb.recoveryCount + 1 >= EffectiveRecovery IN
  [ state         |-> IF recovers \/ cb.state # "half-open" THEN "closed" ELSE "half-open",
    failureCount  |-> 0,
    recoveryCount |-> cb.recoveryCount + (IF cb.state = "half-open" THEN 1 ELSE 0),
    openFor       |-> cb.openFor,
    halfOpenUsed  |-> FALSE ]

\* A success.  In half-open it counts towards recovery and lets the next probe
\* through; in every other state, open included, it closes the circuit.
RecordSuccess(cb) ==
  LET recovers == cb.state = "half-open" /\ cb.recoveryCount + 1 >= EffectiveRecovery IN
  [ state         |-> IF recovers \/ cb.state # "half-open" THEN "closed" ELSE "half-open",
    failureCount  |-> 0,
    recoveryCount |-> IF recovers THEN 0
                      ELSE cb.recoveryCount + (IF cb.state = "half-open" THEN 1 ELSE 0),
    openFor       |-> cb.openFor,
    halfOpenUsed  |-> FALSE ]

\* Mutants of RecordFailure: reopening forgets to reopen the gate; a half-open
\* failure below the threshold does not reopen the circuit.
RecordFailureKeepsGate(cb) ==
  LET count == Saturate(cb.failureCount, FailureThreshold)
      trips == cb.state = "half-open" \/ count >= FailureThreshold IN
  [ state         |-> IF trips THEN "open" ELSE cb.state,
    failureCount  |-> count,
    recoveryCount |-> 0,
    openFor       |-> IF trips THEN 0 ELSE cb.openFor,
    halfOpenUsed  |-> cb.halfOpenUsed ]

RecordFailureIgnoresHalfOpen(cb) ==
  LET count == Saturate(cb.failureCount, FailureThreshold)
      trips == count >= FailureThreshold IN
  [ state         |-> IF trips THEN "open" ELSE cb.state,
    failureCount  |-> count,
    recoveryCount |-> 0,
    openFor       |-> IF trips THEN 0 ELSE cb.openFor,
    halfOpenUsed  |-> IF trips THEN FALSE ELSE cb.halfOpenUsed ]

\* A failure: counted in every state, and it (re)opens the circuit in half-open
\* or once the count has reached the threshold; a circuit that is already open
\* starts its break afresh.
RecordFailure(cb) ==
  LET count == Saturate(cb.failureCount, FailureThreshold)
      trips == cb.state = "half-open" \/ count >= FailureThreshold IN
  [ state         |-> IF trips THEN "open" ELSE cb.state,
    failureCount  |-> count,
    recoveryCount |-> 0,
    openFor       |-> IF trips THEN 0 ELSE cb.openFor,
    halfOpenUsed  |-> IF trips THEN FALSE ELSE cb.halfOpenUsed ]

\* State(): reading the state of an open circuit whose break is over moves it
\* to half-open (and leaves halfOpenUsed as it is).
ReadState(cb) ==
  IF cb.state = "open" /\ Elapsed(cb) THEN [cb EXCEPT !.state = "half-open"] ELSE cb

\* One unit of the clock behind cb.now; only an open circuit looks at it.
Age(cb) ==
  IF cb.state = "open" THEN [cb EXCEPT !.openFor = Saturate(@, BreakDuration)] ELSE cb
=============================================================================
