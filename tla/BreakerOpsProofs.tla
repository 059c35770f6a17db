--------------------------- MODULE BreakerOpsProofs ---------------------------
(***************************************************************************)
(* Lemmas on the operations of BreakerOps.tla: each method keeps a breaker *)
(* value sound, and what it does to the half-open gate.  The proofs about  *)
(* every user of a breaker rest on them.                                   *)
(***************************************************************************)
EXTENDS BreakerOps, TLAPS

\* What every breaker value the methods leave behind satisfies: its type, its gate
\* shut in half-open only, its counters those of its state.
Sound(b) ==
  /\ b \in Breaker
  /\ b.halfOpenUsed => b.state = "half-open"
  /\ b.state = "closed" => b.failureCount < FailureThreshold
  /\ b.recoveryCount > 0 => b.state = "half-open"

\* NewCircuitBreakerWithRecovery never leaves a recovery threshold below 1.
LEMMA EffectiveRecoveryPositive == EffectiveRecovery \in Nat \ {0}
  BY RecoveryThresholdNat DEF EffectiveRecovery

\* NewCircuitBreaker returns a sound breaker with its gate open.
LEMMA NewBreakerSound == Sound(NewBreaker) /\ ~NewBreaker.halfOpenUsed
  BY EffectiveRecoveryPositive, FailureThresholdPositive, BreakDurationPositive
  DEF Sound, NewBreaker, Breaker, BreakerState

\* Allow, when it returns true, keeps a breaker sound and shuts the gate exactly
\* when it admits a probe: the breaker it leaves is then half-open.
LEMMA AllowSound ==
  ASSUME NEW b, Sound(b), Allows(b)
  PROVE  /\ Sound(Allow(b))
         /\ Allow(b).halfOpenUsed <=> b.state # "closed"
         /\ Allow(b).state # "open"
  BY DEF Sound, Allows, Allow, Breaker, BreakerState

\* RecordSuccess keeps a breaker sound and opens the gate.
LEMMA RecordSuccessSound ==
  ASSUME NEW b, Sound(b)
  PROVE  Sound(RecordSuccess(b)) /\ ~RecordSuccess(b).halfOpenUsed
  BY EffectiveRecoveryPositive, FailureThresholdPositive
  DEF Sound, RecordSuccess, Breaker, BreakerState

\* RecordFailure keeps a breaker sound and opens the gate.
LEMMA RecordFailureSound ==
  ASSUME NEW b, Sound(b)
  PROVE  Sound(RecordFailure(b)) /\ ~RecordFailure(b).halfOpenUsed
<1> DEFINE count == Saturate(b.failureCount, FailureThreshold)
           trips == b.state = "half-open" \/ count >= FailureThreshold
<1>1. count \in 0..FailureThreshold
  BY FailureThresholdPositive DEF Sound, Breaker, Saturate
<1>2. CASE trips
  <2>1. RecordFailure(b) =
          [ state |-> "open", failureCount |-> count, recoveryCount |-> 0,
            openFor |-> 0, halfOpenUsed |-> FALSE ]
    BY <1>2 DEF RecordFailure
  <2> HIDE DEF count
  <2> QED
    BY <1>1, <2>1, EffectiveRecoveryPositive, BreakDurationPositive
    DEF Sound, Breaker, BreakerState
<1>3. CASE ~trips
  <2>1. b.halfOpenUsed = FALSE
    BY <1>3 DEF Sound, Breaker
  <2>2. RecordFailure(b) =
          [ state |-> b.state, failureCount |-> count, recoveryCount |-> 0,
            openFor |-> b.openFor, halfOpenUsed |-> FALSE ]
    BY <1>3, <2>1 DEF RecordFailure
  <2>3. count < FailureThreshold
    BY <1>1, <1>3, FailureThresholdPositive
  <2> HIDE DEF count
  <2> QED
    BY <1>1, <2>2, <2>3, EffectiveRecoveryPositive DEF Sound, Breaker, BreakerState
<1> QED BY <1>2, <1>3

\* State() keeps a breaker sound and leaves the gate as it is.
LEMMA ReadStateSound ==
  ASSUME NEW b, Sound(b)
  PROVE  Sound(ReadState(b)) /\ ReadState(b).halfOpenUsed = b.halfOpenUsed
  BY DEF Sound, ReadState, Breaker, BreakerState

\* The clock keeps a breaker sound and leaves the gate as it is.
LEMMA AgeSound ==
  ASSUME NEW b, Sound(b)
  PROVE  Sound(Age(b)) /\ Age(b).halfOpenUsed = b.halfOpenUsed /\ Age(b).state = b.state
  BY BreakDurationPositive DEF Sound, Age, Saturate, Breaker, BreakerState
=============================================================================
