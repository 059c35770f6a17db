------------------------ MODULE CircuitBreakerProofs ------------------------
(***************************************************************************)
(* Proofs, for any set of callers and any thresholds and break, of what    *)
(* CircuitBreaker.tla states of a breaker: its types, the half-open gate,  *)
(* its counters, and, for callers that never overlap, that it implements   *)
(* the documented state machine.                                           *)
(***************************************************************************)
EXTENDS CircuitBreaker, BreakerOpsProofs

----------------------------------------------------------------------------
(* The invariants, for any callers. *)

\* What the state invariants say together, with the breaker's part as Sound.
IInv == TypeOK /\ Sound(cb) /\ GateHeldByProbe

\* The initial states satisfy the inductive invariant.
LEMMA InitIInv == Init => IInv
  BY NewBreakerSound
  DEF Init, IInv, TypeOK, GateHeldByProbe, Control, Sound

\* Every step of every actor preserves the inductive invariant.
LEMMA NextIInv == IInv /\ [Next]_vars => IInv'
<1> SUFFICES ASSUME IInv, [Next]_vars
             PROVE  IInv'
  OBVIOUS
<1> USE DEF IInv
<1>1. ASSUME NEW c \in Callers, Call(c)
      PROVE  IInv'
  <2>1. Sound(cb') /\ (cb'.halfOpenUsed <=> cb.state # "closed")
    BY <1>1, AllowSound DEF Call
  <2>2. TypeOK'
    BY <1>1, <2>1 DEF Call, TypeOK, Sound, Control
  <2>3. pc'[c] = "waiting" /\ probe'[c] = (cb.state # "closed")
    BY <1>1 DEF Call, TypeOK
  <2>4. GateHeldByProbe'
    BY <2>1, <2>3, Zenon DEF GateHeldByProbe, InFlight, Sound
  <2> QED BY <2>1, <2>2, <2>4 DEF Sound
<1>2. ASSUME NEW c \in Callers, Answer(c)
      PROVE  IInv'
  <2>1. TypeOK' /\ cb' = cb /\ probe' = probe
    BY <1>2 DEF Answer, TypeOK, Control
  <2>2. \A d \in Callers : InFlight(d) => InFlight(d)'
    BY <1>2 DEF Answer, TypeOK, InFlight
  <2>3. GateHeldByProbe'
    BY <2>1, <2>2 DEF GateHeldByProbe
  <2> QED BY <2>1, <2>3 DEF Sound
<1>3. ASSUME NEW c \in Callers, RecordOk(c)
      PROVE  IInv'
  <2>1. Sound(cb') /\ ~cb'.halfOpenUsed
    BY <1>3, RecordSuccessSound DEF RecordOk
  <2>2. TypeOK'
    BY <1>3, <2>1 DEF RecordOk, TypeOK, Sound, Control
  <2> QED BY <2>1, <2>2 DEF Sound, GateHeldByProbe
<1>4. ASSUME NEW c \in Callers, RecordFailed(c)
      PROVE  IInv'
  <2>1. Sound(cb') /\ ~cb'.halfOpenUsed
    BY <1>4, RecordFailureSound DEF RecordFailed
  <2>2. TypeOK'
    BY <1>4, <2>1 DEF RecordFailed, TypeOK, Sound, Control
  <2> QED BY <2>1, <2>2 DEF Sound, GateHeldByProbe
<1>5. CASE Observe
  <2>1. Sound(cb') /\ cb'.halfOpenUsed = cb.halfOpenUsed
    BY <1>5, ReadStateSound DEF Observe
  <2>2. TypeOK'
    BY <1>5, <2>1 DEF Observe, TypeOK, Sound
  <2>3. GateHeldByProbe'
    BY <1>5, <2>1 DEF Observe, GateHeldByProbe, InFlight, Sound
  <2> QED BY <2>1, <2>2, <2>3 DEF Sound
<1>6. CASE Tick
  <2>1. Sound(cb') /\ cb'.halfOpenUsed = cb.halfOpenUsed
    BY <1>6, AgeSound DEF Tick
  <2>2. TypeOK'
    BY <1>6, <2>1 DEF Tick, TypeOK, Sound
  <2>3. GateHeldByProbe'
    BY <1>6, <2>1 DEF Tick, GateHeldByProbe, InFlight, Sound
  <2> QED BY <2>1, <2>2, <2>3 DEF Sound
<1>7. CASE Outage
  BY <1>7 DEF Outage, TypeOK, Sound, GateHeldByProbe, InFlight
<1>8. CASE UNCHANGED vars
  BY <1>8 DEF vars, TypeOK, Sound, GateHeldByProbe, InFlight
<1> QED
  BY <1>1, <1>2, <1>3, <1>4, <1>5, <1>6, <1>7, <1>8 DEF Next

\* The inductive invariant holds throughout.
LEMMA Invariance == Spec => []IInv
  BY InitIInv, NextIInv, PTL DEF Spec

\* Type correctness, whatever the callers do.
THEOREM TypeCorrect == Spec => []TypeOK
<1>1. IInv => TypeOK
  BY DEF IInv
<1> QED BY <1>1, Invariance, PTL

\* No breaker is ever wedged: a shut half-open gate belongs to a request that
\* has still to be recorded, for any number of callers.
THEOREM GateNeverLost == Spec => []GateHeldByProbe
<1>1. IInv => GateHeldByProbe
  BY DEF IInv
<1> QED BY <1>1, Invariance, PTL

\* Failure and recovery counters always belong to the state they are counted in.
THEOREM CountersSound == Spec => []CountersMatchState
<1>1. IInv => CountersMatchState
  BY DEF IInv, Sound, CountersMatchState
<1> QED BY <1>1, Invariance, PTL

----------------------------------------------------------------------------
(* Callers that never overlap. *)

\* At most one caller: Allow, the request and its record are never interleaved
\* with another caller's.
OneCaller == \A c, d \in Callers : c = d

\* With one caller, no result is outstanding while the circuit is open.
LEMMA NextNoLateResults ==
  OneCaller /\ IInv /\ NoLateResults /\ [Next]_vars => NoLateResults'
<1> SUFFICES ASSUME OneCaller, IInv, NoLateResults, [Next]_vars
             PROVE  NoLateResults'
  OBVIOUS
<1> USE DEF NoLateResults, InFlight
<1>1. ASSUME NEW c \in Callers, Call(c)
      PROVE  NoLateResults'
  BY <1>1, AllowSound DEF Call, IInv
<1>2. ASSUME NEW c \in Callers, Answer(c)
      PROVE  NoLateResults'
  BY <1>2 DEF Answer, IInv, TypeOK
<1>3. ASSUME NEW c \in Callers, RecordOk(c) \/ RecordFailed(c)
      PROVE  NoLateResults'
  <2>1. pc'[c] = "idle"
    BY <1>3 DEF RecordOk, RecordFailed, IInv, TypeOK
  <2> QED BY <2>1 DEF OneCaller
<1>4. CASE Observe
  BY <1>4 DEF Observe, ReadState, IInv, Sound, Breaker
<1>5. CASE Tick
  BY <1>5, AgeSound DEF Tick, IInv
<1>6. CASE Outage \/ UNCHANGED vars
  BY <1>6 DEF Outage, vars
<1> QED BY <1>1, <1>2, <1>3, <1>4, <1>5, <1>6 DEF Next

\* A recorded success maps to Succeed, Win or Close of the contract.
LEMMA RecordOkImplements ==
  ASSUME Sound(cb), cb.state # "open", cb' = RecordSuccess(cb)
  PROVE  Documented!CNext
<1> USE EffectiveRecoveryPositive, FailureThresholdPositive
<1>1. CASE cb.state = "closed"
  <2>1. /\ cb'.state = "closed" /\ cb'.failureCount = 0
        /\ cb'.recoveryCount = cb.recoveryCount
    BY <1>1 DEF RecordSuccess, Sound, Breaker
  <2> QED BY <1>1, <2>1 DEF Documented!CNext, Documented!Succeed
<1>2. CASE cb.state = "half-open" /\ cb.recoveryCount + 1 >= EffectiveRecovery
  <2>1. cb'.state = "closed" /\ cb'.failureCount = 0 /\ cb'.recoveryCount = 0
    BY <1>2 DEF RecordSuccess
  <2>2. cb.recoveryCount + 1 = EffectiveRecovery
    BY <1>2 DEF Sound, Breaker
  <2> QED BY <1>2, <2>1, <2>2 DEF Documented!CNext, Documented!Close, Documented!Enter
<1>3. CASE cb.state = "half-open" /\ ~(cb.recoveryCount + 1 >= EffectiveRecovery)
  <2>1. cb'.state = "half-open" /\ cb'.recoveryCount = cb.recoveryCount + 1
    BY <1>3 DEF RecordSuccess
  <2>2. cb.recoveryCount + 1 < EffectiveRecovery
    BY <1>3 DEF Sound, Breaker
  <2> QED BY <1>3, <2>1, <2>2 DEF Documented!CNext, Documented!Win
<1> QED BY <1>1, <1>2, <1>3 DEF Sound, Breaker, BreakerState

\* A recorded failure maps to Fail, Trip or Reopen of the contract.
LEMMA RecordFailedImplements ==
  ASSUME Sound(cb), cb.state # "open", cb' = RecordFailure(cb)
  PROVE  Documented!CNext
<1> USE FailureThresholdPositive, BreakDurationPositive
<1>1. CASE cb.state = "half-open"
  <2>1. cb'.state = "open" /\ cb'.recoveryCount = 0 /\ cb'.openFor = 0
    BY <1>1 DEF RecordFailure
  <2> QED
    BY <1>1, <2>1 DEF Documented!CNext, Documented!Reopen, Documented!Enter, Elapsed
<1>2. CASE cb.state = "closed" /\ cb.failureCount + 1 = FailureThreshold
  <2>1. cb'.state = "open" /\ cb'.recoveryCount = 0 /\ cb'.openFor = 0
    BY <1>2 DEF RecordFailure, Saturate, Sound, Breaker
  <2> QED
    BY <1>2, <2>1 DEF Documented!CNext, Documented!Trip, Documented!Enter, Elapsed
<1>3. CASE cb.state = "closed" /\ cb.failureCount + 1 # FailureThreshold
  <2>1. cb.failureCount + 1 < FailureThreshold /\ cb.recoveryCount = 0
    BY <1>3 DEF Sound, Breaker
  <2>2. /\ cb'.state = "closed" /\ cb'.failureCount = cb.failureCount + 1
        /\ cb'.recoveryCount = 0
    BY <1>3, <2>1 DEF RecordFailure, Saturate, Sound, Breaker
  <2> QED BY <1>3, <2>1, <2>2 DEF Documented!CNext, Documented!Fail
<1> QED BY <1>1, <1>2, <1>3 DEF Sound, Breaker, BreakerState

\* Every step of the breaker with one caller is a step of the contract or leaves
\* the contract's variables alone.
LEMMA StepImplements ==
  IInv /\ NoLateResults /\ [Next]_vars => [Documented!CNext]_(Documented!cvars)
<1> SUFFICES ASSUME IInv, NoLateResults, [Next]_vars
             PROVE  Documented!CNext \/ UNCHANGED Documented!cvars
  OBVIOUS
<1> USE DEF IInv
<1>1. ASSUME NEW c \in Callers, Call(c)
      PROVE  Documented!CNext \/ UNCHANGED Documented!cvars
  <2>1. CASE cb.state = "open"
    <3>1. cb'.state = "half-open" /\ cb'.recoveryCount = 0 /\ Elapsed(cb)
      BY <1>1, <2>1 DEF Call, Allow, Allows, Sound, Breaker
    <3> QED
      BY <2>1, <3>1 DEF Documented!CNext, Documented!TryAgain, Documented!Enter
  <2>2. CASE cb.state # "open"
    <3>1. /\ cb'.state = cb.state /\ cb'.recoveryCount = cb.recoveryCount
          /\ cb'.failureCount = cb.failureCount
      BY <1>1, <2>2 DEF Call, Allow, Allows, Sound, Breaker
    <3> QED BY <2>2, <3>1 DEF Documented!cvars
  <2> QED BY <2>1, <2>2
<1>2. ASSUME NEW c \in Callers, Answer(c)
      PROVE  UNCHANGED Documented!cvars
  BY <1>2 DEF Answer, Documented!cvars, Elapsed
<1>3. ASSUME NEW c \in Callers, RecordOk(c)
      PROVE  Documented!CNext
  BY <1>3, RecordOkImplements DEF RecordOk, NoLateResults, InFlight
<1>4. ASSUME NEW c \in Callers, RecordFailed(c)
      PROVE  Documented!CNext
  BY <1>4, RecordFailedImplements DEF RecordFailed, NoLateResults, InFlight
<1>5. CASE Observe
  <2>1. CASE cb.state = "open" /\ Elapsed(cb)
    <3>1. cb'.state = "half-open" /\ cb'.recoveryCount = 0
      BY <1>5, <2>1 DEF Observe, ReadState, Sound, Breaker
    <3> QED
      BY <2>1, <3>1 DEF Documented!CNext, Documented!TryAgain, Documented!Enter
  <2>2. CASE ~(cb.state = "open" /\ Elapsed(cb))
    BY <1>5, <2>2 DEF Observe, ReadState, Documented!cvars, Elapsed
  <2> QED BY <2>1, <2>2
<1>6. CASE Tick
  <2>1. /\ cb.state = "open" /\ ~Elapsed(cb) /\ cb'.state = "open"
        /\ cb'.recoveryCount = cb.recoveryCount /\ cb'.failureCount = cb.failureCount
    BY <1>6 DEF Tick, Age, Sound, Breaker
  <2> QED
    BY <2>1 DEF Documented!CNext, Documented!CoolDown, Documented!cvars, Elapsed
<1>7. CASE Outage \/ UNCHANGED vars
  BY <1>7 DEF Outage, vars, Documented!cvars, Elapsed
<1> QED BY <1>1, <1>2, <1>3, <1>4, <1>5, <1>6, <1>7 DEF Next

\* With callers that never overlap, no result is ever recorded in an open
\* circuit, for any thresholds and break.
THEOREM NothingLate == ASSUME OneCaller PROVE Spec => []NoLateResults
<1>1. Init => NoLateResults
  BY DEF Init, NoLateResults, InFlight
<1>2. IInv /\ NoLateResults /\ [Next]_vars => NoLateResults'
  BY NextNoLateResults
<1> QED BY <1>1, <1>2, Invariance, PTL DEF Spec

\* With callers that never overlap, the code implements the state machine its
\* comments document, for any thresholds and break.
THEOREM SequentialContract == ASSUME OneCaller PROVE Spec => ImplementsContract
<1>1. Init => Documented!CInit
  BY BreakDurationPositive DEF Init, NewBreaker, Documented!CInit, Elapsed
<1>2. IInv /\ NoLateResults /\ [Next]_vars => [Documented!CNext]_(Documented!cvars)
  BY StepImplements
<1> QED
  BY <1>1, <1>2, Invariance, NothingLate, PTL
  DEF Spec, ImplementsContract, Documented!Contract
=============================================================================
