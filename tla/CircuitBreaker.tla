--------------------------- MODULE CircuitBreaker ---------------------------
(***************************************************************************)
(* One healthmonitor.CircuitBreaker shared by concurrent callers, each of  *)
(* which does what Proxy.ServeHTTP and Worker.probeInstance do: call Allow,*)
(* and if admitted run a request and record how it went.  Allow and the    *)
(* record are two critical sections, so between them other callers, the    *)
(* clock and State() may move the breaker: a result is recorded in a state *)
(* that need not be the one in which its request was admitted.             *)
(***************************************************************************)
EXTENDS BreakerOps

CONSTANT Callers

VARIABLES
  cb,       \* the breaker
  pc,       \* per caller: idle, waiting for its request, or holding its result
  probe,    \* per caller: its current request was admitted in half-open (history)
  up        \* whether the protected service is answering (environment)

vars == <<cb, pc, probe, up>>

Control == {"idle", "waiting", "ok", "failed"}

InFlight(c) == pc[c] # "idle"

Init ==
  /\ cb = NewBreaker
  /\ pc = [c \in Callers |-> "idle"]
  /\ probe = [c \in Callers |-> FALSE]
  /\ up \in BOOLEAN

----------------------------------------------------------------------------
\* Allow returned true and the caller sends its request.  (When Allow returns
\* false the caller moves on and nothing here has changed.)
Call(c) ==
  /\ pc[c] = "idle"
  /\ Allows(cb)
  /\ cb' = Allow(cb)
  /\ pc' = [pc EXCEPT ![c] = "waiting"]
  /\ probe' = [probe EXCEPT ![c] = cb.state # "closed"]
  /\ UNCHANGED up

\* The service answers, or the attempt fails, before anything is recorded.
Answer(c) ==
  /\ pc[c] = "waiting"
  /\ pc' = [pc EXCEPT ![c] = IF up THEN "ok" ELSE "failed"]
  /\ UNCHANGED <<cb, probe, up>>

RecordOk(c) ==
  /\ pc[c] = "ok"
  /\ cb' = RecordSuccess(cb)
  /\ pc' = [pc EXCEPT ![c] = "idle"]
  /\ probe' = [probe EXCEPT ![c] = FALSE]
  /\ UNCHANGED up

RecordFailed(c) ==
  /\ pc[c] = "failed"
  /\ cb' = RecordFailure(cb)
  /\ pc' = [pc EXCEPT ![c] = "idle"]
  /\ probe' = [probe EXCEPT ![c] = FALSE]
  /\ UNCHANGED up

\* Someone calls State().
Observe ==
  /\ cb' = ReadState(cb)
  /\ UNCHANGED <<pc, probe, up>>

Tick ==
  /\ cb.state = "open" /\ ~Elapsed(cb)
  /\ cb' = Age(cb)
  /\ UNCHANGED <<pc, probe, up>>

Outage ==
  /\ up' = ~up
  /\ UNCHANGED <<cb, pc, probe>>

Next ==
  \/ \E c \in Callers : Call(c) \/ Answer(c) \/ RecordOk(c) \/ RecordFailed(c)
  \/ Observe
  \/ Tick
  \/ Outage

Spec == Init /\ [][Next]_vars

\* The clock runs, an admitted request ends and its result is recorded (every
\* probe of the health worker has a timeout), and there is always another
\* request to make (the worker probes on every tick).  Nothing makes the
\* service come up or makes anyone call State().
Fairness ==
  /\ WF_vars(Tick)
  /\ WF_vars(\E c \in Callers : Call(c))
  /\ \A c \in Callers : WF_vars(Answer(c)) /\ WF_vars(RecordOk(c) \/ RecordFailed(c))

FairSpec == Spec /\ Fairness

----------------------------------------------------------------------------
\* Every variable has the type of the Go field or program counter it models.
TypeOK ==
  /\ cb \in Breaker
  /\ pc \in [Callers -> Control]
  /\ probe \in [Callers -> BOOLEAN]
  /\ up \in BOOLEAN

\* The half-open gate is never shut for good: while halfOpenUsed makes Allow
\* refuse everyone, the breaker is half-open and a caller that Allow admitted in
\* half-open has still to record its result, which is what reopens the gate.
\* Otherwise the breaker would refuse every request for ever.
GateHeldByProbe ==
  cb.halfOpenUsed =>
    /\ cb.state = "half-open"
    /\ \E c \in Callers : InFlight(c) /\ probe[c]

\* The counters belong to the state: a closed breaker is below its failure
\* threshold, so the next failure is never already one too many, and successes
\* towards recovery are counted in half-open only and never carried into the
\* next half-open period.
CountersMatchState ==
  /\ cb.state = "closed" => cb.failureCount < FailureThreshold
  /\ cb.recoveryCount > 0 => cb.state = "half-open"

\* Once the service answers every request, the breaker closes and stays closed,
\* whatever state, counters and late results it had (RecordSuccess after Allow).
Recovers == (<>[]up) => <>[](cb.state = "closed")

\* While the service is down and callers keep calling, the breaker does open:
\* RecordFailure's count reaches the threshold.
Protects == (<>[]~up) => []<>(cb.state = "open")

----------------------------------------------------------------------------
\* When callers never overlap, no result is recorded in an open circuit: every
\* result is recorded in the period in which Allow admitted its request.
NoLateResults == \A c \in Callers : InFlight(c) => cb.state # "open"

\* The documented state machine, seen through the breaker's fields.
Documented == INSTANCE BreakerContract WITH
  RecoveryThreshold <- EffectiveRecovery,
  mode   <- cb.state,
  fails  <- IF cb.state = "closed" THEN cb.failureCount ELSE 0,
  wins   <- cb.recoveryCount,
  cooled <- cb.state = "open" /\ Elapsed(cb)

\* The breaker's steps are steps of the documented state machine: it trips after
\* FailureThreshold consecutive failures, leaves open only when the break is
\* over, and closes only on the RecoveryThreshold-th half-open success in a row.
ImplementsContract == Documented!Contract
=============================================================================
