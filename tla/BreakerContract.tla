--------------------------- MODULE BreakerContract ---------------------------
(***************************************************************************)
(* What the comments of internal/healthmonitor/breaker.go promise of a     *)
(* circuit breaker, as a state machine of its own: it opens after          *)
(* FailureThreshold consecutive failures, stays open until the break is    *)
(* over, goes to half-open from there and nowhere else, and closes only    *)
(* after RecoveryThreshold consecutive half-open successes.                *)
(* CircuitBreaker.tla states when, and under which mapping, the code       *)
(* implements it.                                                          *)
(***************************************************************************)
EXTENDS Naturals

CONSTANTS FailureThreshold, RecoveryThreshold

VARIABLES
  mode,     \* "closed", "open" or "half-open"
  fails,    \* consecutive failures while closed
  wins,     \* consecutive successes while half-open
  cooled    \* the break of an open circuit is over

cvars == <<mode, fails, wins, cooled>>

CInit == mode = "closed" /\ fails = 0 /\ wins = 0 /\ cooled = FALSE

Enter(m) == mode' = m /\ fails' = 0 /\ wins' = 0 /\ cooled' = FALSE

Succeed ==
  /\ mode = "closed"
  /\ fails' = 0
  /\ UNCHANGED <<mode, wins, cooled>>

Fail ==
  /\ mode = "closed"
  /\ fails + 1 < FailureThreshold
  /\ fails' = fails + 1
  /\ UNCHANGED <<mode, wins, cooled>>

Trip == mode = "closed" /\ fails + 1 = FailureThreshold /\ Enter("open")

CoolDown ==
  /\ mode = "open"
  /\ cooled' = TRUE
  /\ UNCHANGED <<mode, fails, wins>>

TryAgain == mode = "open" /\ cooled /\ Enter("half-open")

Win ==
  /\ mode = "half-open"
  /\ wins + 1 < RecoveryThreshold
  /\ wins' = wins + 1
  /\ UNCHANGED <<mode, fails, cooled>>

Close == mode = "half-open" /\ wins + 1 = RecoveryThreshold /\ Enter("closed")

Reopen == mode = "half-open" /\ Enter("open")

CNext == Succeed \/ Fail \/ Trip \/ CoolDown \/ TryAgain \/ Win \/ Close \/ Reopen

Contract == CInit /\ [][CNext]_cvars
=============================================================================
