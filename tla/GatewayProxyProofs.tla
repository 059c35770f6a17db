-------------------------- MODULE GatewayProxyProofs --------------------------
(***************************************************************************)
(* Proofs about GatewayProxy.tla for any requests, backends, retry count,  *)
(* thresholds and break: its types, and that no breaker of the breaker map *)
(* is ever left with its half-open gate shut and nobody to open it, and    *)
(* that each answer is the one that the attempts call for.                 *)
(***************************************************************************)
EXTENDS GatewayProxy, BreakerOpsProofs

\* The inductive invariant: every breaker of the map is sound, and a shut gate
\* belongs to a request being forwarded.
PInv ==
  /\ TypeOK
  /\ \A b \in Backends : Sound(breakers[b])
  /\ GateHeldByForward

\* The part of TypeOK that speaks of a goroutine's own variables.
LocalsTyped ==
  /\ pc \in [Requests -> {"idle", "gate", "forward", "backoff"}]
  /\ attempt \in [Requests -> 0..RetryCount]
  /\ backend \in [Requests -> Backends \cup {NoBackend}]
  /\ lastStatus \in [Requests -> {0, 500, 503}]
  /\ lastResp \in [Requests -> 0..(RetryCount + 1)]
  /\ body \in [Requests -> {"none", "whole", "spent"}]
  /\ answer \in [Requests -> Answer]

\* The answer after the loop is a status with the attempt it came from.
LEMMA ExhaustedType ==
  ASSUME NEW status \in {0, 500, 503}, NEW resp \in 0..(RetryCount + 1)
  PROVE  Exhausted(status, resp) \in Answer
  BY RetryCountNat DEF Exhausted, Answer

\* Returning from ServeHTTP leaves the goroutine's variables typed.
LEMMA ReplyType ==
  ASSUME TypeOK, NEW r \in Requests,
         NEW a \in Answer, Reply(r, a)
  PROVE  LocalsTyped'
  BY RetryCountNat DEF TypeOK, Reply, LocalsTyped

\* So does going round the loop, which touches no other goroutine's variables.
LEMMA AdvanceType ==
  ASSUME TypeOK, NEW r \in Requests, NEW outcome \in Outcome,
         NEW status \in {0, 500, 503}, NEW resp \in 0..(RetryCount + 1),
         Advance(r, outcome, status, resp)
  PROVE  LocalsTyped' /\ log' \in [Requests -> Seq(Outcome)]
<1>1. log' \in [Requests -> Seq(Outcome)]
  BY DEF Advance, TypeOK
<1>2. CASE attempt[r] < RetryCount
  <2>1. BodyAfter(r, outcome) \in {"none", "whole", "spent"}
    BY DEF BodyAfter, TypeOK
  <2>2. attempt[r] + 1 \in 0..RetryCount
    BY <1>2, RetryCountNat DEF TypeOK
  <2>3. /\ pc' = [pc EXCEPT ![r] = "backoff"]
        /\ attempt' = [attempt EXCEPT ![r] = attempt[r] + 1]
        /\ lastStatus' = [lastStatus EXCEPT ![r] = status]
        /\ lastResp' = [lastResp EXCEPT ![r] = resp]
        /\ body' = [body EXCEPT ![r] = BodyAfter(r, outcome)]
        /\ backend' = backend /\ answer' = answer
    BY <1>2 DEF Advance
  <2>4. /\ pc' \in [Requests -> {"idle", "gate", "forward", "backoff"}]
        /\ body' \in [Requests -> {"none", "whole", "spent"}]
        /\ backend' \in [Requests -> Backends \cup {NoBackend}]
    BY <2>1, <2>3 DEF TypeOK
  <2>5. attempt' \in [Requests -> 0..RetryCount]
    BY <2>2, <2>3 DEF TypeOK
  <2>6. /\ lastStatus' \in [Requests -> {0, 500, 503}]
        /\ lastResp' \in [Requests -> 0..(RetryCount + 1)]
    BY <2>3 DEF TypeOK
  <2>7. answer' \in [Requests -> Answer]
    BY <2>3 DEF TypeOK
  <2> QED BY <1>1, <2>4, <2>5, <2>6, <2>7 DEF LocalsTyped
<1>3. CASE ~(attempt[r] < RetryCount)
  <2>1. Reply(r, Exhausted(status, resp))
    BY <1>3 DEF Advance
  <2>2. Exhausted(status, resp) \in Answer
    BY ExhaustedType
  <2> QED BY <1>1, <2>1, <2>2, ReplyType
<1> QED BY <1>2, <1>3

\* A goroutine that replies or goes round the loop leaves the others where and
\* with whom they are.
LEMMA OthersUntouched ==
  ASSUME TypeOK, NEW r \in Requests,
         \/ \E a : Reply(r, a)
         \/ \E outcome, status, resp : Advance(r, outcome, status, resp)
  PROVE  \A q \in Requests : q # r => pc'[q] = pc[q] /\ backend'[q] = backend[q]
  BY DEF TypeOK, Reply, Advance

\* When request r moves and no gate is newly shut, every shut gate keeps its
\* holder, provided r was not one or has just opened its own.
LEMMA GatesKept ==
  ASSUME GateHeldByForward, NEW r \in Requests,
         \A q \in Requests : q # r =>
           pc'[q] = pc[q] /\ backend'[q] = backend[q] /\ probe'[q] = probe[q],
         \A b \in Backends : breakers'[b].halfOpenUsed => breakers[b].halfOpenUsed,
         \/ pc[r] # "forward"
         \/ \A b \in Backends : b = backend[r] => ~breakers'[b].halfOpenUsed
  PROVE  GateHeldByForward'
<1> SUFFICES ASSUME NEW b \in Backends, breakers'[b].halfOpenUsed
             PROVE  \E q \in Requests : pc'[q] = "forward" /\ backend'[q] = b /\ probe'[q]
  BY DEF GateHeldByForward
<1>1. PICK q \in Requests : pc[q] = "forward" /\ backend[q] = b /\ probe[q]
  BY DEF GateHeldByForward
<1>2. q # r
  BY <1>1
<1> QED BY <1>1, <1>2

\* The initial states satisfy the inductive invariant.
LEMMA InitPInv == Init => PInv
<1> SUFFICES ASSUME Init PROVE PInv
  OBVIOUS
<1>1. \A b \in Backends : Sound(breakers[b]) /\ ~breakers[b].halfOpenUsed
  BY NewBreakerSound DEF Init
<1>2. breakers \in [Backends -> Breaker]
  BY NewBreakerSound DEF Init, Sound
<1>3. answer \in [Requests -> Answer]
  BY RetryCountNat DEF Init, NoAnswer, Answer
<1>4. TypeOK
  BY <1>2, <1>3, RetryCountNat DEF Init, TypeOK
<1> QED BY <1>1, <1>4 DEF PInv, GateHeldByForward

\* Every step of every request, of the route table and of the clock preserves it.
LEMMA NextPInv == PInv /\ [Next]_vars => PInv'
<1> SUFFICES ASSUME PInv, [Next]_vars
             PROVE  PInv'
  OBVIOUS
<1> USE DEF PInv
<1>1. ASSUME NEW r \in Requests, Misaddressed(r) \/ Unrouted(r)
      PROVE  PInv'
  <2>1. PICK a \in Answer : Reply(r, a)
    BY <1>1, RetryCountNat DEF Misaddressed, Unrouted, Answer
  <2>2. TypeOK'
    <3>1. log' \in [Requests -> Seq(Outcome)]
      <4>1. <<>> \in Seq(Outcome)
        OBVIOUS
      <4>2. log' = [log EXCEPT ![r] = <<>>]
        BY <1>1 DEF Misaddressed, Unrouted
      <4> QED BY <4>1, <4>2 DEF TypeOK
    <3>2. UNCHANGED <<routes, breakers, probe>>
      BY <1>1 DEF Misaddressed, Unrouted
    <3>3. LocalsTyped'
      BY <2>1, ReplyType
    <3> QED BY <3>1, <3>2, <3>3 DEF TypeOK, LocalsTyped
  <2>3. GateHeldByForward'
    <3>1. pc[r] # "forward" /\ UNCHANGED <<breakers, probe>>
      BY <1>1 DEF Misaddressed, Unrouted
    <3>2. \A q \in Requests : q # r => pc'[q] = pc[q] /\ backend'[q] = backend[q]
      BY <2>1, OthersUntouched
    <3> QED BY <3>1, <3>2, GatesKept
  <2> QED BY <1>1, <2>2, <2>3 DEF Misaddressed, Unrouted
<1>2. ASSUME NEW r \in Requests, Start(r)
      PROVE  PInv'
  <2>1. TypeOK'
    <3>1. answer' \in [Requests -> Answer]
      BY <1>2, RetryCountNat DEF Start, TypeOK, Answer, NoAnswer
    <3> QED BY <1>2, <3>1 DEF Start, Lookup, TypeOK
  <2>2. GateHeldByForward'
    BY <1>2, GatesKept DEF Start, TypeOK
  <2> QED BY <1>2, <2>1, <2>2 DEF Start
<1>3. ASSUME NEW r \in Requests, Refused(r)
      PROVE  PInv'
  <2>1. Advance(r, "refused", 503, lastResp[r]) /\ UNCHANGED <<routes, breakers, probe>>
    BY <1>3 DEF Refused
  <2>2. TypeOK'
    <3>1. lastResp[r] \in 0..(RetryCount + 1) /\ "refused" \in Outcome
      BY DEF TypeOK, Outcome
    <3>2. LocalsTyped' /\ log' \in [Requests -> Seq(Outcome)]
      BY <2>1, <3>1, AdvanceType
    <3> QED BY <2>1, <3>2 DEF TypeOK, LocalsTyped
  <2>3. GateHeldByForward'
    <3>1. pc[r] # "forward"
      BY <1>3 DEF Refused
    <3>2. \A q \in Requests : q # r => pc'[q] = pc[q] /\ backend'[q] = backend[q]
      BY <2>1, OthersUntouched
    <3> QED BY <2>1, <3>1, <3>2, GatesKept
  <2> QED BY <2>1, <2>2, <2>3
<1>4. ASSUME NEW r \in Requests, Admitted(r)
      PROVE  PInv'
  <2> DEFINE d == backend[r]
  <2>1. \A b \in Backends :
          /\ Sound(breakers'[b])
          /\ b # d => breakers'[b] = breakers[b]
          /\ b = d => (breakers'[b].halfOpenUsed <=> breakers[b].state # "closed")
    BY <1>4, AllowSound DEF Admitted, TypeOK
  <2>2. TypeOK'
    <3>1. breakers' \in [Backends -> Breaker]
      <4>1. \E v : breakers' = [breakers EXCEPT ![backend[r]] = v]
        BY <1>4, Zenon DEF Admitted
      <4>2. breakers \in [Backends -> Breaker]
        BY DEF TypeOK
      <4>3. \A b \in Backends : breakers'[b] \in Breaker
        BY <2>1 DEF Sound
      <4> QED BY <4>1, <4>2, <4>3, Zenon
    <3> QED BY <1>4, <3>1 DEF Admitted, TypeOK, locals
  <2>3. /\ pc'[r] = "forward" /\ backend'[r] = d
        /\ probe'[r] = (breakers[d].state # "closed")
        /\ \A q \in Requests : q # r =>
             pc'[q] = pc[q] /\ backend'[q] = backend[q] /\ probe'[q] = probe[q]
        /\ pc[r] = "gate"
    BY <1>4 DEF Admitted, TypeOK, locals
  <2>4. GateHeldByForward'
    <3> SUFFICES ASSUME NEW b \in Backends, breakers'[b].halfOpenUsed
                 PROVE  \E q \in Requests :
                          pc'[q] = "forward" /\ backend'[q] = b /\ probe'[q]
      BY DEF GateHeldByForward
    <3>1. CASE b = d
      BY <2>1, <2>3, <3>1, Zenon
    <3>2. CASE b # d
      <4>1. PICK q \in Requests : pc[q] = "forward" /\ backend[q] = b /\ probe[q]
        BY <2>1, <3>2 DEF GateHeldByForward
      <4> QED BY <2>3, <4>1
    <3> QED BY <3>1, <3>2
  <2> QED BY <2>1, <2>2, <2>4
<1>5. ASSUME NEW r \in Requests, Succeeded(r)
      PROVE  PInv'
  <2>1. \A b \in Backends :
          /\ Sound(breakers'[b])
          /\ b # backend[r] => breakers'[b] = breakers[b]
          /\ b = backend[r] => ~breakers'[b].halfOpenUsed
    BY <1>5, RecordSuccessSound DEF Succeeded, TypeOK
  <2>2. PICK a \in Answer : Reply(r, a)
    <3>1. <<200, attempt[r] + 1>> \in Answer
      BY RetryCountNat DEF TypeOK, Answer
    <3> QED BY <1>5, <3>1 DEF Succeeded
  <2>3. TypeOK'
    <3>1. breakers' \in [Backends -> Breaker]
      <4>1. \E v : breakers' = [breakers EXCEPT ![backend[r]] = v]
        BY <1>5, Zenon DEF Succeeded
      <4>2. breakers \in [Backends -> Breaker]
        BY DEF TypeOK
      <4>3. \A b \in Backends : breakers'[b] \in Breaker
        BY <2>1 DEF Sound
      <4> QED BY <4>1, <4>2, <4>3, Zenon
    <3>2. log' \in [Requests -> Seq(Outcome)] /\ probe' \in [Requests -> BOOLEAN]
      BY <1>5 DEF Succeeded, TypeOK, Outcome
    <3>3. routes' = routes
      BY <1>5 DEF Succeeded
    <3>4. LocalsTyped'
      BY <2>2, ReplyType
    <3> QED BY <3>1, <3>2, <3>3, <3>4 DEF TypeOK, LocalsTyped
  <2>4. \A q \in Requests : q # r =>
          pc'[q] = pc[q] /\ backend'[q] = backend[q] /\ probe'[q] = probe[q]
    <3>1. \A q \in Requests : q # r => pc'[q] = pc[q] /\ backend'[q] = backend[q]
      BY <2>2, OthersUntouched
    <3> QED BY <1>5, <3>1 DEF Succeeded, TypeOK
  <2>5. GateHeldByForward'
    BY <2>1, <2>4, GatesKept
  <2> QED BY <2>1, <2>3, <2>5
<1>6. ASSUME NEW r \in Requests, Failed(r)
      PROVE  PInv'
  <2>1. \A b \in Backends :
          /\ Sound(breakers'[b])
          /\ b # backend[r] => breakers'[b] = breakers[b]
          /\ b = backend[r] => ~breakers'[b].halfOpenUsed
    BY <1>6, RecordFailureSound DEF Failed, TypeOK
  <2>2. PICK outcome \in Outcome, status \in {0, 500, 503}, resp \in 0..(RetryCount + 1) :
          Advance(r, outcome, status, resp)
    <3>1. /\ attempt[r] + 1 \in 0..(RetryCount + 1)
          /\ lastResp[r] \in 0..(RetryCount + 1)
          /\ lastStatus[r] \in {0, 500, 503}
      BY RetryCountNat DEF TypeOK
    <3>2. "5xx" \in Outcome /\ "error" \in Outcome
      BY DEF Outcome
    <3>3. \/ Advance(r, "5xx", 500, attempt[r] + 1)
          \/ Advance(r, "error", lastStatus[r], lastResp[r])
      BY <1>6 DEF Failed
    <3> QED BY <3>1, <3>2, <3>3
  <2>3. TypeOK'
    <3>1. breakers' \in [Backends -> Breaker]
      <4>1. \E v : breakers' = [breakers EXCEPT ![backend[r]] = v]
        BY <1>6, Zenon DEF Failed
      <4>2. breakers \in [Backends -> Breaker]
        BY DEF TypeOK
      <4>3. \A b \in Backends : breakers'[b] \in Breaker
        BY <2>1 DEF Sound
      <4> QED BY <4>1, <4>2, <4>3, Zenon
    <3>2. probe' \in [Requests -> BOOLEAN] /\ routes' = routes
      BY <1>6 DEF Failed, TypeOK
    <3>3. LocalsTyped' /\ log' \in [Requests -> Seq(Outcome)]
      BY <2>2, AdvanceType
    <3> QED BY <3>1, <3>2, <3>3 DEF TypeOK, LocalsTyped
  <2>4. \A q \in Requests : q # r =>
          pc'[q] = pc[q] /\ backend'[q] = backend[q] /\ probe'[q] = probe[q]
    <3>1. \A q \in Requests : q # r => pc'[q] = pc[q] /\ backend'[q] = backend[q]
      BY <2>2, OthersUntouched
    <3> QED BY <1>6, <3>1 DEF Failed, TypeOK
  <2>5. GateHeldByForward'
    BY <2>1, <2>4, GatesKept
  <2> QED BY <2>1, <2>3, <2>5
<1>7. ASSUME NEW r \in Requests, Retry(r)
      PROVE  PInv'
  <2>1. TypeOK'
    BY <1>7 DEF Retry, Lookup, TypeOK
  <2>2. GateHeldByForward'
    BY <1>7, GatesKept DEF Retry, TypeOK
  <2> QED BY <1>7, <2>1, <2>2 DEF Retry
<1>8. CASE Refresh
  BY <1>8 DEF Refresh, TypeOK, GateHeldByForward, locals
<1>9. CASE Tick
  <2>1. \A b \in Backends :
          Sound(breakers'[b]) /\ breakers'[b].halfOpenUsed = breakers[b].halfOpenUsed
    BY <1>9, AgeSound DEF Tick
  <2>2. TypeOK'
    BY <1>9, <2>1 DEF Tick, TypeOK, Sound, locals
  <2>3. GateHeldByForward'
    BY <1>9, <2>1 DEF Tick, GateHeldByForward, locals
  <2> QED BY <2>1, <2>2, <2>3
<1>10. CASE UNCHANGED vars
  BY <1>10 DEF vars, locals, TypeOK, GateHeldByForward
<1> QED
  BY <1>1, <1>2, <1>3, <1>4, <1>5, <1>6, <1>7, <1>8, <1>9, <1>10 DEF Next, Serve

\* The inductive invariant holds throughout.
LEMMA PInvariance == Spec => []PInv
  BY InitPInv, NextPInv, PTL DEF Spec

\* Type correctness of the proxy.
THEOREM ProxyTypeCorrect == Spec => []TypeOK
<1>1. PInv => TypeOK
  BY DEF PInv
<1> QED BY <1>1, PInvariance, PTL

\* For any number of concurrent requests, backends and retries, no backend is
\* lost behind a half-open gate that nobody will open.
THEOREM NoBackendLost == Spec => []GateHeldByForward
<1>1. PInv => GateHeldByForward
  BY DEF PInv
<1> QED BY <1>1, PInvariance, PTL
----------------------------------------------------------------------------
(* The answer and the attempts.                                             *)

\* Where outcome o stands in a log.
Met(s, o) == {i \in 1..Len(s) : s[i] = o}

\* What lastStatus and lastResp say of the attempts so far: none succeeded,
\* lastResp is the latest 5xx, and without one lastStatus tells of a refusal.
Agrees(s, status, resp) ==
  /\ Met(s, "ok") = {}
  /\ resp = 0 => /\ Met(s, "5xx") = {}
                 /\ \/ Met(s, "refused") # {} /\ status = 503
                    \/ Met(s, "refused") = {} /\ status = 0
  /\ resp # 0 => resp \in Met(s, "5xx") /\ \A i \in Met(s, "5xx") : i <= resp

\* AnswerMatchesAttempts for one request with log s and answer a.
Settled(s, a) ==
  (a # NoAnswer /\ Len(s) > 0) =>
    \/ Met(s, "ok") = {Len(s)} /\ a = <<200, Len(s)>>
    \/ /\ Met(s, "ok") = {} /\ Len(s) = RetryCount + 1
       /\ \/ /\ a[1] = 500 /\ a[2] \in Met(s, "5xx")
             /\ \A i \in Met(s, "5xx") : i <= a[2]
          \/ Met(s, "5xx") = {} /\ Met(s, "refused") # {} /\ a = <<503, 0>>
          \/ Met(s, "5xx") = {} /\ Met(s, "refused") = {} /\ a = <<502, 0>>

Logged(r) ==
  /\ pc[r] = "idle" => /\ Settled(log[r], answer[r])
                       /\ attempt[r] = 0 /\ lastStatus[r] = 0 /\ lastResp[r] = 0
  /\ pc[r] # "idle" => /\ Len(log[r]) = attempt[r] /\ answer[r] = NoAnswer
                       /\ Agrees(log[r], lastStatus[r], lastResp[r])

LogInv == TypeOK /\ \A r \in Requests : Logged(r)

\* One more outcome adds one place.
LEMMA MetAppend ==
  ASSUME NEW s \in Seq(Outcome), NEW o \in Outcome, NEW x \in Outcome
  PROVE  /\ Len(Append(s, x)) = Len(s) + 1
         /\ Met(Append(s, x), o) = IF x = o THEN Met(s, o) \cup {Len(s) + 1} ELSE Met(s, o)
         /\ Met(s, o) \subseteq 1..Len(s)
<1>1. /\ Len(Append(s, x)) = Len(s) + 1
      /\ Append(s, x)[Len(s) + 1] = x
      /\ \A i \in 1..Len(s) : Append(s, x)[i] = s[i]
      /\ Len(s) \in Nat
  OBVIOUS
<1>2. 1..(Len(s) + 1) = (1..Len(s)) \cup {Len(s) + 1}
  BY <1>1
<1>3. Len(s) + 1 \notin 1..Len(s)
  BY <1>1
<1> QED
  BY <1>1, <1>2, <1>3 DEF Met

\* An attempt that did not succeed leaves lastStatus and lastResp in agreement
\* with the log, in each of the three ways the loop goes on.
LEMMA AgreesAppend ==
  ASSUME NEW s \in Seq(Outcome), NEW status, NEW resp, Agrees(s, status, resp)
  PROVE  /\ Agrees(Append(s, "refused"), 503, resp)
         /\ Agrees(Append(s, "error"), status, resp)
         /\ Agrees(Append(s, "5xx"), 500, Len(s) + 1)
<1>0. {"ok", "5xx", "error", "refused"} \subseteq Outcome /\ Len(s) \in Nat
  BY DEF Outcome
<1>1. Agrees(Append(s, "refused"), 503, resp)
  <2>1. /\ Met(Append(s, "refused"), "ok") = Met(s, "ok")
        /\ Met(Append(s, "refused"), "5xx") = Met(s, "5xx")
        /\ Met(Append(s, "refused"), "refused") # {}
    BY <1>0, MetAppend
  <2> QED BY <2>1 DEF Agrees
<1>2. Agrees(Append(s, "error"), status, resp)
  <2>1. /\ Met(Append(s, "error"), "ok") = Met(s, "ok")
        /\ Met(Append(s, "error"), "5xx") = Met(s, "5xx")
        /\ Met(Append(s, "error"), "refused") = Met(s, "refused")
    BY <1>0, MetAppend
  <2> QED BY <2>1 DEF Agrees
<1>3. Agrees(Append(s, "5xx"), 500, Len(s) + 1)
  <2>1. /\ Met(Append(s, "5xx"), "ok") = Met(s, "ok")
        /\ Met(Append(s, "5xx"), "5xx") = Met(s, "5xx") \cup {Len(s) + 1}
        /\ Met(s, "5xx") \subseteq 1..Len(s)
    BY <1>0, MetAppend
  <2> QED BY <1>0, <2>1 DEF Agrees
<1> QED BY <1>1, <1>2, <1>3

\* The answer after the loop is the one the attempts call for.
LEMMA ExhaustedSettled ==
  ASSUME NEW s \in Seq(Outcome),
         NEW status \in {0, 500, 503}, NEW resp \in 0..(RetryCount + 1),
         Agrees(s, status, resp), Len(s) = RetryCount + 1
  PROVE  Settled(s, Exhausted(status, resp))
  BY DEF Agrees, Settled, Exhausted

\* Going round the loop keeps the request's log in agreement with its locals,
\* and ends in the right answer.
LEMMA AdvanceLogged ==
  ASSUME LogInv, NEW r \in Requests, pc[r] # "idle", NEW outcome \in Outcome,
         NEW status \in {0, 500, 503}, NEW resp \in 0..(RetryCount + 1),
         Advance(r, outcome, status, resp),
         Agrees(log'[r], status, resp)
  PROVE  Logged(r)'
<1>0. /\ TypeOK /\ log[r] \in Seq(Outcome)
      /\ Len(log[r]) = attempt[r] /\ answer[r] = NoAnswer
  BY DEF LogInv, Logged, TypeOK
<1>1. /\ log'[r] = Append(log[r], outcome)
      /\ log'[r] \in Seq(Outcome)
      /\ Len(log'[r]) = attempt[r] + 1
  BY <1>0 DEF Advance, TypeOK
<1>2. CASE attempt[r] < RetryCount
  <2>1. /\ pc'[r] = "backoff" /\ attempt'[r] = attempt[r] + 1
        /\ lastStatus'[r] = status /\ lastResp'[r] = resp
        /\ answer'[r] = NoAnswer
    BY <1>0, <1>2 DEF Advance, TypeOK
  <2> QED BY <1>1, <2>1 DEF Logged
<1>3. CASE ~(attempt[r] < RetryCount)
  <2>1. attempt[r] = RetryCount
    BY <1>0, <1>3, RetryCountNat DEF TypeOK
  <2>2. /\ pc'[r] = "idle" /\ answer'[r] = Exhausted(status, resp)
        /\ attempt'[r] = 0 /\ lastStatus'[r] = 0 /\ lastResp'[r] = 0
    BY <1>0, <1>3 DEF Advance, Reply, TypeOK
  <2>3. Settled(log'[r], Exhausted(status, resp))
    <3>1. Len(log'[r]) = RetryCount + 1
      BY <1>1, <2>1
    <3>2. log'[r] \in Seq(Outcome)
      BY <1>1
    <3> QED BY <3>1, <3>2, ExhaustedSettled
  <2> QED BY <2>2, <2>3 DEF Logged
<1> QED BY <1>2, <1>3

\* A request that replies or goes round the loop leaves the variables of the
\* others alone.
LEMMA OthersLogged ==
  ASSUME LogInv, NEW r \in Requests,
         \/ \E a : Reply(r, a)
         \/ \E outcome, status, resp : Advance(r, outcome, status, resp),
         \A q \in Requests : q # r => log'[q] = log[q]
  PROVE  \A q \in Requests : q # r => Logged(q)'
<1>1. \A q \in Requests : q # r =>
        /\ pc'[q] = pc[q] /\ attempt'[q] = attempt[q] /\ answer'[q] = answer[q]
        /\ lastStatus'[q] = lastStatus[q] /\ lastResp'[q] = lastResp[q]
  BY DEF LogInv, TypeOK, Reply, Advance
<1> QED BY <1>1 DEF LogInv, Logged
\* The log agrees with the locals from the start and through every step.
LEMMA LogStep == LogInv /\ PInv /\ PInv' /\ [Next]_vars => LogInv'
<1> SUFFICES ASSUME LogInv, TypeOK, TypeOK', [Next]_vars
             PROVE  \A r \in Requests : Logged(r)'
  BY DEF LogInv, PInv
<1>0. \A r \in Requests : Logged(r)
  BY DEF LogInv
<1>1. ASSUME NEW r \in Requests, Misaddressed(r) \/ Unrouted(r)
      PROVE  \A q \in Requests : Logged(q)'
  <2>1. PICK a : Reply(r, a)
    BY <1>1 DEF Misaddressed, Unrouted
  <2>2. /\ log'[r] = <<>>
        /\ \A q \in Requests : q # r => log'[q] = log[q]
    BY <1>1 DEF Misaddressed, Unrouted, TypeOK
  <2>3. /\ pc'[r] = "idle" /\ attempt'[r] = 0
        /\ lastStatus'[r] = 0 /\ lastResp'[r] = 0
    BY <2>1 DEF Reply, TypeOK
  <2>4. Logged(r)'
    BY <2>2, <2>3 DEF Logged, Settled
  <2> QED BY <2>1, <2>2, <2>4, OthersLogged
<1>2. ASSUME NEW r \in Requests, Start(r)
      PROVE  \A q \in Requests : Logged(q)'
  <2>1. /\ pc'[r] = "gate" /\ log'[r] = <<>> /\ pc[r] = "idle"
        /\ answer'[r] = NoAnswer
        /\ attempt' = attempt /\ lastStatus' = lastStatus /\ lastResp' = lastResp
        /\ \A q \in Requests : q # r =>
             pc'[q] = pc[q] /\ answer'[q] = answer[q] /\ log'[q] = log[q]
    BY <1>2 DEF Start, TypeOK
  <2>2. Len(log'[r]) = 0 /\ \A o \in Outcome : Met(log'[r], o) = {}
    BY <2>1 DEF Met
  <2>3. Logged(r)'
    BY <1>0, <2>1, <2>2 DEF Logged, Agrees, Outcome
  <2> QED BY <1>0, <2>1, <2>3 DEF Logged
<1>3. ASSUME NEW r \in Requests, Refused(r) \/ Failed(r)
      PROVE  \A q \in Requests : Logged(q)'
  <2>1. /\ pc[r] # "idle"
        /\ \/ Advance(r, "refused", 503, lastResp[r])
           \/ Advance(r, "5xx", 500, attempt[r] + 1)
           \/ Advance(r, "error", lastStatus[r], lastResp[r])
    BY <1>3 DEF Refused, Failed
  <2>2. /\ {"refused", "5xx", "error"} \subseteq Outcome
        /\ lastStatus[r] \in {0, 500, 503} /\ lastResp[r] \in 0..(RetryCount + 1)
        /\ attempt[r] + 1 \in 0..(RetryCount + 1)
        /\ log[r] \in Seq(Outcome)
    BY RetryCountNat DEF TypeOK, Outcome
  <2>3. Len(log[r]) = attempt[r] /\ Agrees(log[r], lastStatus[r], lastResp[r])
    BY <1>0, <2>1 DEF Logged
  <2>4. /\ Agrees(Append(log[r], "refused"), 503, lastResp[r])
        /\ Agrees(Append(log[r], "error"), lastStatus[r], lastResp[r])
        /\ Agrees(Append(log[r], "5xx"), 500, attempt[r] + 1)
    BY <2>2, <2>3, AgreesAppend
  <2>5. Logged(r)'
    <3>1. CASE Advance(r, "refused", 503, lastResp[r])
      <4>1. log'[r] = Append(log[r], "refused")
        BY <3>1 DEF Advance, TypeOK
      <4>2. Agrees(log'[r], 503, lastResp[r])
        BY <2>4, <4>1
      <4> QED BY <2>1, <2>2, <3>1, <4>2, AdvanceLogged
    <3>2. CASE Advance(r, "5xx", 500, attempt[r] + 1)
      <4>1. log'[r] = Append(log[r], "5xx")
        BY <3>2 DEF Advance, TypeOK
      <4>2. Agrees(log'[r], 500, attempt[r] + 1)
        BY <2>4, <4>1
      <4> QED BY <2>1, <2>2, <3>2, <4>2, AdvanceLogged
    <3>3. CASE Advance(r, "error", lastStatus[r], lastResp[r])
      <4>1. log'[r] = Append(log[r], "error")
        BY <3>3 DEF Advance, TypeOK
      <4>2. Agrees(log'[r], lastStatus[r], lastResp[r])
        BY <2>4, <4>1
      <4> QED BY <2>1, <2>2, <3>3, <4>2, AdvanceLogged
    <3> QED BY <2>1, <3>1, <3>2, <3>3
  <2>6. \A q \in Requests : q # r => log'[q] = log[q]
    BY <2>1 DEF Advance, TypeOK
  <2> QED BY <2>1, <2>5, <2>6, OthersLogged
<1>4. ASSUME NEW r \in Requests, Succeeded(r)
      PROVE  \A q \in Requests : Logged(q)'
  <2>1. /\ Reply(r, <<200, attempt[r] + 1>>) /\ pc[r] # "idle"
        /\ log'[r] = Append(log[r], "ok") /\ log[r] \in Seq(Outcome)
        /\ \A q \in Requests : q # r => log'[q] = log[q]
    BY <1>4 DEF Succeeded, TypeOK
  <2>2. Len(log[r]) = attempt[r] /\ Met(log[r], "ok") = {}
    BY <1>0, <2>1, Zenon DEF Logged, Agrees
  <2>3. /\ Len(Append(log[r], "ok")) = attempt[r] + 1
        /\ Met(Append(log[r], "ok"), "ok") = {attempt[r] + 1}
    BY <2>1, <2>2, MetAppend DEF Outcome
  <2>4. Settled(Append(log[r], "ok"), <<200, attempt[r] + 1>>)
    BY <2>3 DEF Settled
  <2>5. /\ pc'[r] = "idle" /\ answer'[r] = <<200, attempt[r] + 1>>
        /\ attempt'[r] = 0 /\ lastStatus'[r] = 0 /\ lastResp'[r] = 0
    BY <2>1 DEF Reply, TypeOK
  <2>6. Logged(r)'
    BY <2>1, <2>4, <2>5 DEF Logged
  <2> QED BY <2>1, <2>6, OthersLogged
<1>5. ASSUME NEW r \in Requests, Admitted(r) \/ Retry(r)
      PROVE  \A q \in Requests : Logged(q)'
  <2>1. /\ pc[r] # "idle" /\ pc'[r] # "idle"
        /\ \A q \in Requests : q # r => pc'[q] = pc[q]
        /\ UNCHANGED <<attempt, lastStatus, lastResp, answer, log>>
    BY <1>5 DEF Admitted, Retry, locals, TypeOK
  <2> QED BY <1>0, <2>1 DEF Logged
<1>6. CASE Refresh \/ Tick \/ UNCHANGED vars
  BY <1>0, <1>6 DEF Refresh, Tick, vars, locals, Logged
<1> QED
  BY <1>1, <1>2, <1>3, <1>4, <1>5, <1>6 DEF Next, Serve

\* For any requests, backends and retry count, a client is answered with its
\* success, or after RetryCount + 1 attempts with the latest upstream 5xx, else
\* 503 when a breaker refused an attempt, else 502.
THEOREM AnswersRight == Spec => []AnswerMatchesAttempts
<1>1. Init => LogInv
  <2> SUFFICES ASSUME Init PROVE LogInv
    OBVIOUS
  <2>1. TypeOK
    BY InitPInv DEF PInv
  <2> QED BY <2>1 DEF Init, LogInv, Logged, Settled
<1>2. Spec => []LogInv
  BY <1>1, LogStep, PInvariance, PTL DEF Spec
<1>3. LogInv => AnswerMatchesAttempts
  <2> SUFFICES ASSUME LogInv, NEW r \in Requests, answer[r] # NoAnswer, Len(log[r]) > 0
               PROVE  pc[r] = "idle" /\ Settled(log[r], answer[r])
    BY DEF AnswerMatchesAttempts, Settled, Met
  <2> QED BY DEF LogInv, Logged
<1> QED BY <1>2, <1>3, PTL
=============================================================================
