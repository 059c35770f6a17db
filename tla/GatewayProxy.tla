----------------------------- MODULE GatewayProxy -----------------------------
(***************************************************************************)
(* The reverse proxy of the gateway (internal/gateway/proxy.go): concurrent*)
(* requests to one service, each looking a backend up in the route table,  *)
(* asking that backend's circuit breaker, forwarding, recording the result *)
(* and retrying, while the route table is refreshed and the clock runs.    *)
(*                                                                         *)
(* A goroutine's local variables are functions of the request; a step ends *)
(* where the goroutine next touches state it shares or waits.  Answers are *)
(* pairs <<status, attempt>>: the attempt whose upstream response is       *)
(* written to the client, 0 for an answer the gateway makes up itself.     *)
(***************************************************************************)
EXTENDS BreakerOps, Sequences

CONSTANTS
  Requests,     \* the goroutines that serve requests
  Backends,     \* instances of the service, by ServiceID
  NoBackend,    \* the nil *Backend
  RetryCount    \* resilience.RetryCount

ASSUME RetryCountNat == RetryCount \in Nat
ASSUME NoBackendFresh == NoBackend \notin Backends
\* newBreakerMap builds its breakers with NewCircuitBreaker.
ASSUME OneSuccessRecovers == RecoveryThreshold = 1

VARIABLES
  routes,      \* the route of the service: its backends, {} when there is none
  breakers,    \* breakerMap, with the breaker that get would create where none is
  pc,          \* idle, gate (about to ask Allow), forward, backoff (time.Sleep)
  attempt,     \* the loop variable
  backend,
  lastStatus,
  lastResp,    \* the attempt that lastResp came from, 0 for nil
  body,        \* the client's request body: none, whole, or read by an attempt
  answer,      \* what the last request of this goroutine was answered
  probe,       \* its current attempt was admitted in half-open (history)
  log          \* the outcomes of its attempts (history)

locals == <<attempt, backend, lastStatus, lastResp, body>>
vars == <<routes, breakers, pc, locals, answer, probe, log>>

Outcome == {"ok", "5xx", "error", "refused"}
Answer == {0, 200, 404, 500, 502, 503} \X (0..(RetryCount + 1))
NoAnswer == <<0, 0>>

Init ==
  /\ routes = {}
  /\ breakers = [b \in Backends |-> NewBreaker]
  /\ pc = [r \in Requests |-> "idle"]
  /\ attempt = [r \in Requests |-> 0]
  /\ backend = [r \in Requests |-> NoBackend]
  /\ lastStatus = [r \in Requests |-> 0]
  /\ lastResp = [r \in Requests |-> 0]
  /\ body = [r \in Requests |-> "none"]
  /\ answer = [r \in Requests |-> NoAnswer]
  /\ probe = [r \in Requests |-> FALSE]
  /\ log = [r \in Requests |-> <<>>]

----------------------------------------------------------------------------
\* What RouteTable.Lookup may return: a random backend of the route, or nil.
Lookup == IF routes = {} THEN {NoBackend} ELSE routes

\* ServeHTTP returns, having written a: the goroutine's locals are gone.
Reply(r, a) ==
  /\ answer' = [answer EXCEPT ![r] = a]
  /\ pc' = [pc EXCEPT ![r] = "idle"]
  /\ attempt' = [attempt EXCEPT ![r] = 0]
  /\ backend' = [backend EXCEPT ![r] = NoBackend]
  /\ lastStatus' = [lastStatus EXCEPT ![r] = 0]
  /\ lastResp' = [lastResp EXCEPT ![r] = 0]
  /\ body' = [body EXCEPT ![r] = "none"]

\* The path names no service: http.NotFound.
Misaddressed(r) ==
  /\ pc[r] = "idle"
  /\ Reply(r, <<404, 0>>)
  /\ log' = [log EXCEPT ![r] = <<>>]
  /\ UNCHANGED <<routes, breakers, probe>>

\* Lookup returns nil: 502 without an attempt.
Unrouted(r) ==
  /\ pc[r] = "idle"
  /\ NoBackend \in Lookup
  /\ Reply(r, <<502, 0>>)
  /\ log' = [log EXCEPT ![r] = <<>>]
  /\ UNCHANGED <<routes, breakers, probe>>

\* Lookup returns a random backend and the loop starts.
Start(r) ==
  /\ pc[r] = "idle"
  /\ \E b \in Lookup \ {NoBackend} : backend' = [backend EXCEPT ![r] = b]
  /\ \E whole \in {"none", "whole"} : body' = [body EXCEPT ![r] = whole]
  /\ pc' = [pc EXCEPT ![r] = "gate"]
  /\ answer' = [answer EXCEPT ![r] = NoAnswer]
  /\ log' = [log EXCEPT ![r] = <<>>]
  /\ UNCHANGED <<routes, breakers, attempt, lastStatus, lastResp, probe>>

\* After the loop: the last upstream 5xx if there was one, else lastStatus, else 502.
Exhausted(status, resp) ==
  IF resp # 0 THEN <<500, resp>> ELSE IF status = 0 THEN <<502, 0>> ELSE <<status, 0>>

\* forward hands the body to the transport, which reads it and closes it.
BodyAfter(r, outcome) ==
  IF outcome = "refused" \/ body[r] = "none" THEN body[r] ELSE "spent"

\* Mutants of Advance: a refused attempt does not use up an iteration; an
\* upstream 5xx is kept only while no later attempt fails.
AdvanceForever(r, outcome, status, resp) ==
  IF attempt[r] < RetryCount \/ outcome = "refused"
  THEN /\ pc' = [pc EXCEPT ![r] = "backoff"]
       /\ attempt' = [attempt EXCEPT ![r] = IF outcome = "refused" THEN @ ELSE @ + 1]
       /\ lastStatus' = [lastStatus EXCEPT ![r] = status]
       /\ lastResp' = [lastResp EXCEPT ![r] = resp]
       /\ body' = [body EXCEPT ![r] = BodyAfter(r, outcome)]
       /\ log' = [log EXCEPT ![r] = IF outcome = "refused" THEN @ ELSE Append(@, outcome)]
       /\ UNCHANGED <<backend, answer>>
  ELSE Reply(r, Exhausted(status, resp)) /\ log' = [log EXCEPT ![r] = Append(@, outcome)]

AdvanceForgets(r, outcome, status, resp) ==
  LET kept == IF outcome = "5xx" THEN resp ELSE 0 IN
  /\ log' = [log EXCEPT ![r] = Append(@, outcome)]
  /\ IF attempt[r] < RetryCount
     THEN /\ pc' = [pc EXCEPT ![r] = "backoff"]
          /\ attempt' = [attempt EXCEPT ![r] = @ + 1]
          /\ lastStatus' = [lastStatus EXCEPT ![r] = status]
          /\ lastResp' = [lastResp EXCEPT ![r] = kept]
          /\ body' = [body EXCEPT ![r] = BodyAfter(r, outcome)]
          /\ UNCHANGED <<backend, answer>>
     ELSE Reply(r, Exhausted(status, kept))

\* The end of a loop iteration that did not return: the next one, or the answer
\* when there is none.
Advance(r, outcome, status, resp) ==
  /\ log' = [log EXCEPT ![r] = Append(@, outcome)]
  /\ IF attempt[r] < RetryCount
     THEN /\ pc' = [pc EXCEPT ![r] = "backoff"]
          /\ attempt' = [attempt EXCEPT ![r] = @ + 1]
          /\ lastStatus' = [lastStatus EXCEPT ![r] = status]
          /\ lastResp' = [lastResp EXCEPT ![r] = resp]
          /\ body' = [body EXCEPT ![r] = BodyAfter(r, outcome)]
          /\ UNCHANGED <<backend, answer>>
     ELSE Reply(r, Exhausted(status, resp))

\* Mutant of Refused: a refused attempt is repeated once more after the loop.
RefusedOnceMore(r) ==
  /\ pc[r] = "gate"
  /\ ~Allows(breakers[backend[r]])
  /\ pc' = [pc EXCEPT ![r] = "backoff"]
  /\ attempt' = [attempt EXCEPT ![r] = @ + 1]
  /\ attempt[r] <= RetryCount
  /\ UNCHANGED <<routes, breakers, backend, lastStatus, lastResp, body, answer, probe, log>>

\* The circuit breaker check: Allow returns false.
Refused(r) ==
  /\ pc[r] = "gate"
  /\ ~Allows(breakers[backend[r]])
  /\ Advance(r, "refused", 503, lastResp[r])
  /\ UNCHANGED <<routes, breakers, probe>>

\* Allow returns true and the request goes out.
Admitted(r) ==
  LET b == backend[r] IN
  /\ pc[r] = "gate"
  /\ Allows(breakers[b])
  /\ breakers' = [breakers EXCEPT ![b] = Allow(@)]
  /\ pc' = [pc EXCEPT ![r] = "forward"]
  /\ probe' = [probe EXCEPT ![r] = breakers[b].state # "closed"]
  /\ UNCHANGED <<routes, locals, answer, log>>

\* forward returns a response below 500: recorded and written to the client.
Succeeded(r) ==
  /\ pc[r] = "forward"
  /\ breakers' = [breakers EXCEPT ![backend[r]] = RecordSuccess(@)]
  /\ Reply(r, <<200, attempt[r] + 1>>)
  /\ log' = [log EXCEPT ![r] = Append(@, "ok")]
  /\ probe' = [probe EXCEPT ![r] = FALSE]
  /\ UNCHANGED routes

\* Mutant of Failed: an attempt that got no response is not recorded.
FailedUnrecorded(r) ==
  /\ pc[r] = "forward"
  /\ \/ /\ breakers' = [breakers EXCEPT ![backend[r]] = RecordFailure(@)]
        /\ Advance(r, "5xx", 500, attempt[r] + 1)
     \/ UNCHANGED breakers /\ Advance(r, "error", lastStatus[r], lastResp[r])
  /\ probe' = [probe EXCEPT ![r] = FALSE]
  /\ UNCHANGED routes

\* forward returns a 5xx response, or an error: the dial, the connection or the
\* client's own context failed, or the response could not be read.
Failed(r) ==
  /\ pc[r] = "forward"
  /\ breakers' = [breakers EXCEPT ![backend[r]] = RecordFailure(@)]
  /\ \/ Advance(r, "5xx", 500, attempt[r] + 1)
     \/ Advance(r, "error", lastStatus[r], lastResp[r])
  /\ probe' = [probe EXCEPT ![r] = FALSE]
  /\ UNCHANGED routes

\* The delay is over: look up again, and keep the backend when there is no route.
Retry(r) ==
  /\ pc[r] = "backoff"
  /\ pc' = [pc EXCEPT ![r] = "gate"]
  /\ \E b \in Lookup :
       backend' = [backend EXCEPT ![r] = IF b = NoBackend THEN @ ELSE b]
  /\ UNCHANGED <<routes, breakers, attempt, lastStatus, lastResp, body, answer, probe, log>>

\* RouteTable.refresh replaces the route of the service (RouteTable.tla has how).
Refresh ==
  /\ routes' \in SUBSET Backends
  /\ UNCHANGED <<breakers, pc, locals, answer, probe, log>>

Tick ==
  /\ \E b \in Backends : breakers[b].state = "open" /\ ~Elapsed(breakers[b])
  /\ breakers' = [b \in Backends |-> Age(breakers[b])]
  /\ UNCHANGED <<routes, pc, locals, answer, probe, log>>

Serve(r) == Refused(r) \/ Admitted(r) \/ Succeeded(r) \/ Failed(r) \/ Retry(r)

Next ==
  \/ \E r \in Requests : Misaddressed(r) \/ Unrouted(r) \/ Start(r) \/ Serve(r)
  \/ Refresh
  \/ Tick

Spec == Init /\ [][Next]_vars

\* A goroutine that serves a request is scheduled, its time.Sleep ends, and its
\* RoundTrip returns (a response, an error, or the client giving up).  The
\* transport itself sets no response timeout: this last is the assumption on
\* backends and clients under which the gateway's answers are guaranteed.
Fairness == \A r \in Requests : WF_vars(Serve(r))

FairSpec == Spec /\ Fairness

----------------------------------------------------------------------------
\* Every variable has the type of the Go value it models.
TypeOK ==
  /\ routes \in SUBSET Backends
  /\ breakers \in [Backends -> Breaker]
  /\ pc \in [Requests -> {"idle", "gate", "forward", "backoff"}]
  /\ attempt \in [Requests -> 0..RetryCount]
  /\ backend \in [Requests -> Backends \cup {NoBackend}]
  /\ lastStatus \in [Requests -> {0, 500, 503}]
  /\ lastResp \in [Requests -> 0..(RetryCount + 1)]
  /\ body \in [Requests -> {"none", "whole", "spent"}]
  /\ answer \in [Requests -> Answer]
  /\ probe \in [Requests -> BOOLEAN]
  /\ log \in [Requests -> Seq(Outcome)]

\* No backend is lost behind its breaker: while a breaker's half-open gate is
\* shut, a request admitted by it in half-open is being forwarded to that very
\* backend, and whatever forward returns ServeHTTP records it on that breaker.
GateHeldByForward ==
  \A b \in Backends :
    breakers[b].halfOpenUsed =>
      \E r \in Requests : pc[r] = "forward" /\ backend[r] = b /\ probe[r]

\* The answer agrees with what the attempts met.  A success ends the loop and is
\* passed on; otherwise every attempt was used, and the client gets the latest
\* upstream 5xx if any attempt got one, else 503 if any attempt was refused by a
\* breaker, else 502: the code after the loop in ServeHTTP.
AnswerMatchesAttempts ==
  \A r \in Requests :
    LET n == Len(log[r])
        met(o) == {i \in 1..n : log[r][i] = o}
    IN (answer[r] # NoAnswer /\ n > 0) =>
       \/ /\ met("ok") = {n}
          /\ answer[r] = <<200, n>>
       \/ /\ met("ok") = {} /\ n = RetryCount + 1
          /\ \/ /\ answer[r][1] = 500 /\ answer[r][2] \in met("5xx")
                /\ \A i \in met("5xx") : i <= answer[r][2]
             \/ met("5xx") = {} /\ met("refused") # {} /\ answer[r] = <<503, 0>>
             \/ met("5xx") = {} /\ met("refused") = {} /\ answer[r] = <<502, 0>>

\* Every request the proxy starts to serve is answered: retries, refusals and
\* route changes cannot keep it in the loop.
EveryRequestAnswered == \A r \in Requests : pc[r] # "idle" ~> pc[r] = "idle"

----------------------------------------------------------------------------
\* README.md:7 promises "retry with exponential backoff" and proxy.go:78 says
\* "Attempt the request with retries": a retry sends the client's request, so its
\* body is still there when an attempt goes out.
RetriesSendTheRequest == \A r \in Requests : pc[r] = "forward" => body[r] # "spent"
=============================================================================
