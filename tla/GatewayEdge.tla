----------------------------- MODULE GatewayEdge -----------------------------
(***************************************************************************)
(* The gateway's handler chain as cmd/gateway/main.go composes it: CORS,   *)
(* then the rate limiter when it is enabled, then JWT, then the mux with   *)
(* the health endpoint, the dashboard and the service proxy.  Requests are *)
(* handled concurrently, but up to the handler the only state they share   *)
(* is the limiter's, which each touches once and under its mutex: a        *)
(* request's way through the chain is one step, at that moment.  What      *)
(* happens inside the service proxy is GatewayProxy.tla.                   *)
(***************************************************************************)
EXTENDS RateLimiter

CONSTANTS
  Tokens,       \* the tokens clients present: sets of Checks
  Observed      \* the client whose requests are counted, any one of them

ASSUME ObservedAssumption == Observed \in Clients

VARIABLES
  config,   \* which of the optional stages loadConfig switched on
  reply,    \* the last request and what became of it
  span,     \* history: ticks left of the interval in which the requests of
            \* Observed are counted, -1 when none is
  passed    \* history: those that got past the limiter's place in the chain

vars == <<buckets, sweep, answer, config, reply, span, passed>>

\* What a request asks for: GET /health, another request whose path begins like
\* that, everything below /api/dashboard/, the rest of /api/, and other paths.
Paths == {"health", "likeHealth", "dashboard", "service", "elsewhere"}

\* What validateJWT looks at; a token is the set of checks it would pass.  A
\* missing or different Authorization header passes none.
Checks == {"parts", "signature", "payload", "expiry", "issuer", "audience"}
NoToken == {}

ASSUME TokensAssumption == Tokens \subseteq SUBSET Checks

\* Mutant of validateJWT: the expiry is never looked at.
validateJWTExpired(token) == \A k \in Checks \ {"expiry"} : k \in token

validateJWT(token) == \A k \in Checks : k \in token

\* The paths JWTAuth is told to skip; it compares prefixes.
Skipped(path) == path \in {"health", "likeHealth", "dashboard"}

\* JWTAuth: skip list, then no secret, then the token.
Authorized(path, token) ==
  \/ Skipped(path)
  \/ ~config.secret
  \/ token # NoToken /\ validateJWT(token)

\* The mux, for the default route prefix /api/; "not found" is 404 or 405.
Handler(path) ==
  CASE path = "health"    -> "health"
    [] path = "dashboard" -> "dashboard"
    [] path = "service"   -> "proxy"
    [] OTHER              -> "not found"

Ends == {"preflight", "too many", "unauthorized",
         "health", "dashboard", "proxy", "not found"}

Init ==
  /\ LInit
  /\ config \in [limit: BOOLEAN, secret: BOOLEAN]
  /\ reply = [path |-> "health", authentic |-> FALSE, end |-> "health"]
  /\ span = -1 /\ passed = 0

Answered(path, token, end) ==
  reply' = [path |-> path, authentic |-> token = Checks, end |-> end]

----------------------------------------------------------------------------
\* CORS answers every OPTIONS request itself.
Preflight ==
  /\ Answered("elsewhere", NoToken, "preflight")
  /\ UNCHANGED <<lvars, config, span, passed>>

\* The limiter's Middleware refuses.
TooMany(c) ==
  /\ config.limit
  /\ Refuse(c)
  /\ Answered("elsewhere", NoToken, "too many")
  /\ UNCHANGED <<config, span, passed>>

\* The limiter lets the request through, or is not part of the chain.
Inside(c) ==
  /\ IF config.limit THEN AllowFirst(c) \/ AllowMore(c) ELSE UNCHANGED lvars
  /\ passed' = IF c = Observed /\ span >= 0 THEN passed + 1 ELSE passed
  /\ UNCHANGED <<config, span>>

Unauthorized(c, path, token) ==
  /\ ~Authorized(path, token)
  /\ Inside(c)
  /\ Answered(path, token, "unauthorized")

\* Mutant of Serve: the dashboard is mounted in front of the limiter.
ServeUnlimited(c, path, token) ==
  /\ Authorized(path, token)
  /\ \/ Inside(c)
     \/ /\ path = "dashboard"
        /\ passed' = IF c = Observed /\ span >= 0 THEN passed + 1 ELSE passed
        /\ UNCHANGED <<lvars, config, span>>
  /\ Answered(path, token, Handler(path))

Serve(c, path, token) ==
  /\ Authorized(path, token)
  /\ Inside(c)
  /\ Answered(path, token, Handler(path))

Sweep == Evict /\ UNCHANGED <<config, reply, span, passed>>

Clock ==
  /\ Tick
  /\ span' = Older(span)
  /\ UNCHANGED <<config, reply, passed>>

\* Where there is a limiter, counting starts at any moment for the next Window
\* ticks.
Observe ==
  /\ config.limit
  /\ span = -1
  /\ span' = Window /\ passed' = 0
  /\ UNCHANGED <<lvars, config, reply>>

Next ==
  \/ Preflight
  \/ \E c \in Clients, path \in Paths, token \in Tokens :
       Unauthorized(c, path, token) \/ Serve(c, path, token)
  \/ \E c \in Clients : TooMany(c)
  \/ Observe
  \/ Sweep
  \/ Clock

Spec == Init /\ [][Next]_vars

\* The clock runs and the eviction goroutine is scheduled; nobody is bound to
\* send requests.
FairSpec == Spec /\ WF_vars(Clock) /\ WF_vars(Sweep)

----------------------------------------------------------------------------
\* The chain's own state has its type, and so has the limiter's.
TypeOK ==
  /\ LimiterTypeOK
  /\ config \in [limit: BOOLEAN, secret: BOOLEAN]
  /\ reply \in [path: Paths, authentic: BOOLEAN, end: Ends]
  /\ span \in -1..Window
  /\ passed \in Nat

\* What fixed windows give a client at worst: with rate limiting enabled, in no
\* interval of Window ticks, wherever it starts and however allow(), the strict
\* now.After(resetAt) and the eviction interleave, do more than 2 * limit of its
\* requests get past the limiter, whatever they ask for (the health endpoint and
\* the dashboard included) and whether or not their token is then refused.
WithinTwoWindows == config.limit => passed <= 2 * Limit

\* The chain never answers 401 for the health endpoint (main.go:53, "no auth"),
\* and with a secret configured a request reaches the service proxy only with a
\* token that passes every check of validateJWT.
TokenWhereNeeded ==
  /\ reply.path = "health" => reply.end # "unauthorized"
  /\ (reply.end = "proxy" /\ config.secret) => reply.authentic
=============================================================================
