---------------------------- MODULE GatewayProofs ----------------------------
(***************************************************************************)
(* Proofs about the gateway around the service proxy: for any clients,     *)
(* limit, window, eviction interval and tokens, what GatewayEdge.tla and   *)
(* RateLimiter.tla state of the handler chain and its rate limiter; for    *)
(* any services and instances, what RouteTable.tla states of a refresh.    *)
(***************************************************************************)
EXTENDS GatewayEdge, RouteTable, TLAPS

----------------------------------------------------------------------------
(* The limiter by itself. *)

\* The eviction interval is a positive number of ticks.
LEMMA IntervalPositive == Interval \in Nat \ {0}
  BY LimiterAssumption DEF Interval

\* The limiter starts well typed.
LEMMA LimiterInit == LInit => LimiterTypeOK
  BY IntervalPositive DEF LInit, LimiterTypeOK

\* A step of the limiter, or none, leaves it well typed: allow() stops counting
\* at limit, and a bucket is deleted whole.
LEMMA LimiterTypes == LimiterTypeOK /\ [LNext]_lvars => LimiterTypeOK'
<1> SUFFICES ASSUME LimiterTypeOK, [LNext]_lvars
             PROVE  LimiterTypeOK'
  OBVIOUS
<1> USE LimiterAssumption, IntervalPositive DEF LimiterTypeOK
<1>1. ASSUME NEW c \in Clients, AllowFirst(c)
      PROVE  LimiterTypeOK'
  BY <1>1 DEF AllowFirst, Renew, Bucket
<1>2. ASSUME NEW c \in Clients, AllowMore(c)
      PROVE  LimiterTypeOK'
  <2>1. buckets[c] \in Bucket
    BY <1>2 DEF AllowMore, Fresh, NoBucket
  <2>2. [count |-> buckets[c].count + 1, left |-> buckets[c].left] \in Bucket
    BY <1>2, <2>1 DEF AllowMore, Bucket
  <2> QED BY <1>2, <2>2 DEF AllowMore, Take
<1>3. ASSUME NEW c \in Clients, Refuse(c)
      PROVE  LimiterTypeOK'
  BY <1>3 DEF Refuse
<1>4. CASE Evict
  BY <1>4 DEF Evict
<1>5. CASE Tick
  <2>1. ASSUME NEW c \in Clients
        PROVE  [count |-> buckets[c].count, left |-> Older(buckets[c].left)]
                 \in Bucket \cup {NoBucket}
    BY DEF Older, Bucket, NoBucket
  <2> QED BY <1>5, <2>1 DEF Tick
<1>6. CASE UNCHANGED lvars
  BY <1>6 DEF lvars
<1> QED BY <1>1, <1>2, <1>3, <1>4, <1>5, <1>6 DEF LNext

\* Every step of the limiter is a step of the fixed-window machine or changes
\* nothing it can see: deleting a bucket that is over is not visible.
LEMMA LimiterStepImplements ==
  LimiterTypeOK /\ [LNext]_lvars => [Documented!FNext]_(Documented!wvars)
<1> SUFFICES ASSUME LimiterTypeOK, [LNext]_lvars
             PROVE  [Documented!FNext]_(Documented!wvars)
  OBVIOUS
<1> DEFINE used == [c \in Clients |-> IF Fresh(c) THEN 0 ELSE buckets[c].count]
           left == [c \in Clients |-> buckets[c].left]
<1> USE LimiterAssumption
<1>0. \A c \in Clients : /\ buckets[c].left \in -1..Window
                         /\ buckets[c].count \in 0..Limit
                         /\ Fresh(c) <=> buckets[c].left = -1
  BY DEF LimiterTypeOK, Bucket, NoBucket, Fresh
<1>1. ASSUME NEW c \in Clients, AllowFirst(c)
      PROVE  Documented!Open(c)
  <2>1. buckets' = [buckets EXCEPT ![c] = [count |-> 1, left |-> Window]]
    BY <1>1 DEF AllowFirst, Renew
  <2>4. \A d \in Clients \ {c} : buckets'[d] = buckets[d]
    BY <2>1 DEF LimiterTypeOK
  <2>5. buckets'[c].count = 1 /\ ~(buckets'[c].left < 0)
    BY <2>1 DEF LimiterTypeOK
  <2>2. used' = [used EXCEPT ![c] = 1]
    BY <2>4, <2>5, Zenon DEF Fresh
  <2>3. left' = [left EXCEPT ![c] = Window]
    BY <2>1, Zenon DEF LimiterTypeOK
  <2> QED BY <1>0, <1>1, <2>2, <2>3 DEF AllowFirst, Documented!Open
<1>2. ASSUME NEW c \in Clients, AllowMore(c)
      PROVE  Documented!Use(c)
  <2>1. buckets' = [buckets EXCEPT
                      ![c] = [count |-> buckets[c].count + 1, left |-> buckets[c].left]]
    BY <1>2 DEF AllowMore, Take
  <2>5. \A d \in Clients \ {c} : buckets'[d] = buckets[d]
    BY <2>1 DEF LimiterTypeOK
  <2>6. buckets'[c].count = buckets[c].count + 1 /\ buckets'[c].left = buckets[c].left
    BY <2>1 DEF LimiterTypeOK
  <2>7. ~(buckets[c].left < 0)
    BY <1>2 DEF AllowMore, Fresh
  <2>2. used' = [used EXCEPT ![c] = used[c] + 1]
    BY <2>5, <2>6, <2>7, Zenon DEF Fresh
  <2>3. left' = left
    BY <2>1 DEF LimiterTypeOK
  <2>4. left[c] >= 0 /\ used[c] < Limit
    BY <1>0, <1>2 DEF AllowMore, Fresh
  <2> QED BY <1>2, <2>2, <2>3, <2>4 DEF AllowMore, Documented!Use
<1>3. ASSUME NEW c \in Clients, Refuse(c)
      PROVE  Documented!Deny(c)
  <2>1. left[c] >= 0 /\ used[c] = Limit
    BY <1>0, <1>3 DEF Refuse, Refused, Fresh
  <2>2. used' = used /\ left' = left
    BY <1>3 DEF Refuse, Fresh
  <2> QED BY <1>3, <2>1, <2>2 DEF Refuse, Documented!Deny
<1>4. CASE Evict
  <2>1. \A c \in Clients : buckets'[c] = IF Fresh(c) THEN NoBucket ELSE buckets[c]
    BY <1>4 DEF Evict, Fresh
  <2>2. \A c \in Clients : buckets'[c].left = buckets[c].left
    BY <1>0, <2>1 DEF NoBucket
  <2>3. used' = used
    BY <2>1, <2>2 DEF Fresh, NoBucket
  <2>4. left' = left
    BY <2>2
  <2> QED BY <1>4, <2>3, <2>4 DEF Evict, Documented!wvars
<1>5. CASE Tick
  <2>1. \A c \in Clients : /\ buckets'[c].count = buckets[c].count
                           /\ buckets'[c].left = Older(buckets[c].left)
    BY <1>5 DEF Tick
  <2>2. \A c \in Clients : Fresh(c)' <=> ~(buckets[c].left > 0)
    BY <1>0, <2>1 DEF Fresh, Older
  <2>3. used' = [c \in Clients |-> IF left[c] > 0 THEN used[c] ELSE 0]
    BY <1>0, <2>1, <2>2
  <2>4. left' = [c \in Clients |-> IF left[c] > 0 THEN left[c] - 1 ELSE -1]
    BY <1>0, <2>1 DEF Older
  <2> QED BY <1>5, <2>3, <2>4 DEF Tick, Documented!Pass, Documented!FNext
<1>6. CASE UNCHANGED lvars
  BY <1>6 DEF lvars, Documented!wvars, Fresh
<1> QED
  BY <1>1, <1>2, <1>3, <1>4, <1>5, <1>6 DEF LNext, Documented!FNext

----------------------------------------------------------------------------
(* The chain. *)

\* Every step of the chain is a step of the limiter or leaves it alone.
LEMMA ChainUsesLimiter == [Next]_vars => [LNext]_lvars
  BY Zenon DEF Next, vars, lvars, LNext, Preflight, TooMany, Unauthorized, Serve, Inside,
         Observe, Sweep, Clock

\* What a request is answered has its type.
LEMMA AnsweredType ==
  ASSUME NEW path \in Paths, NEW token, NEW end \in Ends, Answered(path, token, end)
  PROVE  reply' \in [path: Paths, authentic: BOOLEAN, end: Ends]
<1>1. (token = Checks) \in BOOLEAN
  OBVIOUS
<1> QED BY <1>1 DEF Answered

\* Every variable keeps its type, for any constants.
THEOREM EdgeTypeCorrect == Spec => []TypeOK
<1>1. Init => TypeOK
  BY LimiterInit, LimiterAssumption DEF Init, TypeOK, Paths, Ends
<1>2. TypeOK /\ [Next]_vars => TypeOK'
  <2> SUFFICES ASSUME TypeOK, [Next]_vars
               PROVE  TypeOK'
    OBVIOUS
  <2>1. LimiterTypeOK'
    BY ChainUsesLimiter, LimiterTypes DEF TypeOK
  <2>2. ASSUME NEW c \in Clients, Inside(c)
        PROVE  /\ config' \in [limit: BOOLEAN, secret: BOOLEAN]
               /\ span' \in -1..Window
               /\ passed' \in Nat
    BY <2>2 DEF Inside, TypeOK
  <2>3. ASSUME NEW c \in Clients, NEW path \in Paths, NEW token \in Tokens,
               Unauthorized(c, path, token) \/ Serve(c, path, token)
        PROVE  TypeOK'
    <3>1. Inside(c)
      BY <2>3 DEF Unauthorized, Serve
    <3>2. Handler(path) \in Ends
      BY DEF Handler, Paths, Ends
    <3>3. reply' \in [path: Paths, authentic: BOOLEAN, end: Ends]
      BY <2>3, <3>2, AnsweredType, Zenon DEF Unauthorized, Serve, Ends
    <3> QED BY <2>1, <2>2, <3>1, <3>3 DEF TypeOK
  <2>4. ASSUME Preflight \/ \E c \in Clients : TooMany(c)
        PROVE  TypeOK'
    <3>1. reply' \in [path: Paths, authentic: BOOLEAN, end: Ends]
      BY <2>4, AnsweredType, Zenon DEF Preflight, TooMany, Paths, Ends
    <3> QED BY <2>1, <2>4, <3>1, Zenon DEF TypeOK, Preflight, TooMany
  <2>5. CASE Observe \/ Sweep \/ Clock
    BY <2>1, <2>5, LimiterAssumption DEF Observe, Sweep, Clock, Older, TypeOK
  <2>6. CASE UNCHANGED vars
    BY <2>1, <2>6 DEF vars, TypeOK
  <2> QED BY <2>3, <2>4, <2>5, <2>6 DEF Next
<1> QED BY <1>1, <1>2, PTL DEF Spec

\* In the chain allow() answers as a fixed-window limiter without eviction.
THEOREM EdgeImplementsFixedWindow == Spec => ImplementsFixedWindow
<1>1. Init => Documented!FInit
  <2> SUFFICES ASSUME LInit PROVE Documented!FInit
    BY DEF Init
  <2>1. \A c \in Clients : buckets[c].left = -1
    BY Zenon DEF LInit, NoBucket
  <2>2. ASSUME NEW c \in Clients PROVE Fresh(c)
    <3>1. buckets[c].left = -1 /\ -1 < 0
      BY <2>1
    <3> QED BY <3>1 DEF Fresh
  <2> QED BY <2>1, <2>2, Zenon DEF LInit, Documented!FInit
<1>2. TypeOK /\ [Next]_vars => [Documented!FNext]_(Documented!wvars)
  BY ChainUsesLimiter, LimiterStepImplements DEF TypeOK
<1> QED
  BY <1>1, <1>2, EdgeTypeCorrect, PTL
  DEF Spec, ImplementsFixedWindow, Documented!Windows

\* Why 2 * limit holds.  While the observed interval lasts, what got through
\* is at most one window's worth when no window is open; otherwise it is all
\* counted in the open bucket, or the bucket was made during the interval, will
\* outlast it, and one window's worth came before.
CountInv ==
  config.limit =>
    /\ passed <= 2 * Limit
    /\ span >= 0 =>
         IF Fresh(Observed) THEN passed <= Limit
         ELSE \/ passed <= buckets[Observed].count
              \/ /\ passed <= Limit + buckets[Observed].count
                 /\ buckets[Observed].left >= span

\* No more than two windows' worth gets through in any Window ticks.
THEOREM TwoWindows == Spec => []WithinTwoWindows
<1> USE LimiterAssumption, ObservedAssumption
<1>1. Init => CountInv
  BY DEF Init, CountInv
<1>2. TypeOK /\ CountInv /\ [Next]_vars => CountInv'
  <2> SUFFICES ASSUME TypeOK, CountInv, [Next]_vars, config.limit
               PROVE  CountInv'
    BY Zenon DEF Next, vars, CountInv, Preflight, TooMany, Unauthorized, Serve, Inside,
           Observe, Sweep, Clock
  <2>0. /\ buckets[Observed].left \in -1..Window
        /\ buckets[Observed].count \in 0..Limit
        /\ span \in -1..Window /\ passed \in Nat
        /\ buckets \in [Clients -> Bucket \cup {NoBucket}]
    BY DEF TypeOK, LimiterTypeOK, Bucket, NoBucket
  <2>1. ASSUME NEW c \in Clients, Inside(c)
        PROVE  CountInv'
    <3>1. CASE AllowFirst(c)
      <4>1. buckets' = [buckets EXCEPT ![c] = [count |-> 1, left |-> Window]]
        BY <3>1 DEF AllowFirst, Renew
      <4> QED BY <2>0, <2>1, <3>1, <4>1 DEF Inside, AllowFirst, CountInv, Fresh
    <3>2. CASE AllowMore(c)
      <4>1. buckets' = [buckets EXCEPT
                          ![c] = [count |-> buckets[c].count + 1, left |-> buckets[c].left]]
        BY <3>2 DEF AllowMore, Take
      <4> QED BY <2>0, <2>1, <3>2, <4>1 DEF Inside, AllowMore, CountInv, Fresh
    <3> QED BY <2>1, <3>1, <3>2 DEF Inside
  <2>2. CASE Sweep
    BY <2>0, <2>2 DEF Sweep, Evict, CountInv, Fresh, NoBucket
  <2>3. CASE Clock
    BY <2>0, <2>3 DEF Clock, Tick, Older, CountInv, Fresh
  <2>4. CASE Observe
    BY <2>0, <2>4 DEF Observe, CountInv, Fresh, lvars
  <2>5. CASE Preflight \/ (\E c \in Clients : TooMany(c)) \/ UNCHANGED vars
    BY <2>5, Zenon DEF Preflight, TooMany, Refuse, vars, lvars, CountInv, Fresh
  <2> QED BY <2>1, <2>2, <2>3, <2>4, <2>5 DEF Next, Unauthorized, Serve
<1>3. CountInv => WithinTwoWindows
  BY DEF CountInv, WithinTwoWindows
<1> QED BY <1>1, <1>2, <1>3, EdgeTypeCorrect, PTL DEF Spec

\* The token rules hold for any tokens clients may present.
THEOREM TokensChecked == Spec => []TokenWhereNeeded
<1>1. Init => TokenWhereNeeded
  BY DEF Init, TokenWhereNeeded
<1>2. TokenWhereNeeded /\ [Next]_vars => TokenWhereNeeded'
  <2> SUFFICES ASSUME TokenWhereNeeded, [Next]_vars
               PROVE  TokenWhereNeeded'
    OBVIOUS
  <2>1. ASSUME NEW c \in Clients, NEW path \in Paths, NEW token \in Tokens,
               Unauthorized(c, path, token) \/ Serve(c, path, token)
        PROVE  TokenWhereNeeded'
    <3>1. CASE Unauthorized(c, path, token)
      <4>1. path # "health"
        BY <3>1 DEF Unauthorized, Authorized, Skipped
      <4>2. reply'.path = path /\ reply'.end = "unauthorized"
        BY <3>1 DEF Unauthorized, Answered
      <4> QED BY <4>1, <4>2 DEF TokenWhereNeeded
    <3>2. CASE Serve(c, path, token)
      <4>1. reply'.end = Handler(path) /\ reply'.authentic = (token = Checks)
        BY <3>2 DEF Serve, Answered
      <4>2. Handler(path) # "unauthorized" /\ (Handler(path) = "proxy" => path = "service")
        BY DEF Handler, Paths
      <4>3. config' = config
        BY <3>2 DEF Serve, Inside
      <4>4. ASSUME path = "service", config.secret
            PROVE  token = Checks
        BY <3>2, <4>4, TokensAssumption
        DEF Serve, Authorized, Skipped, validateJWT
      <4> QED BY <4>1, <4>2, <4>3, <4>4, Zenon DEF TokenWhereNeeded
    <3> QED BY <2>1, <3>1, <3>2
  <2>2. CASE Preflight
    <3>1. reply'.end = "preflight"
      BY <2>2 DEF Preflight, Answered
    <3> QED BY <3>1 DEF TokenWhereNeeded
  <2>4. ASSUME NEW c \in Clients, TooMany(c)
        PROVE  TokenWhereNeeded'
    <3>1. reply'.end = "too many"
      BY <2>4, Zenon DEF TooMany, Answered
    <3> QED BY <3>1, Zenon DEF TokenWhereNeeded
  <2>3. CASE Observe \/ Sweep \/ Clock \/ UNCHANGED vars
    BY <2>3 DEF Observe, Sweep, Clock, vars, TokenWhereNeeded
  <2> QED BY <2>1, <2>2, <2>3, <2>4 DEF Next
<1> QED BY <1>1, <1>2, PTL DEF Spec

----------------------------------------------------------------------------
(* What a refresh of the route table guarantees for any number of services  *)
(* and instances, whatever Consul does while it runs.                       *)

\* The table under construction, against what Consul has said since refresh
\* began: nothing in it that was never healthy, and nothing missing that has
\* been healthy all the time, but for services that are still to be asked
\* about, whose query failed, or Consul's own.
Building ==
  /\ steady \subseteq HealthyNow
  /\ pc = "idle" => steady = {} /\ newRoutes = NoRoutes
  /\ pc = "fetching" =>
       /\ HealthyNow \subseteq everHealthy
       /\ \A s \in Services : newRoutes[s] \subseteq everHealthy
       /\ \A i \in steady : \/ ServiceOf[i] \in failed \cup todo \cup {Consul}
                            \/ i \in newRoutes[ServiceOf[i]]

TableInv == TableTypeOK /\ Building

LEMMA RouteInit ==
  ASSUME TableInit
  PROVE  TableInv
<1>1. TableTypeOK
  BY ServiceOfFunction DEF TableInit, TableTypeOK, NoRoutes, Absent, CheckStatus
<1>2. Building
  BY DEF TableInit, Building
<1> QED
  BY <1>1, <1>2 DEF TableInv

LEMMA RouteStep ==
  ASSUME TableInv, [TableNext]_tvars
  PROVE  TableInv'
<1> USE ServiceOfFunction
<1>0. TableTypeOK /\ Building
  BY DEF TableInv
<1>1. HealthyNow \subseteq Instances /\ HealthyNow' \subseteq Instances
  BY DEF HealthyNow
<1>2. CASE Begin
  <2>1. TableTypeOK'
    BY <1>0, <1>1, <1>2 DEF Begin, TableTypeOK, GetServices
  <2>2. HealthyNow' = HealthyNow
    BY <1>2 DEF Begin, HealthyNow, Healthy
  <2>3. \A i \in HealthyNow : ServiceOf[i] \in GetServices \cup {Consul}
    BY DEF HealthyNow, Healthy, GetServices
  <2>4. \A s \in Services : newRoutes[s] = {}
    BY <1>0, <1>2 DEF Begin, Building, NoRoutes
  <2>5. Building'
    BY <1>2, <2>2, <2>3, <2>4 DEF Begin, Building
  <2> QED
    BY <2>1, <2>5 DEF TableInv
<1>3. ASSUME NEW s \in Services, Fetch(s)
      PROVE  TableInv'
  <2>1. TableTypeOK'
    BY <1>0, <1>1, <1>3 DEF Fetch, TableTypeOK, HealthyInstances, history
  <2>2. HealthyNow' = HealthyNow
    BY <1>3 DEF Fetch, HealthyNow, Healthy
  <2>3. /\ newRoutes'[s] = {i \in HealthyNow : ServiceOf[i] = s}
        /\ \A t \in Services \ {s} : newRoutes'[t] = newRoutes[t]
    BY <1>0, <1>3 DEF Fetch, TableTypeOK, HealthyInstances
  <2>4. Building'
    <3>1. \A i \in steady : \/ ServiceOf[i] \in failed \cup todo' \cup {Consul}
                            \/ i \in newRoutes'[ServiceOf[i]]
      BY <1>0, <1>1, <1>3, <2>3 DEF Building, Fetch
    <3> QED
      BY <1>0, <1>3, <2>2, <2>3, <3>1 DEF Building, Fetch, history
  <2> QED
    BY <2>1, <2>4 DEF TableInv
<1>4. ASSUME NEW s \in Services, FetchFails(s)
      PROVE  TableInv'
  <2>1. TableTypeOK'
    BY <1>0, <1>4 DEF FetchFails, TableTypeOK
  <2>2. HealthyNow' = HealthyNow
    BY <1>4 DEF FetchFails, HealthyNow, Healthy
  <2>3. Building'
    BY <1>0, <1>4, <2>2 DEF Building, FetchFails
  <2> QED
    BY <2>1, <2>3 DEF TableInv
<1>5. CASE Install
  <2>1. TableTypeOK'
    BY <1>0, <1>5 DEF Install, Return, TableTypeOK, NoRoutes
  <2>2. Building'
    BY <1>5 DEF Building, Install, Return
  <2> QED
    BY <2>1, <2>2 DEF TableInv
<1>6. ASSUME NEW i \in Instances, ConsulChanges(i)
      PROVE  TableInv'
  <2>1. catalog' \in [Instances -> {Absent} \cup SUBSET CheckStatus]
    BY <1>0, <1>6 DEF ConsulChanges, TableTypeOK, CheckStatus
  <2>2. TableTypeOK'
    BY <1>0, <1>1, <1>6, <2>1 DEF ConsulChanges, TableTypeOK
  <2>3. Building'
    BY <1>0, <1>6 DEF Building, ConsulChanges
  <2> QED
    BY <2>2, <2>3 DEF TableInv
<1>7. CASE ConsulOutage
  <2>1. TableTypeOK'
    BY <1>0, <1>7 DEF ConsulOutage, TableTypeOK, history
  <2>2. HealthyNow' = HealthyNow
    BY <1>7 DEF ConsulOutage, HealthyNow, Healthy
  <2>3. Building'
    BY <1>0, <1>7, <2>2 DEF Building, ConsulOutage, history
  <2> QED
    BY <2>1, <2>3 DEF TableInv
<1>8. CASE UNCHANGED tvars
  <2>1. HealthyNow' = HealthyNow
    BY <1>8 DEF tvars, HealthyNow, Healthy
  <2> QED
    BY <1>0, <1>8, <2>1 DEF tvars, history, TableInv, TableTypeOK, Building
<1> QED
  BY <1>2, <1>3, <1>4, <1>5, <1>6, <1>7, <1>8 DEF TableNext, Refresh

LEMMA RouteInvariant == Table => []TableInv
BY RouteInit, RouteStep, PTL DEF Table

(***************************************************************************)
(* The variables of the route table keep their types.                      *)
(***************************************************************************)
THEOREM RoutesTypeCorrect == Table => []TableTypeOK
<1>1. TableInv => TableTypeOK
  BY DEF TableInv
<1> QED
  BY <1>1, RouteInvariant, PTL

(***************************************************************************)
(* Every backend of a table that refresh installs was healthy at some      *)
(* instant of that refresh, however Consul changes between its queries.    *)
(***************************************************************************)
THEOREM RoutesOnlyHealthy == Table => InstallsOnlyHealthy
<1>1. TableInv /\ Install => \A s \in Services : routes'[s] \subseteq everHealthy
  BY DEF TableInv, Building, Install
<1>2. TableInv /\ [TableNext]_tvars => [Install => \A s \in Services : routes'[s] \subseteq everHealthy]_tvars
  BY <1>1
<1> QED
  BY <1>2, RouteInvariant, PTL DEF Table, InstallsOnlyHealthy

(***************************************************************************)
(* A backend that is healthy all through a refresh is in the table that it *)
(* installs, unless the query for its own service failed.                  *)
(***************************************************************************)
THEOREM RoutesAllSteady == Table => InstallsAllSteady
<1> DEFINE A == Install => \A i \in steady :
                  ServiceOf[i] \in failed \cup {Consul} \/ i \in routes'[ServiceOf[i]]
<1>1. TableInv => A
  BY DEF TableInv, Building, Install
<1>2. TableInv /\ [TableNext]_tvars => [A]_tvars
  BY <1>1
<1> QED
  BY <1>2, RouteInvariant, PTL DEF Table, InstallsAllSteady
=============================================================================
