---------------------------- MODULE LoadBalancer ----------------------------
(***************************************************************************)
(* router.LoadBalancer shared by concurrent callers.  Each Select runs in  *)
(* the steps the code takes: the provider's answer is filtered, then one   *)
(* strategy picks (least-connections reads the counters one by one and     *)
(* increments afterwards, with other callers in between; the others touch  *)
(* at most one atomic counter), then the pick is recorded under lb.mu.     *)
(* The caller holds its instance until it calls ReportResult.              *)
(* The candidates of a call are a set of IDs in the order of the service's *)
(* listing.                                                                *)
(***************************************************************************)
EXTENDS Integers, FiniteSets, Sequences, FiniteSetsExt

CONSTANTS
  Callers, Services,
  Instances,    \* ServiceIDs; two services may list the same one
  Listing,      \* per service: the order in which the provider lists its IDs
  Statuses,     \* the health of the instances, as GetInstances may find it
  Taggings,     \* the lb_strategy metadata of the instances, "" for none
  Weight,       \* the weight metadata, 0 when missing or not a number
  Sessions,     \* non-empty SessionID or X-Correlation-ID values
  Hash,         \* fnv1a of each of them
  MaxInt,       \* math.MaxInt64
  MaxDrift,     \* bound on the history drift
  Nobody        \* not an instance

Status == {"Unknown", "Healthy", "Unhealthy", "Degraded"}

Members(s) == {Listing[s][n] : n \in DOMAIN Listing[s]}

ASSUME BalancerAssumption ==
  /\ IsFiniteSet(Callers)
  /\ Nobody \notin Instances \cup Services
  /\ Listing \in [Services -> Seq(Instances)]
  /\ Weight \in [Instances -> Int]
  /\ Hash \in [Sessions -> Nat]
  /\ Statuses \subseteq [Instances -> Status]
  /\ MaxInt \in Nat \ {0}
  /\ MaxDrift \in Nat

VARIABLES
  tag,              \* per instance: its lb_strategy
  roundRobinIdx,    \* per service, plain or weighted: the counter
  connectionCount,  \* per service and instance, 0 where the map has no entry
  stats,            \* per instance: the service that its serviceStats names,
                    \* and its total less its successful and failed requests
  call,             \* per caller: the locals of its Select, and what it holds
  lap,              \* history: what each counter has dealt out in this lap
  drift             \* history, per caller: the steps of others that have
                    \* changed the counts of its service during its scan

vars == <<tag, roundRobinIdx, connectionCount, stats, call, lap, drift>>

----------------------------------------------------------------------------
(* Pure helpers of balancer.go and router.go. *)

Strategy == {"RoundRobin", "LeastConnections", "Random", "WeightedRoundRobin", "IPHash"}

\* Lower-case names only: the code lower-cases what it is given.
ParseStrategy(name) ==
  CASE name \in {"leastconnections", "least_connections"}      -> "LeastConnections"
    [] name = "random"                                         -> "Random"
    [] name \in {"weightedroundrobin", "weighted_round_robin"} -> "WeightedRoundRobin"
    [] name \in {"iphash", "ip_hash"}                          -> "IPHash"
    [] OTHER                                                   -> "RoundRobin"

Rank(s, i) == CHOOSE n \in DOMAIN Listing[s] : Listing[s][n] = i

Ahead(s, C, i) == {j \in C : Rank(s, j) < Rank(s, i)}

\* filterHealthy, and filterNonUnknown when that leaves nothing.
Filter(s, status) ==
  LET healthy == {i \in Members(s) : status[i] = "Healthy"}
  IN  IF healthy # {} THEN healthy
      ELSE {i \in Members(s) : status[i] # "Unknown"}

\* The first candidate that names a strategy decides: a set of one strategy.
resolveStrategy(s, C) ==
  LET named == {i \in C : tag[i] # ""}
  IN  IF named = {} THEN {"RoundRobin"}
      ELSE {ParseStrategy(tag[i]) : i \in {j \in named : Ahead(s, named, j) = {}}}

MinInt == -MaxInt - 1

\* atomic.Int64 Add(1).
Increment(n) == IF n = MaxInt THEN MinInt ELSE n + 1

\* Mutants of abs64: no case for MinInt64, which has no negative; and the
\* complement for negative numbers, which needs no such case.
absOverflows(n) == IF n = MinInt THEN MinInt ELSE IF n < 0 THEN -n ELSE n

absComplement(n) == IF n < 0 THEN -n - 1 ELSE n

abs64(n) == IF n = MinInt THEN MaxInt ELSE IF n < 0 THEN -n ELSE n

\* How often an instance stands in the list that is dealt out.
WeightOf(i) == IF Weight[i] > 0 THEN Weight[i] ELSE 1

Share(kind, i) == IF kind = "weighted" THEN WeightOf(i) ELSE 1

Shares(kind, C) == SumFunctionOnSet([i \in Instances |-> Share(kind, i)], C)

----------------------------------------------------------------------------
Keys == Services \X {"plain", "weighted"}

NoCall == [at |-> "idle", serviceName |-> Nobody, strategy |-> "RoundRobin",
           candidates |-> {}, todo |-> {}, best |-> Nobody, bestCount |-> -1]

NoStats == [serviceName |-> Nobody, open |-> 0]

NoLap == [candidates |-> {}, served |-> [i \in Instances |-> 0]]

Init ==
  /\ tag \in Taggings
  /\ roundRobinIdx = [k \in Keys |-> 0]
  /\ connectionCount = [s \in Services |-> [i \in Instances |-> 0]]
  /\ stats = [i \in Instances |-> NoStats]
  /\ call = [p \in Callers |-> NoCall]
  /\ lap = [k \in Keys |-> NoLap]
  /\ drift = [p \in Callers |-> 0]

----------------------------------------------------------------------------
(* Select.  A call that gets an error or no candidate returns at once and   *)
(* changes nothing.                                                         *)

Begin(p, s, C, chosen) ==
  /\ call[p].at = "idle"
  /\ C # {}
  /\ chosen \in resolveStrategy(s, C)
  /\ call' = [call EXCEPT ![p] =
                [at |-> IF chosen = "LeastConnections" THEN "scanning" ELSE "choosing",
                 serviceName |-> s, strategy |-> chosen, candidates |-> C,
                 todo |-> C, best |-> Nobody, bestCount |-> -1]]
  /\ drift' = [drift EXCEPT ![p] = 0]
  /\ UNCHANGED <<tag, roundRobinIdx, connectionCount, stats, lap>>

Picked(p, i) ==
  [at |-> "recording", serviceName |-> call[p].serviceName,
   strategy |-> call[p].strategy, candidates |-> {}, todo |-> {},
   best |-> i, bestCount |-> -1]

\* Go's remainder has the sign of its dividend.
Remainder(n, len) == IF n < 0 THEN -((-n) % len) ELSE n % len

\* Instance i stands at index abs64(n) % len of the list that is dealt out.
Dealt(s, kind, C, n, i) ==
  LET index  == Remainder(abs64(n), Shares(kind, C))
      before == Shares(kind, Ahead(s, C, i))
  IN  before <= index /\ index < before + Share(kind, i)

\* A lap ends when everybody has had their share; a new one starts when the
\* candidates change, and where the sequence abs64(n) turns or repeats.
NextLap(k, C, n, i) ==
  LET old  == lap[k]
      over == \/ old.candidates # C
              \/ n \in {MinInt, MinInt + 1, 1}
              \/ \A j \in C : old.served[j] >= Share(k[2], j)
  IN  [candidates |-> C,
       served |-> [j \in Instances |-> (IF over THEN 0 ELSE old.served[j])
                                       + (IF j = i THEN 1 ELSE 0)]]

Deal(p, i, kind) ==
  LET s == call[p].serviceName
      C == call[p].candidates
      k == <<s, kind>>
      n == Increment(roundRobinIdx[k])
  IN  /\ Dealt(s, kind, C, n, i)
      /\ roundRobinIdx' = [roundRobinIdx EXCEPT ![k] = n]
      /\ lap' = [lap EXCEPT ![k] = NextLap(k, C, n, i)]

Choosing(p, chosen) == call[p].at = "choosing" /\ call[p].strategy = chosen

selectRoundRobin(p, i) ==
  /\ Choosing(p, "RoundRobin")
  /\ Deal(p, i, "plain")
  /\ call' = [call EXCEPT ![p] = Picked(p, i)]
  /\ UNCHANGED <<tag, connectionCount, stats, drift>>

selectWeightedRoundRobin(p, i) ==
  /\ Choosing(p, "WeightedRoundRobin")
  /\ Deal(p, i, "weighted")
  /\ call' = [call EXCEPT ![p] = Picked(p, i)]
  /\ UNCHANGED <<tag, connectionCount, stats, drift>>

\* Instance i stands at index h % len of the candidates.
Hashed(s, C, key, i) == Cardinality(Ahead(s, C, i)) = Hash[key] % Cardinality(C)

selectIPHash(p, i) ==
  /\ Choosing(p, "IPHash")
  /\ \E key \in Sessions : Hashed(call[p].serviceName, call[p].candidates, key, i)
  /\ call' = [call EXCEPT ![p] = Picked(p, i)]
  /\ UNCHANGED <<tag, roundRobinIdx, connectionCount, stats, lap, drift>>

\* Also selectIPHash without a key: it hashes a random one.
selectRandom(p, i) ==
  /\ Choosing(p, "Random") \/ Choosing(p, "IPHash")
  /\ call' = [call EXCEPT ![p] = Picked(p, i)]
  /\ UNCHANGED <<tag, roundRobinIdx, connectionCount, stats, lap, drift>>

\* Mutant of Scan: the comparison is the wrong way round.
ScanMost(p, i) ==
  LET c == call[p]
      v == connectionCount[c.serviceName][i]
      better == c.bestCount < 0 \/ v > c.bestCount
  IN  /\ c.at = "scanning"
      /\ i \in c.todo
      /\ Ahead(c.serviceName, c.todo, i) = {}
      /\ call' = [call EXCEPT ![p].todo = @ \ {i},
                              ![p].best = IF better THEN i ELSE @,
                              ![p].bestCount = IF better THEN v ELSE @]
      /\ UNCHANGED <<tag, roundRobinIdx, connectionCount, stats, lap, drift>>

\* One round of the loop of selectLeastConnections.
Scan(p, i) ==
  LET c == call[p]
      v == connectionCount[c.serviceName][i]
      better == c.bestCount < 0 \/ v < c.bestCount
  IN  /\ c.at = "scanning"
      /\ i \in c.todo
      /\ Ahead(c.serviceName, c.todo, i) = {}
      /\ call' = [call EXCEPT ![p] =
                    [at |-> "scanning", serviceName |-> c.serviceName,
                     strategy |-> c.strategy, candidates |-> c.candidates,
                     todo |-> c.todo \ {i},
                     best |-> IF better THEN i ELSE c.best,
                     bestCount |-> IF better THEN v ELSE c.bestCount]]
      /\ UNCHANGED <<tag, roundRobinIdx, connectionCount, stats, lap, drift>>

Drifted(p) ==
  [q \in Callers |->
     IF q # p /\ call[q].at = "scanning" /\ drift[q] < MaxDrift
          /\ connectionCount'[call[q].serviceName] # connectionCount[call[q].serviceName]
     THEN drift[q] + 1 ELSE drift[q]]

\* The end of selectLeastConnections: the counter has moved on since Scan.
Add(p) ==
  LET s == call[p].serviceName
      i == call[p].best
  IN  /\ call[p].at = "scanning"
      /\ call[p].todo = {}
      /\ connectionCount' = [connectionCount EXCEPT ![s][i] = @ + 1]
      /\ call' = [call EXCEPT ![p] = Picked(p, i)]
      /\ drift' = Drifted(p)
      /\ UNCHANGED <<tag, roundRobinIdx, stats, lap>>

\* Mutant of recordRequest: another service's statistics are started afresh.
recordAfresh(p) ==
  LET i == call[p].best
      s == call[p].serviceName
  IN  /\ call[p].at = "recording"
      /\ stats' = [stats EXCEPT ![i] =
                     [serviceName |-> s,
                      open |-> IF @.serviceName = s THEN @.open + 1 ELSE 1]]
      /\ call' = [call EXCEPT ![p].at = "holding"]
      /\ UNCHANGED <<tag, roundRobinIdx, connectionCount, lap, drift>>

recordRequest(p) ==
  LET i == call[p].best
      s == stats[i]
  IN  /\ call[p].at = "recording"
      /\ stats' = [stats EXCEPT ![i] =
                     [serviceName |-> IF s.serviceName = Nobody THEN call[p].serviceName
                                      ELSE s.serviceName,
                      open |-> s.open + 1]]
      /\ call' = [call EXCEPT ![p].at = "holding"]
      /\ UNCHANGED <<tag, roundRobinIdx, connectionCount, lap, drift>>

----------------------------------------------------------------------------
(* ReportResult: the ID's counters of all the services go down. *)

\* Mutants of ReportResult: no check that the counter is positive; and the
\* loop over the services stops at the first one that has the ID.
ReportBelowZero(p) ==
  LET i == call[p].best
  IN  /\ call[p].at = "holding"
      /\ connectionCount' = [s \in Services |-> [connectionCount[s] EXCEPT ![i] = @ - 1]]
      /\ stats' = [stats EXCEPT ![i].open = @ - 1]
      /\ call' = [call EXCEPT ![p] = NoCall]
      /\ drift' = Drifted(p)
      /\ UNCHANGED <<tag, roundRobinIdx, lap>>

ReportOnce(p) ==
  LET i == call[p].best
  IN  /\ call[p].at = "holding"
      /\ \E s \in {t \in Services : i \in Members(t)} :
           connectionCount' = [connectionCount EXCEPT ![s][i] = IF @ > 0 THEN @ - 1 ELSE 0]
      /\ stats' = [stats EXCEPT ![i].open = @ - 1]
      /\ call' = [call EXCEPT ![p] = NoCall]
      /\ drift' = Drifted(p)
      /\ UNCHANGED <<tag, roundRobinIdx, lap>>

ReportResult(p) ==
  LET i == call[p].best
  IN  /\ call[p].at = "holding"
      /\ connectionCount' = [s \in Services |-> [j \in Instances |->
           IF j = i /\ connectionCount[s][j] > 0
           THEN connectionCount[s][j] - 1 ELSE connectionCount[s][j]]]
      /\ stats' = [stats EXCEPT ![i].open = @ - 1]
      /\ call' = [call EXCEPT ![p] = NoCall]
      /\ drift' = Drifted(p)
      /\ UNCHANGED <<tag, roundRobinIdx, lap>>

Next ==
  \E p \in Callers :
    \/ \E s \in Services, status \in Statuses, chosen \in Strategy :
         Begin(p, s, Filter(s, status), chosen)
    \/ \E i \in call[p].candidates :
         \/ selectRoundRobin(p, i)
         \/ selectWeightedRoundRobin(p, i)
         \/ selectIPHash(p, i)
         \/ selectRandom(p, i)
         \/ Scan(p, i)
    \/ Add(p)
    \/ recordRequest(p)
    \/ ReportResult(p)

Spec == Init /\ [][Next]_vars

----------------------------------------------------------------------------
Call == [at : {"idle", "choosing", "scanning", "recording", "holding"},
         serviceName : Services \cup {Nobody}, strategy : Strategy,
         candidates : SUBSET Instances, todo : SUBSET Instances,
         best : Instances \cup {Nobody}, bestCount : Int]

\* Every variable has its type; connectionCount is never negative, although
\* ReportResult decrements counters that its caller never incremented.
TypeOK ==
  /\ tag \in Taggings
  /\ roundRobinIdx \in [Keys -> MinInt..MaxInt]
  /\ connectionCount \in [Services -> [Instances -> Nat]]
  /\ stats \in [Instances -> [serviceName : Services \cup {Nobody}, open : Int]]
  /\ call \in [Callers -> Call]
  /\ lap \in [Keys -> [candidates : SUBSET Instances, served : [Instances -> Nat]]]
  /\ drift \in [Callers -> 0..MaxDrift]

\* The callers whose Select has incremented the counter of i in service s and
\* who have not reported yet.
Counted(s, i) ==
  {p \in Callers : /\ call[p].at \in {"recording", "holding"}
                   /\ call[p].strategy = "LeastConnections"
                   /\ call[p].serviceName = s
                   /\ call[p].best = i}

\* Service s always balances by connections, and no other service lists i.
OwnCounter(s, i) ==
  /\ \A j \in Members(s) : ParseStrategy(tag[j]) = "LeastConnections"
  /\ \A t \in Services \ {s} : i \notin Members(t)

\* A connection counter never exceeds the connections its service really has
\* there, so none is left over when all have been reported.  It is exact
\* unless the ID is listed by two services or the strategy of the service
\* depends on which instances are healthy: ReportResult then takes away
\* connections that are still open.
CountsConnections ==
  \A s \in Services, i \in Instances :
    /\ connectionCount[s][i] <= Cardinality(Counted(s, i))
    /\ OwnCounter(s, i) => connectionCount[s][i] = Cardinality(Counted(s, i))

\* selectLeastConnections reads the counters one by one and increments one of
\* them later.  When it does, the instance it has chosen is above the least
\* loaded candidate by no more than the number of changes other callers made
\* in the meantime: a Select that nobody interferes with picks a minimum.
LeastWithinDrift ==
  \A p \in Callers :
    LET c == call[p]
        count == connectionCount[c.serviceName]
    IN  (c.at = "scanning" /\ c.todo = {} /\ drift[p] < MaxDrift)
          => \A i \in c.candidates : count[c.best] <= count[i] + drift[p]

\* The index that a strategy computes is in the list it indexes and names one
\* candidate: for selectRoundRobin wherever the 64-bit counter stands, also when
\* it has wrapped, and for selectIPHash with every key, so that calls with one
\* key and the same candidates get the same instance.
IndexInRange ==
  \A p \in Callers :
    LET s == call[p].serviceName
        C == call[p].candidates
    IN  /\ \A kind \in {"plain", "weighted"} :
             Choosing(p, IF kind = "plain" THEN "RoundRobin" ELSE "WeightedRoundRobin")
               => \E i \in C : \A j \in C :
                    Dealt(s, kind, C, Increment(roundRobinIdx[<<s, kind>>]), j) <=> j = i
        /\ Choosing(p, "IPHash")
             => \A key \in Sessions : \E i \in C : \A j \in C :
                  Hashed(s, C, key, j) <=> j = i

\* Round robin is fair whatever the interleaving of the callers: as long as
\* the candidates stay the same nobody is picked again (more often than its
\* weight says) before everybody has been picked (as often as its weight says).
LapsAreFair ==
  \A k \in Keys, i \in Instances : lap[k].served[i] <= Share(k[2], i)

\* Stats(serviceName), as requests minus results.
Stats(s) == SumFunctionOnSet([i \in Instances |-> stats[i].open],
                             {i \in Instances : stats[i].serviceName = s})

\* The statistics of a service are short of exactly the results that its
\* instances' holders have still to report.  (An ID that two services list
\* is counted with the service that selected it first.)
StatsAddUp ==
  \A s \in Services :
    Stats(s) = Cardinality({p \in Callers : call[p].at = "holding"
                                            /\ stats[call[p].best].serviceName = s})
=============================================================================
