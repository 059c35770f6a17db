------------------------- MODULE LoadBalancerProofs -------------------------
(* What LoadBalancer guarantees for any number of callers, services and     *)
(* instances, any listing, any tags and any width of the counters.          *)
EXTENDS LoadBalancer, FiniteSetTheorems, TLAPS

(***************************************************************************)
(* abs64 of any 64-bit integer, the least one included, is a 64-bit        *)
(* integer that is not negative, and counting never leaves the type.       *)
(***************************************************************************)
THEOREM AbsNeverNegative ==
  ASSUME NEW n \in MinInt..MaxInt
  PROVE  /\ abs64(n) \in 0..MaxInt
         /\ Increment(n) \in MinInt..MaxInt
<1>1. MaxInt \in Nat
  BY BalancerAssumption
<1> QED
  BY <1>1 DEF abs64, Increment, MinInt

\* What most steps need of the assumption, without the functions in it.
LEMMA Basics ==
  /\ IsFiniteSet(Callers)
  /\ Nobody \notin Instances
  /\ \A s \in Services : Members(s) \subseteq Instances
  /\ Statuses \subseteq [Instances -> Status]
  /\ MaxInt \in Nat \ {0}
  /\ MaxDrift \in Nat
<1>1. \A s \in Services : Members(s) \subseteq Instances
  BY BalancerAssumption DEF Members
<1> QED
  BY <1>1, BalancerAssumption

\* Filter offers members of the service only.
LEMMA FilterMembers ==
  ASSUME NEW s \in Services, NEW status \in Statuses
  PROVE  Filter(s, status) \subseteq Members(s) /\ Members(s) \subseteq Instances
BY Basics DEF Filter

LEMMA PickedType ==
  ASSUME TypeOK, NEW p \in Callers, NEW i \in Instances
  PROVE  Picked(p, i) \in Call
<1>1. call[p] \in Call
  BY DEF TypeOK
<1> QED
  BY <1>1 DEF Picked, Call

LEMMA NextLapType ==
  ASSUME TypeOK, NEW k \in Keys, NEW C \in SUBSET Instances,
         NEW n \in MinInt..MaxInt, NEW i \in Instances
  PROVE  NextLap(k, C, n, i) \in [candidates : SUBSET Instances, served : [Instances -> Nat]]
<1>1. lap[k].served \in [Instances -> Nat]
  BY DEF TypeOK
<1> DEFINE over == \/ lap[k].candidates # C
                   \/ n \in {MinInt, MinInt + 1, 1}
                   \/ \A j \in C : lap[k].served[j] >= Share(k[2], j)
           served == [j \in Instances |-> (IF over THEN 0 ELSE lap[k].served[j])
                                         + (IF j = i THEN 1 ELSE 0)]
<1>2. served \in [Instances -> Nat]
  <2> HIDE DEF over
  <2> QED
    BY <1>1
<1>3. NextLap(k, C, n, i) = [candidates |-> C, served |-> served]
  BY DEF NextLap
<1> HIDE DEF served
<1> QED
  BY <1>2, <1>3

----------------------------------------------------------------------------
(* What each step does, caller by caller and counter by counter. *)

OthersKeep(p) == \A q \in Callers \ {p} : call'[q] = call[q]

LEMMA BeginEffect ==
  ASSUME TypeOK, NEW p \in Callers, NEW s, NEW C, NEW chosen, Begin(p, s, C, chosen)
  PROVE  /\ call[p].at = "idle" /\ C # {} /\ chosen \in resolveStrategy(s, C)
         /\ call'[p].at \in {"choosing", "scanning"}
         /\ call'[p].at = "scanning" => chosen = "LeastConnections"
         /\ call'[p].serviceName = s /\ call'[p].strategy = chosen
         /\ call'[p].candidates = C /\ call'[p].todo = C /\ call'[p].bestCount = -1
         /\ OthersKeep(p) /\ \A q \in Callers \ {p} : drift'[q] = drift[q]
         /\ tag' = tag /\ connectionCount' = connectionCount /\ stats' = stats
<1>1. call \in [Callers -> Call] /\ drift \in [Callers -> 0..MaxDrift]
  BY DEF TypeOK
<1> QED
  BY <1>1 DEF Begin, OthersKeep

\* The strategies that touch no connection counter.
Choose(p, i) ==
  \/ selectRoundRobin(p, i) \/ selectWeightedRoundRobin(p, i)
  \/ selectIPHash(p, i) \/ selectRandom(p, i)

LEMMA ChooseEffect ==
  ASSUME TypeOK, NEW p \in Callers, NEW i, Choose(p, i)
  PROVE  /\ call[p].at = "choosing" /\ call[p].strategy # "LeastConnections"
         /\ call' = [call EXCEPT ![p] = Picked(p, i)]
         /\ call'[p].at = "recording" /\ call'[p].best = i
         /\ call'[p].serviceName = call[p].serviceName
         /\ call'[p].strategy = call[p].strategy
         /\ OthersKeep(p)
         /\ tag' = tag /\ connectionCount' = connectionCount /\ stats' = stats
         /\ drift' = drift
<1>1. call \in [Callers -> Call]
  BY DEF TypeOK
<1>2. /\ call[p].at = "choosing" /\ call[p].strategy # "LeastConnections"
      /\ call' = [call EXCEPT ![p] = Picked(p, i)]
      /\ UNCHANGED <<tag, connectionCount, stats, drift>>
  BY DEF Choose, selectRoundRobin, selectWeightedRoundRobin, selectIPHash, selectRandom, Choosing
<1> QED
  BY <1>1, <1>2 DEF Picked, OthersKeep

LEMMA ScanEffect ==
  ASSUME TypeOK, NEW p \in Callers, NEW i, Scan(p, i),
         NEW v, v = connectionCount[call[p].serviceName][i]
  PROVE  /\ call[p].at = "scanning" /\ i \in call[p].todo
         /\ call'[p].at = "scanning" /\ call'[p].serviceName = call[p].serviceName
         /\ call'[p].strategy = call[p].strategy
         /\ call'[p].candidates = call[p].candidates
         /\ call'[p].todo = call[p].todo \ {i}
         /\ call[p].bestCount < 0 \/ v < call[p].bestCount
              => call'[p].best = i /\ call'[p].bestCount = v
         /\ ~(call[p].bestCount < 0 \/ v < call[p].bestCount)
              => call'[p].best = call[p].best /\ call'[p].bestCount = call[p].bestCount
         /\ OthersKeep(p)
         /\ tag' = tag /\ connectionCount' = connectionCount /\ stats' = stats
         /\ drift' = drift
<1>1. call \in [Callers -> Call]
  BY DEF TypeOK
<1> QED
  BY <1>1 DEF Scan, OthersKeep

LEMMA AddEffect ==
  ASSUME TypeOK, NEW p \in Callers, Add(p)
  PROVE  /\ call[p].at = "scanning" /\ call[p].todo = {}
         /\ call' = [call EXCEPT ![p] = Picked(p, call[p].best)]
         /\ call'[p].at = "recording" /\ call'[p].best = call[p].best
         /\ call'[p].serviceName = call[p].serviceName
         /\ call'[p].strategy = call[p].strategy
         /\ OthersKeep(p)
         /\ \A s \in Services, i \in Instances :
              /\ s = call[p].serviceName /\ i = call[p].best
                   => connectionCount'[s][i] = connectionCount[s][i] + 1
              /\ ~(s = call[p].serviceName /\ i = call[p].best)
                   => connectionCount'[s][i] = connectionCount[s][i]
         /\ tag' = tag /\ stats' = stats /\ drift' = Drifted(p)
<1>1. call \in [Callers -> Call] /\ connectionCount \in [Services -> [Instances -> Nat]]
  BY DEF TypeOK
<1>2. /\ call[p].at = "scanning" /\ call[p].todo = {}
      /\ call' = [call EXCEPT ![p] = Picked(p, call[p].best)]
      /\ tag' = tag /\ stats' = stats /\ drift' = Drifted(p)
      /\ connectionCount' = [connectionCount EXCEPT ![call[p].serviceName][call[p].best] = @ + 1]
  BY DEF Add
<1>3. OthersKeep(p) /\ call'[p] = Picked(p, call[p].best)
  BY <1>1, <1>2 DEF OthersKeep
<1>4. ASSUME NEW s \in Services, NEW i \in Instances
      PROVE  /\ s = call[p].serviceName /\ i = call[p].best
                  => connectionCount'[s][i] = connectionCount[s][i] + 1
             /\ ~(s = call[p].serviceName /\ i = call[p].best)
                  => connectionCount'[s][i] = connectionCount[s][i]
  BY <1>1, <1>2
<1>5. /\ call'[p].at = "recording" /\ call'[p].best = call[p].best
      /\ call'[p].serviceName = call[p].serviceName
      /\ call'[p].strategy = call[p].strategy
  BY <1>3 DEF Picked
<1> QED
  BY <1>2, <1>3, <1>4, <1>5, Zenon

LEMMA RecordEffect ==
  ASSUME TypeOK, NEW p \in Callers, recordRequest(p)
  PROVE  /\ call[p].at = "recording" /\ call'[p].at = "holding"
         /\ call'[p].serviceName = call[p].serviceName
         /\ call'[p].strategy = call[p].strategy /\ call'[p].best = call[p].best
         /\ call' \in [Callers -> Call]
         /\ OthersKeep(p)
         /\ tag' = tag /\ connectionCount' = connectionCount /\ drift' = drift
<1>1. call \in [Callers -> Call]
  BY DEF TypeOK
<1>2. /\ call[p].at = "recording"
      /\ call' = [call EXCEPT ![p].at = "holding"]
      /\ tag' = tag /\ connectionCount' = connectionCount /\ drift' = drift
  BY DEF recordRequest
<1>3. PICK c : c = [call[p] EXCEPT !.at = "holding"]
  BY Zenon
<1>4. /\ c \in Call /\ c.at = "holding" /\ c.serviceName = call[p].serviceName
      /\ c.strategy = call[p].strategy /\ c.best = call[p].best
  BY <1>1, <1>3 DEF Call
<1>5. call' = [call EXCEPT ![p] = c]
  BY <1>1, <1>2, <1>3
<1>6. call'[p] = c /\ OthersKeep(p) /\ call' \in [Callers -> Call]
  BY <1>1, <1>4, <1>5 DEF OthersKeep
<1> QED
  BY <1>2, <1>4, <1>6

LEMMA ReportEffect ==
  ASSUME TypeOK, NEW p \in Callers, ReportResult(p)
  PROVE  /\ call[p].at = "holding" /\ call' = [call EXCEPT ![p] = NoCall]
         /\ call'[p].at = "idle"
         /\ OthersKeep(p)
         /\ \A s \in Services, i \in Instances :
              /\ i = call[p].best /\ connectionCount[s][i] > 0
                   => connectionCount'[s][i] = connectionCount[s][i] - 1
              /\ ~(i = call[p].best /\ connectionCount[s][i] > 0)
                   => connectionCount'[s][i] = connectionCount[s][i]
         /\ tag' = tag /\ drift' = Drifted(p)
<1>1. call \in [Callers -> Call]
  BY DEF TypeOK
<1>2. /\ call[p].at = "holding" /\ call' = [call EXCEPT ![p] = NoCall]
      /\ tag' = tag /\ drift' = Drifted(p)
      /\ \A s \in Services, i \in Instances :
              /\ i = call[p].best /\ connectionCount[s][i] > 0
                   => connectionCount'[s][i] = connectionCount[s][i] - 1
              /\ ~(i = call[p].best /\ connectionCount[s][i] > 0)
                   => connectionCount'[s][i] = connectionCount[s][i]
  BY DEF ReportResult
<1>3. OthersKeep(p) /\ call'[p] = NoCall
  BY <1>1, <1>2 DEF OthersKeep
<1> QED
  BY <1>2, <1>3 DEF NoCall

----------------------------------------------------------------------------
\* Where a caller is in its Select says what its locals may be.
Located(p) ==
  LET c == call[p]
  IN  /\ c.at # "idle" => c.serviceName \in Services
      /\ c.at \in {"choosing", "scanning"} =>
           c.candidates # {} /\ c.candidates \subseteq Members(c.serviceName)
      /\ c.at = "scanning" =>
           /\ c.strategy = "LeastConnections"
           /\ c.todo \subseteq c.candidates
           /\ c.todo = c.candidates => c.bestCount = -1
           /\ c.todo # c.candidates => c.best \in c.candidates \ c.todo /\ c.bestCount >= 0
      /\ c.at \in {"recording", "holding"} => c.best \in Members(c.serviceName)

LocatedInv == TypeOK /\ \A p \in Callers : Located(p)

\* What a caller has picked is an instance of the service that it asked for.
LEMMA PickedListed ==
  ASSUME LocatedInv, NEW p \in Callers,
         \/ call[p].at \in {"recording", "holding"}
         \/ call[p].at = "scanning" /\ call[p].todo = {}
  PROVE  /\ call[p].serviceName \in Services
         /\ call[p].best \in Members(call[p].serviceName) /\ call[p].best \in Instances
<1>1. Located(p)
  BY DEF LocatedInv
<1>2. call[p].serviceName \in Services /\ call[p].best \in Members(call[p].serviceName)
  BY <1>1 DEF Located
<1> QED
  BY <1>2, Basics

\* Located survives a step that leaves the other callers alone.
LEMMA LocatedFrame ==
  ASSUME LocatedInv, NEW p \in Callers, OthersKeep(p), TypeOK', Located(p)'
  PROVE  LocatedInv'
<1>1. ASSUME NEW q \in Callers
      PROVE  Located(q)'
  <2>1. CASE q # p
    BY <2>1 DEF LocatedInv, Located, OthersKeep
  <2> QED
    BY <2>1
<1> QED
  BY <1>1 DEF LocatedInv

\* Drifted is a function of the type of drift.
LEMMA DriftedType ==
  ASSUME drift \in [Callers -> 0..MaxDrift], NEW p
  PROVE  Drifted(p) \in [Callers -> 0..MaxDrift]
BY Basics DEF Drifted

\* Deal keeps the types of the counter and of its lap.
LEMMA DealType ==
  ASSUME TypeOK, NEW p \in Callers, call[p].serviceName \in Services, NEW i \in Instances,
         NEW kind \in {"plain", "weighted"}, Deal(p, i, kind)
  PROVE  /\ roundRobinIdx' \in [Keys -> MinInt..MaxInt]
         /\ lap' \in [Keys -> [candidates : SUBSET Instances, served : [Instances -> Nat]]]
<1>1. PICK k : k = <<call[p].serviceName, kind>>
  BY Zenon
<1>2. PICK n : n = Increment(roundRobinIdx[k])
  OBVIOUS
<1>3. PICK new : new = NextLap(k, call[p].candidates, n, i)
  OBVIOUS
<1>4. k \in Keys
  BY <1>1 DEF Keys
<1>5. roundRobinIdx \in [Keys -> MinInt..MaxInt] /\ call[p].candidates \in SUBSET Instances
  BY DEF TypeOK, Call
<1>6. n \in MinInt..MaxInt
  BY <1>2, <1>4, <1>5, AbsNeverNegative
<1>7. new \in [candidates : SUBSET Instances, served : [Instances -> Nat]]
  BY <1>3, <1>4, <1>5, <1>6, NextLapType, Zenon
<1>8. /\ roundRobinIdx' = [roundRobinIdx EXCEPT ![k] = n]
      /\ lap' = [lap EXCEPT ![k] = new]
  BY <1>1, <1>2, <1>3 DEF Deal
<1>9. lap \in [Keys -> [candidates : SUBSET Instances, served : [Instances -> Nat]]]
  BY DEF TypeOK
<1> QED
  BY <1>4, <1>5, <1>6, <1>7, <1>8, <1>9

\* TypeOK and Located survive a step.
LEMMA LocatedStep ==
  ASSUME LocatedInv, [Next]_vars
  PROVE  LocatedInv'
<1>0. TypeOK /\ \A p \in Callers : Located(p)
  BY DEF LocatedInv
<1>1. ASSUME NEW p \in Callers, NEW s \in Services, NEW C, C \subseteq Members(s),
             NEW chosen \in Strategy, Begin(p, s, C, chosen)
      PROVE  LocatedInv'
  <2>1. C \subseteq Instances
    BY <1>1, Basics
  <2>2. Located(p)'
    BY <1>0, <1>1, BeginEffect DEF Located
  <2>3. call' \in [Callers -> Call]
    BY <1>0, <1>1, <2>1 DEF Begin, TypeOK, Call
  <2>4. drift' \in [Callers -> 0..MaxDrift]
    BY <1>0, <1>1, Basics DEF Begin, TypeOK
  <2>5. TypeOK'
    BY <1>0, <1>1, <2>3, <2>4 DEF Begin, TypeOK
  <2> QED
    BY <1>0, <1>1, <2>2, <2>5, BeginEffect, LocatedFrame
<1>2. ASSUME NEW p \in Callers, NEW i \in call[p].candidates, Choose(p, i)
      PROVE  LocatedInv'
  <2>1. call[p].at = "choosing" /\ call' = [call EXCEPT ![p] = Picked(p, i)]
    BY <1>0, <1>2, ChooseEffect
  <2>2. call[p].serviceName \in Services /\ i \in Members(call[p].serviceName)
    BY <1>0, <2>1 DEF Located
  <2>3. i \in Instances
    BY <2>2, Basics
  <2>4. /\ roundRobinIdx' \in [Keys -> MinInt..MaxInt]
        /\ lap' \in [Keys -> [candidates : SUBSET Instances, served : [Instances -> Nat]]]
    <3>1. CASE selectRoundRobin(p, i) \/ selectWeightedRoundRobin(p, i)
      <4>1. Deal(p, i, "plain") \/ Deal(p, i, "weighted")
        BY <3>1 DEF selectRoundRobin, selectWeightedRoundRobin
      <4> QED
        BY <1>0, <2>2, <2>3, <4>1, DealType
    <3>2. CASE selectIPHash(p, i) \/ selectRandom(p, i)
      BY <1>0, <3>2 DEF selectIPHash, selectRandom, TypeOK
    <3> QED
      BY <1>2, <3>1, <3>2 DEF Choose
  <2>5. call' \in [Callers -> Call]
    <3>1. Picked(p, i) \in Call
      BY <1>0, <2>3, PickedType
    <3> QED
      BY <1>0, <2>1, <3>1 DEF TypeOK
  <2>6. TypeOK'
    BY <1>0, <1>2, <2>4, <2>5, ChooseEffect DEF TypeOK
  <2>7. Located(p)'
    BY <1>0, <1>2, <2>2, ChooseEffect DEF Located
  <2> QED
    BY <1>0, <1>2, <2>6, <2>7, ChooseEffect, LocatedFrame
<1>3. ASSUME NEW p \in Callers, NEW i \in call[p].candidates, Scan(p, i)
      PROVE  LocatedInv'
  <2>0. PICK v : v = connectionCount[call[p].serviceName][i]
    OBVIOUS
  <2>1. /\ call[p].at = "scanning" /\ i \in call[p].todo
        /\ call[p].serviceName \in Services /\ i \in Members(call[p].serviceName)
    BY <1>0, <1>3 DEF Scan, Located
  <2>2. i \in Instances
    BY <2>1, Basics
  <2>3. v \in Nat /\ call[p].bestCount \in Int
    BY <1>0, <2>0, <2>1, <2>2 DEF TypeOK, Call
  <2>4. call' \in [Callers -> Call]
    BY <1>0, <1>3, <2>0, <2>2, <2>3 DEF Scan, TypeOK, Call
  <2>5. TypeOK'
    BY <1>0, <1>3, <2>4 DEF Scan, TypeOK
  <2>6. Located(p)'
    <3>1. call[p].bestCount < 0 \/ call[p].best \in call[p].candidates \ call[p].todo
      <4>1. -1 < 0
        OBVIOUS
      <4> QED
        BY <1>0, <2>1, <4>1 DEF Located
    <3>2. /\ call'[p].bestCount >= 0
          /\ call'[p].best \in call[p].candidates \ (call[p].todo \ {i})
      BY <1>0, <1>3, <2>0, <2>1, <2>3, <3>1, ScanEffect
    <3>3. /\ call'[p].at = "scanning" /\ call'[p].serviceName = call[p].serviceName
          /\ call'[p].strategy = call[p].strategy
          /\ call'[p].candidates = call[p].candidates
          /\ call'[p].todo = call[p].todo \ {i}
      BY <1>0, <1>3, ScanEffect
    <3> QED
      BY <1>0, <2>1, <3>2, <3>3 DEF Located
  <2> QED
    BY <1>0, <1>3, <2>5, <2>6, ScanEffect, LocatedFrame
<1>4. ASSUME NEW p \in Callers, Add(p)
      PROVE  LocatedInv'
  <2>1. /\ call[p].serviceName \in Services
        /\ call[p].best \in Members(call[p].serviceName) /\ call[p].best \in Instances
    BY <1>0, <1>4, AddEffect, PickedListed
  <2>2. call' \in [Callers -> Call]
    <3>1. Picked(p, call[p].best) \in Call
      BY <1>0, <2>1, PickedType
    <3> QED
      BY <1>0, <1>4, <3>1 DEF Add, TypeOK
  <2>3. connectionCount' \in [Services -> [Instances -> Nat]]
    BY <1>0, <1>4, <2>1 DEF Add, TypeOK
  <2>4. drift' \in [Callers -> 0..MaxDrift]
    BY <1>0, <1>4, AddEffect, DriftedType DEF TypeOK
  <2>5. TypeOK'
    BY <1>0, <1>4, <2>2, <2>3, <2>4 DEF Add, TypeOK
  <2>6. Located(p)'
    BY <1>0, <1>4, <2>1, AddEffect DEF Located
  <2> QED
    BY <1>0, <1>4, <2>5, <2>6, AddEffect, LocatedFrame
<1>5. ASSUME NEW p \in Callers, recordRequest(p)
      PROVE  LocatedInv'
  <2>1. /\ call[p].serviceName \in Services
        /\ call[p].best \in Members(call[p].serviceName) /\ call[p].best \in Instances
    BY <1>0, <1>5, RecordEffect, PickedListed
  <2>2. stats' \in [Instances -> [serviceName : Services \cup {Nobody}, open : Int]]
    BY <1>0, <1>5, <2>1 DEF recordRequest, TypeOK
  <2>3. TypeOK'
    BY <1>0, <1>5, <2>2, RecordEffect, Zenon DEF recordRequest, TypeOK
  <2>4. Located(p)'
    BY <1>0, <1>5, <2>1, RecordEffect DEF Located
  <2> QED
    BY <1>0, <1>5, <2>3, <2>4, RecordEffect, LocatedFrame
<1>6. ASSUME NEW p \in Callers, ReportResult(p)
      PROVE  LocatedInv'
  <2>1. call[p].best \in Instances
    BY <1>0, <1>6, ReportEffect, PickedListed
  <2>2. connectionCount' \in [Services -> [Instances -> Nat]]
    BY <1>0, <1>6 DEF ReportResult, TypeOK
  <2>3. stats' \in [Instances -> [serviceName : Services \cup {Nobody}, open : Int]]
    <3> DEFINE S == [serviceName : Services \cup {Nobody}, open : Int]
               i == call[p].best
    <3>1. stats[i] \in S
      BY <1>0, <2>1 DEF TypeOK
    <3>2. [stats[i] EXCEPT !.open = @ - 1] \in S
      BY <3>1
    <3>3. stats' = [stats EXCEPT ![i] = [stats[i] EXCEPT !.open = @ - 1]]
      BY <1>0, <1>6, <2>1 DEF ReportResult, TypeOK
    <3> QED
      BY <1>0, <3>2, <3>3, Zenon DEF TypeOK
  <2>4. call' \in [Callers -> Call]
    <3>1. NoCall \in Call
      BY DEF NoCall, Call, Strategy
    <3> QED
      BY <1>0, <1>6, <3>1, ReportEffect DEF TypeOK
  <2>5. drift' \in [Callers -> 0..MaxDrift]
    BY <1>0, <1>6, ReportEffect, DriftedType DEF TypeOK
  <2>6. TypeOK'
    BY <1>0, <1>6, <2>2, <2>3, <2>4, <2>5 DEF ReportResult, TypeOK
  <2>7. Located(p)'
    BY <1>0, <1>6, ReportEffect DEF Located
  <2> QED
    BY <1>0, <1>6, <2>6, <2>7, ReportEffect, LocatedFrame
<1>7. CASE UNCHANGED vars
  BY <1>0, <1>7 DEF vars, LocatedInv, TypeOK, Located
<1> QED
  BY <1>1, <1>2, <1>3, <1>4, <1>5, <1>6, <1>7, FilterMembers DEF Next, Choose

LEMMA LocatedInit ==
  ASSUME Init
  PROVE  LocatedInv
<1> USE Basics
<1>1. call = [p \in Callers |-> NoCall] /\ NoCall \in Call
  BY DEF Init, NoCall, Call, Strategy
<1>2. NoLap \in [candidates : SUBSET Instances, served : [Instances -> Nat]]
  BY DEF NoLap
<1>3. 0 \in MinInt..MaxInt /\ 0 \in 0..MaxDrift
  BY DEF MinInt
<1>4. TypeOK
  BY <1>1, <1>2, <1>3 DEF Init, TypeOK, NoStats
<1>5. \A p \in Callers : Located(p)
  BY <1>1 DEF Located, NoCall
<1> QED
  BY <1>4, <1>5 DEF LocatedInv

LEMMA LocatedAlways == Spec => []LocatedInv
BY LocatedInit, LocatedStep, PTL DEF Spec

(***************************************************************************)
(* Whatever the callers do, no connection counter of the balancer ever     *)
(* goes below zero and no round-robin counter leaves its 64 bits.          *)
(***************************************************************************)
THEOREM BalancerTypeCorrect == Spec => []TypeOK
<1>1. LocatedInv => TypeOK
  BY DEF LocatedInv
<1> QED
  BY <1>1, LocatedAlways, PTL

----------------------------------------------------------------------------
\* What a step of p may do to the counters: nothing, or move those of one
\* instance by one and have it noted by the callers whose scan is under way.
LEMMA CountersStep ==
  ASSUME LocatedInv, NEW p \in Callers, Add(p) \/ ReportResult(p)
  PROVE  /\ OthersKeep(p)
         /\ drift' = Drifted(p)
         /\ call'[p].at # "scanning"
         /\ \A s \in Services, i \in Instances :
              i # call[p].best => connectionCount'[s][i] = connectionCount[s][i]
         /\ \A s \in Services, i \in Instances :
              /\ connectionCount'[s][i] <= connectionCount[s][i] + 1
              /\ connectionCount[s][i] <= connectionCount'[s][i] + 1
<1>0. TypeOK
  BY DEF LocatedInv
<1>1. \A s \in Services, i \in Instances : connectionCount[s][i] \in Nat
  BY <1>0 DEF TypeOK
<1>2. CASE Add(p)
  BY <1>0, <1>1, <1>2, AddEffect
<1>3. CASE ReportResult(p)
  BY <1>0, <1>1, <1>3, ReportEffect
<1> QED
  BY <1>2, <1>3

\* During a scan the best count so far, the counter it came from and the
\* counters already read are within drift of each other.
Scanned(p) ==
  LET c == call[p]
      count == connectionCount[c.serviceName]
  IN  (c.at = "scanning" /\ c.todo # c.candidates /\ drift[p] < MaxDrift) =>
        /\ count[c.best] <= c.bestCount + drift[p]
        /\ \A i \in c.candidates \ c.todo :
             /\ c.bestCount <= count[i] + drift[p]
             /\ count[c.best] <= count[i] + drift[p]

\* One round of the loop keeps what Scanned says of the caller itself.
LEMMA ScannedScan ==
  ASSUME LocatedInv, NEW p \in Callers, Scanned(p), NEW i, Scan(p, i)
  PROVE  Scanned(p)'
<1>0. TypeOK /\ Located(p)
  BY DEF LocatedInv
<1>1. PICK c : c = call[p]
  BY Zenon
<1>2. PICK count : count = connectionCount[c.serviceName]
  BY Zenon
<1>3. PICK d : d = call'[p]
  BY Zenon
<1>4. PICK e : e = drift[p]
  BY Zenon
<1>5. /\ c.at = "scanning" /\ i \in c.todo /\ i \in c.candidates
      /\ c.serviceName \in Services /\ c.candidates \subseteq Members(c.serviceName)
  BY <1>0, <1>1, ScanEffect DEF Located
<1>6. c.candidates \subseteq Instances
  BY <1>5, Basics
<1>7. c.bestCount \in Int /\ e \in Nat /\ \A j \in c.candidates : count[j] \in Nat
  BY <1>0, <1>1, <1>2, <1>4, <1>5, <1>6 DEF TypeOK, Call
<1>8. /\ d.serviceName = c.serviceName /\ d.candidates = c.candidates
      /\ d.todo = c.todo \ {i} /\ connectionCount' = connectionCount /\ drift' = drift
  BY <1>0, <1>1, <1>3, ScanEffect
<1>9. /\ c.bestCount < 0 \/ count[i] < c.bestCount => d.best = i /\ d.bestCount = count[i]
      /\ ~(c.bestCount < 0 \/ count[i] < c.bestCount)
           => d.best = c.best /\ d.bestCount = c.bestCount
  BY <1>0, <1>1, <1>2, <1>3, ScanEffect
<1>10. ASSUME e < MaxDrift
       PROVE  /\ count[d.best] <= d.bestCount + e
              /\ \A j \in c.candidates \ (c.todo \ {i}) :
                   /\ d.bestCount <= count[j] + e
                   /\ count[d.best] <= count[j] + e
  <2>1. CASE c.todo = c.candidates
    <3>1. c.bestCount = -1 /\ -1 < 0
      BY <1>0, <1>1, <1>5, <2>1 DEF Located
    <3>2. d.best = i /\ d.bestCount = count[i] /\ count[i] \in Nat
      BY <1>5, <1>7, <1>9, <3>1
    <3>3. c.candidates \ (c.todo \ {i}) = {i}
      BY <1>5, <2>1
    <3> QED
      BY <1>7, <3>2, <3>3
  <2>2. CASE c.todo # c.candidates
    <3>1. /\ c.best \in c.candidates /\ c.bestCount >= 0
          /\ count[c.best] <= c.bestCount + e
          /\ \A j \in c.candidates \ c.todo :
               c.bestCount <= count[j] + e /\ count[c.best] <= count[j] + e
      BY <1>0, <1>1, <1>2, <1>4, <1>5, <1>10, <2>2 DEF Located, Scanned
    <3>2. count[i] \in Nat /\ count[c.best] \in Nat
      BY <1>5, <1>7, <3>1
    <3>3. CASE count[i] < c.bestCount
      <4>1. d.best = i /\ d.bestCount = count[i]
        BY <1>9, <3>3
      <4>2. ASSUME NEW j \in c.candidates \ (c.todo \ {i})
            PROVE  count[i] <= count[j] + e
        <5>1. CASE j = i
          BY <1>7, <3>2, <5>1
        <5>2. CASE j # i
          <6>1. c.bestCount <= count[j] + e /\ count[j] \in Nat
            BY <1>7, <3>1, <5>2
          <6> QED
            BY <1>7, <3>2, <3>3, <6>1
        <5> QED
          BY <5>1, <5>2
      <4> QED
        BY <1>7, <3>2, <4>1, <4>2
    <3>4. CASE ~(count[i] < c.bestCount)
      <4>1. d.best = c.best /\ d.bestCount = c.bestCount
        BY <1>7, <1>9, <3>1, <3>4
      <4>2. ASSUME NEW j \in c.candidates \ (c.todo \ {i})
            PROVE  c.bestCount <= count[j] + e /\ count[c.best] <= count[j] + e
        <5>1. CASE j = i
          BY <1>7, <3>1, <3>2, <3>4, <5>1
        <5>2. CASE j # i
          BY <3>1, <5>2
        <5> QED
          BY <5>1, <5>2
      <4> QED
        BY <3>1, <4>1, <4>2
    <3> QED
      BY <3>3, <3>4
  <2> QED
    BY <2>1, <2>2
<1> QED
  BY <1>1, <1>2, <1>3, <1>4, <1>8, <1>10 DEF Scanned

\* A counter that somebody else moves is noted in drift.
LEMMA ScannedOther ==
  ASSUME LocatedInv, LocatedInv', NEW p \in Callers, Add(p) \/ ReportResult(p),
         NEW q \in Callers, q # p, Scanned(q)
  PROVE  Scanned(q)'
<1>0. TypeOK /\ TypeOK' /\ Located(q)
  BY DEF LocatedInv
<1>1. PICK c : c = call[q]
  BY Zenon
<1>2. PICK count : count = connectionCount[c.serviceName]
  BY Zenon
<1>3. PICK after : after = connectionCount'[c.serviceName]
  BY Zenon
<1>4. PICK d : d = drift[q]
  BY Zenon
<1>5. call'[q] = c /\ drift' = Drifted(p)
  BY <1>1, CountersStep DEF OthersKeep
<1>6. SUFFICES ASSUME c.at = "scanning", c.todo # c.candidates, drift'[q] < MaxDrift
               PROVE  /\ after[c.best] <= c.bestCount + drift'[q]
                      /\ \A i \in c.candidates \ c.todo :
                           /\ c.bestCount <= after[i] + drift'[q]
                           /\ after[c.best] <= after[i] + drift'[q]
  BY <1>3, <1>5 DEF Scanned
<1>7. /\ c.serviceName \in Services /\ c.candidates \subseteq Members(c.serviceName)
      /\ c.best \in c.candidates
  BY <1>0, <1>1, <1>6 DEF Located
<1>8. c.candidates \subseteq Instances
  BY <1>7, Basics
<1>9. /\ c.bestCount \in Int /\ d \in Nat
      /\ \A i \in c.candidates : count[i] \in Nat /\ after[i] \in Nat
  BY <1>0, <1>1, <1>2, <1>3, <1>4, <1>7, <1>8 DEF TypeOK, Call
<1>10. /\ after = count => drift'[q] = d
       /\ after # count => d < MaxDrift /\ drift'[q] = d + 1
  <2>1. /\ after = count => drift'[q] = d
        /\ after # count /\ d < MaxDrift => drift'[q] = d + 1
        /\ after # count /\ ~(d < MaxDrift) => drift'[q] = d
    BY <1>1, <1>2, <1>3, <1>4, <1>5, <1>6 DEF Drifted
  <2> QED
    BY <1>6, <2>1
<1>11. /\ count[c.best] <= c.bestCount + d
       /\ \A i \in c.candidates \ c.todo :
            c.bestCount <= count[i] + d /\ count[c.best] <= count[i] + d
  <2>1. d < MaxDrift
    BY <1>6, <1>10
  <2> QED
    BY <1>1, <1>2, <1>4, <1>6, <2>1 DEF Scanned
<1>12. CASE after = count
  BY <1>10, <1>11, <1>12
<1>13. CASE after # count
  <2>1. \A i \in c.candidates : /\ after[i] <= count[i] + 1 /\ count[i] <= after[i] + 1
                                /\ i # call[p].best => after[i] = count[i]
    BY <1>2, <1>3, <1>7, <1>8, CountersStep
  <2>2. count[c.best] \in Nat /\ after[c.best] \in Nat /\ after[c.best] <= count[c.best] + 1
    BY <1>7, <1>9, <2>1
  <2>3. after[c.best] <= c.bestCount + d + 1
    BY <1>9, <1>11, <2>2
  <2>4. ASSUME NEW i \in c.candidates \ c.todo
        PROVE  c.bestCount <= after[i] + d + 1 /\ after[c.best] <= after[i] + d + 1
    <3>1. count[i] \in Nat /\ after[i] \in Nat /\ count[i] <= after[i] + 1
      BY <1>9, <2>1
    <3>2. after[c.best] = count[c.best] \/ after[i] = count[i] \/ i = c.best
      BY <1>7, <2>1
    <3>3. c.bestCount <= count[i] + d /\ count[c.best] <= count[i] + d
      BY <1>11
    <3> QED
      BY <1>9, <2>2, <3>1, <3>2, <3>3
  <2>5. drift'[q] = d + 1
    BY <1>10, <1>13
  <2> QED
    BY <1>9, <2>2, <2>3, <2>4, <2>5
<1> QED
  BY <1>12, <1>13

LEMMA ScannedStep ==
  ASSUME LocatedInv, \A p \in Callers : Scanned(p), [Next]_vars
  PROVE  \A p \in Callers : Scanned(p)'
<1>0. TypeOK /\ LocatedInv'
  BY LocatedStep DEF LocatedInv
<1>1. ASSUME NEW p \in Callers, OthersKeep(p), connectionCount' = connectionCount,
             \A q \in Callers \ {p} : drift'[q] = drift[q], Scanned(p)'
      PROVE  \A q \in Callers : Scanned(q)'
  <2>1. ASSUME NEW q \in Callers, q # p
        PROVE  Scanned(q)'
    <3>1. call'[q] = call[q] /\ drift'[q] = drift[q] /\ Scanned(q)
      BY <1>1, <2>1 DEF OthersKeep
    <3> QED
      BY <1>1, <3>1 DEF Scanned
  <2> QED
    BY <1>1, <2>1
<1>2. ASSUME NEW p \in Callers, NEW s, NEW C, NEW chosen, Begin(p, s, C, chosen)
      PROVE  \A q \in Callers : Scanned(q)'
  <2>1. Scanned(p)'
    BY <1>0, <1>2, BeginEffect DEF Scanned
  <2> QED
    BY <1>0, <1>1, <1>2, <2>1, BeginEffect
<1>3. ASSUME NEW p \in Callers, NEW i, Choose(p, i)
      PROVE  \A q \in Callers : Scanned(q)'
  <2>1. Scanned(p)'
    BY <1>0, <1>3, ChooseEffect DEF Scanned
  <2> QED
    BY <1>0, <1>1, <1>3, <2>1, ChooseEffect
<1>4. ASSUME NEW p \in Callers, NEW i, Scan(p, i)
      PROVE  \A q \in Callers : Scanned(q)'
  <2>1. Scanned(p)'
    BY <1>4, ScannedScan
  <2> QED
    BY <1>0, <1>1, <1>4, <2>1, ScanEffect
<1>5. ASSUME NEW p \in Callers, Add(p) \/ ReportResult(p)
      PROVE  \A q \in Callers : Scanned(q)'
  <2>1. Scanned(p)'
    BY <1>5, CountersStep DEF Scanned
  <2> QED
    BY <1>0, <1>5, <2>1, ScannedOther
<1>6. ASSUME NEW p \in Callers, recordRequest(p)
      PROVE  \A q \in Callers : Scanned(q)'
  <2>1. Scanned(p)'
    BY <1>0, <1>6, RecordEffect DEF Scanned
  <2> QED
    BY <1>0, <1>1, <1>6, <2>1, RecordEffect
<1>7. CASE UNCHANGED vars
  BY <1>7 DEF vars, Scanned
<1> QED
  BY <1>2, <1>3, <1>4, <1>5, <1>6, <1>7 DEF Next, Choose

(***************************************************************************)
(* selectLeastConnections is off the minimum by at most the number of      *)
(* changes that others made during its scan, for any number of callers and *)
(* instances.                                                              *)
(***************************************************************************)
THEOREM LeastConnections == Spec => []LeastWithinDrift
<1> DEFINE Inv == LocatedInv /\ \A p \in Callers : Scanned(p)
<1>1. Init => Inv
  <2>1. Init => \A p \in Callers : call[p].at = "idle"
    BY DEF Init, NoCall
  <2> QED
    BY <2>1, LocatedInit DEF Scanned
<1>2. Inv /\ [Next]_vars => Inv'
  BY LocatedStep, ScannedStep
<1>3. Inv => LeastWithinDrift
  <2> SUFFICES ASSUME Inv, NEW p \in Callers, call[p].at = "scanning",
                      call[p].todo = {}, drift[p] < MaxDrift,
                      NEW i \in call[p].candidates
               PROVE  connectionCount[call[p].serviceName][call[p].best]
                        <= connectionCount[call[p].serviceName][i] + drift[p]
    BY DEF LeastWithinDrift
  <2>1. call[p].todo # call[p].candidates
    BY DEF LocatedInv, Located
  <2> QED
    BY <2>1 DEF Scanned
<1> QED
  BY <1>1, <1>2, <1>3, PTL DEF Spec

----------------------------------------------------------------------------
ByConnections(s) == \A j \in Members(s) : ParseStrategy(tag[j]) = "LeastConnections"

\* A service all of whose instances ask for least-connections never uses
\* another strategy.
Consistent(p) ==
  call[p].at # "idle" /\ ByConnections(call[p].serviceName)
    => call[p].strategy = "LeastConnections"

LEMMA ConsistentStep ==
  ASSUME LocatedInv, \A p \in Callers : Consistent(p), [Next]_vars
  PROVE  \A p \in Callers : Consistent(p)'
<1>0. TypeOK
  BY DEF LocatedInv
<1>1. ASSUME NEW p \in Callers, OthersKeep(p), tag' = tag, Consistent(p)'
      PROVE  \A q \in Callers : Consistent(q)'
  <2>1. ASSUME NEW q \in Callers, q # p
        PROVE  Consistent(q)'
    <3>1. call'[q] = call[q] /\ Consistent(q)
      BY <1>1, <2>1 DEF OthersKeep
    <3> QED
      BY <1>1, <3>1 DEF Consistent, ByConnections
  <2> QED
    BY <1>1, <2>1
<1>2. ASSUME NEW p \in Callers, call[p].at # "idle", tag' = tag, OthersKeep(p),
             call'[p].serviceName = call[p].serviceName,
             call'[p].strategy = call[p].strategy
      PROVE  \A q \in Callers : Consistent(q)'
  <2>1. Consistent(p)'
    BY <1>2 DEF Consistent, ByConnections
  <2> QED
    BY <1>1, <1>2, <2>1
<1>3. ASSUME NEW p \in Callers, NEW s, NEW C, C \subseteq Members(s),
             NEW chosen, Begin(p, s, C, chosen)
      PROVE  \A q \in Callers : Consistent(q)'
  <2>1. ASSUME ByConnections(s)
        PROVE  chosen = "LeastConnections"
    <3>1. C # {} /\ chosen \in resolveStrategy(s, C)
      BY <1>0, <1>3, BeginEffect
    <3>2. ParseStrategy("") = "RoundRobin"
      BY DEF ParseStrategy
    <3>3. \A j \in C : tag[j] # "" /\ ParseStrategy(tag[j]) = "LeastConnections"
      BY <1>3, <2>1, <3>2, Zenon DEF ByConnections
    <3> QED
      BY <3>1, <3>3, Zenon DEF resolveStrategy
  <2>2. Consistent(p)'
    BY <1>0, <1>3, <2>1, BeginEffect DEF Consistent, ByConnections
  <2> QED
    BY <1>0, <1>1, <1>3, <2>2, BeginEffect
<1>4. ASSUME NEW p \in Callers, NEW i, Choose(p, i) \/ Scan(p, i)
      PROVE  \A q \in Callers : Consistent(q)'
  <2>1. /\ call[p].at # "idle" /\ tag' = tag /\ OthersKeep(p)
        /\ call'[p].serviceName = call[p].serviceName
        /\ call'[p].strategy = call[p].strategy
    BY <1>0, <1>4, ChooseEffect, ScanEffect
  <2> QED
    BY <1>2, <2>1
<1>5. ASSUME NEW p \in Callers, Add(p) \/ recordRequest(p)
      PROVE  \A q \in Callers : Consistent(q)'
  <2>1. /\ call[p].at # "idle" /\ tag' = tag /\ OthersKeep(p)
        /\ call'[p].serviceName = call[p].serviceName
        /\ call'[p].strategy = call[p].strategy
    BY <1>0, <1>5, AddEffect, RecordEffect
  <2> QED
    BY <1>2, <2>1
<1>6. ASSUME NEW p \in Callers, ReportResult(p)
      PROVE  \A q \in Callers : Consistent(q)'
  <2>1. Consistent(p)'
    BY <1>0, <1>6, ReportEffect DEF Consistent
  <2> QED
    BY <1>0, <1>1, <1>6, <2>1, ReportEffect
<1>7. CASE UNCHANGED vars
  BY <1>7 DEF vars, Consistent, ByConnections
<1> QED
  BY <1>3, <1>4, <1>5, <1>6, <1>7, FilterMembers DEF Next, Choose

LEMMA CountedFinite ==
  ASSUME NEW s, NEW i
  PROVE  IsFiniteSet(Counted(s, i)) /\ Cardinality(Counted(s, i)) \in Nat
<1>1. Counted(s, i) \subseteq Callers /\ IsFiniteSet(Callers)
  BY BalancerAssumption DEF Counted
<1> QED
  BY <1>1, FS_Subset, FS_CardinalityType

\* The connections counted at i for s, when p is counted there or is no more.
LEMMA CountedMoves ==
  ASSUME NEW p \in Callers, OthersKeep(p), NEW s, NEW i
  PROVE  /\ p \notin Counted(s, i) /\ p \notin Counted(s, i)' => Counted(s, i)' = Counted(s, i)
         /\ p \in Counted(s, i) /\ p \in Counted(s, i)' => Counted(s, i)' = Counted(s, i)
         /\ p \notin Counted(s, i) /\ p \in Counted(s, i)'
              => Cardinality(Counted(s, i)') = Cardinality(Counted(s, i)) + 1
         /\ p \in Counted(s, i) /\ p \notin Counted(s, i)'
              => /\ Cardinality(Counted(s, i)) = Cardinality(Counted(s, i)') + 1
                 /\ Cardinality(Counted(s, i)') \in Nat
<1>1. PICK A, B : A = Counted(s, i) /\ B = Counted(s, i)'
  BY Zenon
<1>2. \A q \in Callers \ {p} : q \in A <=> q \in B
  BY <1>1 DEF Counted, OthersKeep
<1>3. A \subseteq Callers /\ B \subseteq Callers
  BY <1>1 DEF Counted
<1>4. IsFiniteSet(A) /\ Cardinality(A) \in Nat
  BY <1>1, CountedFinite
<1>5. CASE p \notin A /\ p \in B
  <2>1. B = A \cup {p}
    BY <1>2, <1>3, <1>5
  <2> QED
    BY <1>1, <1>4, <1>5, <2>1, FS_AddElement
<1>6. CASE p \in A /\ p \notin B
  <2>1. B = A \ {p}
    BY <1>2, <1>3, <1>6
  <2>2. Cardinality(A \ {p}) = Cardinality(A) - 1 /\ IsFiniteSet(A \ {p})
    BY <1>4, <1>6, FS_RemoveElement
  <2>3. Cardinality(B) \in Nat
    BY <2>1, <2>2, FS_CardinalityType
  <2> QED
    BY <1>1, <1>4, <1>6, <2>1, <2>2, <2>3
<1>7. CASE p \in A <=> p \in B
  <2>1. A = B
    BY <1>2, <1>3, <1>7
  <2> QED
    BY <1>1, <1>7, <2>1
<1> QED
  BY <1>5, <1>6, <1>7

LEMMA CountsStep ==
  ASSUME LocatedInv, \A p \in Callers : Consistent(p), CountsConnections, [Next]_vars
  PROVE  CountsConnections'
<1>0. TypeOK /\ \A p \in Callers : Located(p)
  BY DEF LocatedInv
<1>1. ASSUME tag' = tag, connectionCount' = connectionCount,
             \A s, i : Counted(s, i)' = Counted(s, i)
      PROVE  CountsConnections'
  BY <1>1 DEF CountsConnections, OwnCounter
<1>2. ASSUME NEW p \in Callers, OthersKeep(p), tag' = tag, connectionCount' = connectionCount,
             \A s, i : p \in Counted(s, i)' <=> p \in Counted(s, i)
      PROVE  CountsConnections'
  <2>1. \A s, i : Counted(s, i)' = Counted(s, i)
    BY <1>2, CountedMoves
  <2> QED
    BY <1>1, <1>2, <2>1
<1>3. ASSUME NEW p \in Callers, NEW s, NEW C, NEW chosen, Begin(p, s, C, chosen)
      PROVE  CountsConnections'
  <2>1. /\ call[p].at = "idle" /\ call'[p].at \in {"choosing", "scanning"} /\ OthersKeep(p)
        /\ tag' = tag /\ connectionCount' = connectionCount
    BY <1>0, <1>3, BeginEffect
  <2>2. \A t, i : p \notin Counted(t, i) /\ p \notin Counted(t, i)'
    BY <2>1 DEF Counted
  <2> QED
    BY <1>2, <2>1, <2>2
<1>4. ASSUME NEW p \in Callers, NEW i, Choose(p, i) \/ Scan(p, i)
      PROVE  CountsConnections'
  <2>1. /\ call[p].at \in {"choosing", "scanning"} /\ OthersKeep(p)
        /\ call'[p].at = "scanning" \/ call'[p].strategy # "LeastConnections"
        /\ tag' = tag /\ connectionCount' = connectionCount
    BY <1>0, <1>4, ChooseEffect, ScanEffect, Zenon
  <2>2. \A s, j : p \notin Counted(s, j) /\ p \notin Counted(s, j)'
    BY <2>1 DEF Counted
  <2> QED
    BY <1>2, <2>1, <2>2
<1>5. ASSUME NEW p \in Callers, recordRequest(p)
      PROVE  CountsConnections'
  <2>1. /\ call[p].at = "recording" /\ call'[p].at = "holding" /\ OthersKeep(p)
        /\ call'[p].serviceName = call[p].serviceName
        /\ call'[p].strategy = call[p].strategy /\ call'[p].best = call[p].best
        /\ tag' = tag /\ connectionCount' = connectionCount
    BY <1>0, <1>5, RecordEffect
  <2>2. \A s, i : p \in Counted(s, i)' <=> p \in Counted(s, i)
    BY <2>1 DEF Counted
  <2> QED
    BY <1>2, <2>1, <2>2
<1>6. ASSUME NEW p \in Callers, Add(p) \/ ReportResult(p), NEW s \in Services, NEW i \in Instances
      PROVE  /\ connectionCount'[s][i] <= Cardinality(Counted(s, i)')
             /\ OwnCounter(s, i)' => connectionCount'[s][i] = Cardinality(Counted(s, i)')
  <2>0. tag' = tag /\ OthersKeep(p)
    BY <1>0, <1>6, AddEffect, ReportEffect
  <2>1. OwnCounter(s, i)' <=> OwnCounter(s, i)
    BY <2>0 DEF OwnCounter
  <2>2. PICK n, m : n = connectionCount[s][i] /\ m = connectionCount'[s][i]
    BY Zenon
  <2>3. PICK A, B : A = Cardinality(Counted(s, i)) /\ B = Cardinality(Counted(s, i)')
    BY Zenon
  <2>4. n \in Nat /\ A \in Nat /\ n <= A /\ (OwnCounter(s, i) => n = A)
    <3>1. n \in Nat
      BY <1>0, <2>2 DEF TypeOK
    <3>2. A \in Nat
      BY <2>3, CountedFinite
    <3> QED
      BY <2>2, <2>3, <3>1, <3>2 DEF CountsConnections
  <2>5. CASE Add(p)
    <3>1. /\ call[p].at = "scanning" /\ call'[p].at = "recording"
          /\ call'[p].serviceName = call[p].serviceName
          /\ call'[p].strategy = "LeastConnections" /\ call'[p].best = call[p].best
      BY <1>0, <2>5, AddEffect, Zenon DEF Located
    <3>2. p \notin Counted(s, i)
      BY <3>1 DEF Counted
    <3>3. p \in Counted(s, i)' <=> s = call[p].serviceName /\ i = call[p].best
      BY <3>1 DEF Counted
    <3>4. CASE s = call[p].serviceName /\ i = call[p].best
      <4>1. B = A + 1
        BY <2>0, <2>3, <3>2, <3>3, <3>4, CountedMoves
      <4>2. m = n + 1
        BY <1>0, <2>2, <2>5, <3>4, AddEffect
      <4> QED
        BY <2>1, <2>2, <2>3, <2>4, <4>1, <4>2
    <3>5. CASE ~(s = call[p].serviceName /\ i = call[p].best)
      <4>1. B = A
        BY <2>0, <2>3, <3>2, <3>3, <3>5, CountedMoves
      <4>2. m = n
        BY <1>0, <2>2, <2>5, <3>5, AddEffect, Zenon
      <4> QED
        BY <2>1, <2>2, <2>3, <2>4, <4>1, <4>2
    <3> QED
      BY <3>4, <3>5
  <2>6. CASE ReportResult(p)
    <3>1. call[p].at = "holding" /\ call'[p].at = "idle"
      BY <1>0, <2>6, ReportEffect
    <3>2. p \notin Counted(s, i)'
      BY <3>1 DEF Counted
    <3>3. /\ i = call[p].best /\ n > 0 => m = n - 1
          /\ ~(i = call[p].best /\ n > 0) => m = n
      BY <1>0, <2>2, <2>6, ReportEffect
    <3>4. CASE p \in Counted(s, i)
      <4>1. A = B + 1 /\ B \in Nat
        BY <2>0, <2>3, <3>2, <3>4, CountedMoves
      <4>2. i = call[p].best
        BY <3>4 DEF Counted
      <4> QED
        BY <2>1, <2>2, <2>3, <2>4, <3>3, <4>1, <4>2
    <3>5. CASE p \notin Counted(s, i)
      <4>1. B = A
        BY <2>0, <2>3, <3>2, <3>5, CountedMoves
      <4>2. ASSUME OwnCounter(s, i), i = call[p].best
            PROVE  FALSE
        <5>1. call[p].serviceName \in Services /\ i \in Members(call[p].serviceName)
          BY <3>1, <4>2, PickedListed
        <5>2. call[p].serviceName = s
          BY <4>2, <5>1 DEF OwnCounter
        <5>3. call[p].strategy = "LeastConnections"
          BY <3>1, <4>2, <5>2 DEF OwnCounter, Consistent, ByConnections
        <5> QED
          BY <3>1, <3>5, <4>2, <5>2, <5>3 DEF Counted
      <4> QED
        BY <2>1, <2>2, <2>3, <2>4, <3>3, <4>1, <4>2
    <3> QED
      BY <3>4, <3>5
  <2> QED
    BY <1>6, <2>5, <2>6
<1>7. CASE UNCHANGED vars
  BY <1>1, <1>7 DEF vars, Counted
<1> QED
  BY <1>3, <1>4, <1>5, <1>6, <1>7, Zenon DEF Next, Choose, CountsConnections

(***************************************************************************)
(* ReportResult takes a connection off the counters of all the services    *)
(* that have the ID: still no counter ever shows more connections than     *)
(* there are, and it shows exactly those that there are where the service  *)
(* always balances by connections and shares no ID.                        *)
(***************************************************************************)
THEOREM ConnectionCounts == Spec => []CountsConnections
<1> DEFINE Inv == LocatedInv /\ (\A p \in Callers : Consistent(p)) /\ CountsConnections
<1>1. Init => Inv
  <2> SUFFICES ASSUME Init PROVE Inv
    OBVIOUS
  <2>1. \A p \in Callers : call[p].at = "idle"
    BY DEF Init, NoCall
  <2>2. \A s \in Services, i \in Instances : Counted(s, i) = {} /\ connectionCount[s][i] = 0
    BY <2>1 DEF Counted, Init
  <2>3. CountsConnections
    BY <2>2, FS_EmptySet DEF CountsConnections
  <2> QED
    BY <2>1, <2>3, LocatedInit DEF Consistent
<1>2. Inv /\ [Next]_vars => Inv'
  BY LocatedStep, ConsistentStep, CountsStep
<1>3. Inv => CountsConnections
  OBVIOUS
<1> QED
  BY <1>1, <1>2, <1>3, PTL DEF Spec

----------------------------------------------------------------------------
(* Sums over finite sets. *)

\* Induction over the size of a set, in first-order form: no subset is bad if
\* a bad one always has a smaller bad one in it.
LEMMA NoBadSubset ==
  ASSUME NEW S, IsFiniteSet(S), NEW Bad \in SUBSET SUBSET S,
         \A T \in Bad : \E x \in T : T \ {x} \in Bad
  PROVE  Bad = {}
<1> SUFFICES ASSUME Bad # {} PROVE FALSE
  OBVIOUS
<1>1. IsWellFoundedOn(StrictSubsetOrdering(S), FiniteSubsetsOf(S)) /\ Bad \subseteq FiniteSubsetsOf(S)
  BY FS_StrictSubsetOrderingWellFounded, FS_FiniteSubsetsOfFinite
<1>2. PICK T \in Bad : \A U \in Bad : <<U, T>> \notin StrictSubsetOrdering(S)
  BY <1>1, WFMin
<1>3. PICK x \in T : T \ {x} \in Bad
  OBVIOUS
<1>4. <<T \ {x}, T>> \in StrictSubsetOrdering(S)
  BY <1>3 DEF StrictSubsetOrdering
<1> QED
  BY <1>2, <1>3, <1>4, Zenon

\* f[i] slots for every index i.
Slots(f, S) == UNION {{i} \X (1..f[i]) : i \in S}

\* A new index adds its own slots to those of the others.
LEMMA SlotsAdd ==
  ASSUME NEW S, NEW x, x \notin S, NEW f, f[x] \in Nat, IsFiniteSet(Slots(f, S))
  PROVE  /\ IsFiniteSet(Slots(f, S \cup {x}))
         /\ Cardinality(Slots(f, S \cup {x})) = f[x] + Cardinality(Slots(f, S))
<1> DEFINE A == Slots(f, S)
           B == {x} \X (1..f[x])
<1>1. Slots(f, S \cup {x}) = A \cup B /\ A \cap B = {}
  BY DEF Slots
<1>2. IsFiniteSet(B) /\ Cardinality(B) = f[x]
  <2>1. IsFiniteSet({x}) /\ Cardinality({x}) = 1
    BY FS_Singleton, Zenon
  <2>2. IsFiniteSet(1..f[x]) /\ Cardinality(1..f[x]) = f[x]
    BY FS_Interval
  <2>3. IsFiniteSet(B) /\ Cardinality(B) = Cardinality({x}) * Cardinality(1..f[x])
    BY <2>1, <2>2, FS_Product, Zenon
  <2>4. Cardinality({x}) * Cardinality(1..f[x]) = 1 * f[x]
    BY <2>1, <2>2
  <2> QED
    BY <2>3, <2>4
<1> HIDE DEF A, B
<1>3. /\ IsFiniteSet(A \cup B)
      /\ Cardinality(A \cup B) = Cardinality(A) + Cardinality(B) - Cardinality(A \cap B)
  BY <1>2, FS_Union DEF A
<1>4. Cardinality(A \cap B) = 0 /\ Cardinality(A) \in Nat
  BY <1>1, FS_EmptySet, FS_CardinalityType, Zenon DEF A
<1>5. Cardinality(A \cup B) = f[x] + Cardinality(A)
  BY <1>2, <1>3, <1>4
<1> QED
  BY <1>1, <1>3, <1>5, Zenon DEF A

LEMMA SlotsEmpty == \A f : Slots(f, {}) = {} /\ IsFiniteSet({}) /\ Cardinality({}) = 0
BY FS_EmptySet DEF Slots

LEMMA SlotsFinite ==
  ASSUME NEW S, IsFiniteSet(S), NEW f, \A i \in S : f[i] \in Nat
  PROVE  IsFiniteSet(Slots(f, S)) /\ Cardinality(Slots(f, S)) \in Nat
<1> DEFINE Bad == {T \in SUBSET S : ~IsFiniteSet(Slots(f, T))}
<1>1. ASSUME NEW T \in Bad
      PROVE  \E x \in T : T \ {x} \in Bad
  <2>1. PICK x \in T : TRUE
    BY SlotsEmpty
  <2> DEFINE U == T \ {x}
  <2>2. T = U \cup {x} /\ x \notin U /\ f[x] \in Nat
    BY <2>1
  <2> HIDE DEF U
  <2>3. ~IsFiniteSet(Slots(f, U))
    BY <2>2, SlotsAdd
  <2> QED
    BY <2>1, <2>3 DEF U
<1>2. Bad = {}
  <2> HIDE DEF Bad
  <2>1. Bad \in SUBSET SUBSET S
    BY DEF Bad
  <2> QED
    BY <1>1, <2>1, NoBadSubset, Zenon
<1> QED
  BY <1>2, FS_CardinalityType

\* The sum of natural numbers is the number of their slots.
LEMMA SumOfSlots ==
  ASSUME NEW S, IsFiniteSet(S), NEW f, \A i \in S : f[i] \in Nat
  PROVE  SumFunctionOnSet(f, S) = Cardinality(Slots(f, S))
<1> DEFINE pick(s) == CHOOSE x \in s : TRUE
           Sums(g) == [s \in SUBSET S |-> IF s = {} THEN 0 ELSE f[pick(s)] + g[s \ {pick(s)}]]
           iter == CHOOSE g : g = Sums(g)
           count == [s \in SUBSET S |-> Cardinality(Slots(f, s))]
<1>1. SumFunctionOnSet(f, S) = iter[S]
  BY Zenon DEF SumFunctionOnSet, FoldFunctionOnSet, MapThenFoldSet
<1>2. ASSUME NEW s \in SUBSET S
      PROVE  count[s] = IF s = {} THEN 0 ELSE f[pick(s)] + count[s \ {pick(s)}]
  <2>1. CASE s = {}
    BY <2>1, SlotsEmpty
  <2>2. CASE s # {}
    <3> DEFINE x == pick(s)
               r == s \ {x}
    <3>1. x \in s
      BY <2>2
    <3> HIDE DEF x
    <3>2. s = r \cup {x} /\ x \notin r /\ f[x] \in Nat
      BY <3>1
    <3>3. IsFiniteSet(r) /\ r \in SUBSET S /\ \A i \in r : f[i] \in Nat
      BY FS_Subset
    <3> HIDE DEF r
    <3>4. IsFiniteSet(Slots(f, r))
      BY <3>3, SlotsFinite
    <3>5. Cardinality(Slots(f, s)) = f[x] + Cardinality(Slots(f, r))
      BY <3>2, <3>4, SlotsAdd
    <3> QED
      BY <2>2, <3>3, <3>5 DEF x, r
  <2> QED
    BY <2>1, <2>2
<1>3. count = Sums(count)
  <2> HIDE DEF pick
  <2>1. count = [s \in SUBSET S |-> count[s]]
    OBVIOUS
  <2> HIDE DEF count
  <2> QED
    BY <1>2, <2>1, Zenon
<1> HIDE DEF count, Sums
<1>4. iter = Sums(iter)
  BY <1>3, Zenon
<1> HIDE DEF iter
<1> DEFINE Bad == {T \in SUBSET S : iter[T] # count[T]}
<1>5. ASSUME NEW T \in Bad
      PROVE  \E x \in T : T \ {x} \in Bad
  <2> DEFINE x == pick(T)
             U == T \ {x}
  <2>1. /\ iter[T] = IF T = {} THEN 0 ELSE f[x] + iter[U]
        /\ count[T] = IF T = {} THEN 0 ELSE f[x] + count[U]
    BY <1>3, <1>4 DEF Sums
  <2>2. T # {} /\ x \in T
    BY <2>1
  <2> QED
    BY <2>1, <2>2, Zenon
<1>6. Bad = {}
  <2> HIDE DEF Bad
  <2>1. Bad \in SUBSET SUBSET S
    BY DEF Bad
  <2> QED
    BY <1>5, <2>1, NoBadSubset, Zenon
<1> QED
  BY <1>1, <1>6, Zenon DEF count

----------------------------------------------------------------------------
\* The callers that hold one of a set of instances.
Holders(T) == {p \in Callers : call[p].at = "holding" /\ call[p].best \in T}

\* Per instance: the serviceStats are short of the results of its holders.
\* Only finitely many instances have serviceStats.
Booked ==
  /\ \A i \in Instances : stats[i].open = Cardinality(Holders({i}))
  /\ \A p \in Callers : call[p].at = "holding" => stats[call[p].best].serviceName # Nobody
  /\ IsFiniteSet({i \in Instances : stats[i].serviceName # Nobody})

LEMMA HoldersFinite ==
  \A T : IsFiniteSet(Holders(T)) /\ Cardinality(Holders(T)) \in Nat
<1> TAKE T
<1>1. Holders(T) \in SUBSET Callers /\ IsFiniteSet(Callers)
  BY Basics DEF Holders
<1>2. IsFiniteSet(Holders(T))
  BY <1>1, FS_Subset
<1> QED
  BY <1>2, FS_CardinalityType

\* The instances of a finite set have as many holders as they have slots.
LEMMA HoldersAddUp ==
  ASSUME TypeOK, Booked, NEW S \in SUBSET Instances, IsFiniteSet(S)
  PROVE  SumFunctionOnSet([i \in Instances |-> stats[i].open], S) = Cardinality(Holders(S))
<1> DEFINE open == [i \in Instances |-> stats[i].open]
<1>1. \A i \in Instances : open[i] = Cardinality(Holders({i})) /\ open[i] \in Nat
  BY HoldersFinite DEF Booked
<1> HIDE DEF open
<1> DEFINE Bad == {T \in SUBSET S : Cardinality(Slots(open, T)) # Cardinality(Holders(T))}
<1>2. ASSUME NEW T \in Bad
      PROVE  \E x \in T : T \ {x} \in Bad
  <2>1. T # {}
    <3>1. Holders({}) = {}
      BY DEF Holders
    <3> QED
      BY <3>1, SlotsEmpty
  <2>2. PICK x \in T : TRUE
    BY <2>1
  <2> DEFINE U == T \ {x}
  <2>3. T = U \cup {x} /\ x \notin U /\ x \in Instances
    BY <2>2
  <2>4. IsFiniteSet(U) /\ \A i \in U : open[i] \in Nat
    BY <1>1, FS_Subset, Zenon
  <2> HIDE DEF U
  <2>5. Cardinality(Slots(open, T)) = open[x] + Cardinality(Slots(open, U))
    <3>1. IsFiniteSet(Slots(open, U)) /\ open[x] \in Nat
      BY <1>1, <2>3, <2>4, SlotsFinite, Zenon
    <3> QED
      BY <2>3, <3>1, SlotsAdd
  <2>6. Cardinality(Holders(T)) = Cardinality(Holders(U)) + Cardinality(Holders({x}))
    <3>1. Holders(T) = Holders(U) \cup Holders({x}) /\ Holders(U) \cap Holders({x}) = {}
      BY <2>3 DEF Holders
    <3>2. Cardinality(Holders(U) \cup Holders({x})) =
            Cardinality(Holders(U)) + Cardinality(Holders({x}))
              - Cardinality(Holders(U) \cap Holders({x}))
      BY HoldersFinite, FS_Union, Zenon
    <3>3. Cardinality(Holders(U)) \in Nat /\ Cardinality(Holders({x})) \in Nat
      BY HoldersFinite
    <3>4. Cardinality(Holders(U) \cap Holders({x})) = 0
      BY <3>1, FS_EmptySet
    <3> HIDE DEF Bad
    <3> QED
      BY <3>1, <3>2, <3>3, <3>4
  <2>7. Cardinality(Slots(open, U)) # Cardinality(Holders(U))
    BY <1>1, <2>3, <2>5, <2>6, HoldersFinite
  <2> QED
    BY <2>2, <2>7 DEF U
<1>3. Bad = {}
  <2> HIDE DEF Bad
  <2>1. Bad \in SUBSET SUBSET S
    BY DEF Bad
  <2> QED
    BY <1>2, <2>1, NoBadSubset, Zenon
<1>4. \A i \in S : open[i] \in Nat
  BY <1>1, Zenon
<1>5. SumFunctionOnSet(open, S) = Cardinality(Slots(open, S))
  BY <1>4, SumOfSlots
<1> QED
  BY <1>3, <1>5 DEF open

\* The holders of i, when p becomes one of them or is no more.
LEMMA HoldersMove ==
  ASSUME NEW p \in Callers, OthersKeep(p), NEW i
  PROVE  /\ (p \in Holders({i}) <=> p \in Holders({i})') => Holders({i})' = Holders({i})
         /\ p \notin Holders({i}) /\ p \in Holders({i})'
              => Cardinality(Holders({i})') = Cardinality(Holders({i})) + 1
         /\ p \in Holders({i}) /\ p \notin Holders({i})'
              => Cardinality(Holders({i})') = Cardinality(Holders({i})) - 1
<1>1. PICK A, B : A = Holders({i}) /\ B = Holders({i})'
  BY Zenon
<1>2. \A q \in Callers \ {p} : q \in A <=> q \in B
  BY <1>1 DEF Holders, OthersKeep
<1>3. A \subseteq Callers /\ B \subseteq Callers
  BY <1>1 DEF Holders
<1>4. IsFiniteSet(A)
  BY <1>1, HoldersFinite
<1>5. CASE p \notin A /\ p \in B
  <2>1. B = A \cup {p}
    BY <1>2, <1>3, <1>5
  <2>2. Cardinality(A \cup {p}) = Cardinality(A) + 1
    BY <1>4, <1>5, FS_AddElement
  <2> QED
    BY <1>1, <1>5, <2>1, <2>2
<1>6. CASE p \in A /\ p \notin B
  <2>1. B = A \ {p}
    BY <1>2, <1>3, <1>6
  <2>2. Cardinality(A \ {p}) = Cardinality(A) - 1
    BY <1>4, <1>6, FS_RemoveElement, Zenon
  <2> QED
    BY <1>1, <1>6, <2>1, <2>2
<1>7. CASE p \in A <=> p \in B
  <2>1. A = B
    BY <1>2, <1>3, <1>7
  <2> QED
    BY <1>1, <1>7, <2>1
<1> QED
  BY <1>5, <1>6, <1>7

LEMMA BookedStep ==
  ASSUME LocatedInv, Booked, [Next]_vars
  PROVE  Booked'
<1>0. TypeOK
  BY DEF LocatedInv
<1>1. ASSUME NEW p \in Callers, stats' = stats, OthersKeep(p),
             call[p].at # "holding", call'[p].at # "holding"
      PROVE  Booked'
  <2>1. \A i : Holders({i})' = Holders({i})
    BY <1>1, HoldersMove, Zenon DEF Holders
  <2>2. \A q \in Callers : call'[q].at = "holding" => call'[q] = call[q]
    BY <1>1 DEF OthersKeep
  <2> QED
    BY <1>1, <2>1, <2>2, Zenon DEF Booked
<1>2. ASSUME NEW p \in Callers, NEW s, NEW C, NEW chosen, Begin(p, s, C, chosen)
      PROVE  Booked'
  BY <1>0, <1>1, <1>2, BeginEffect, Zenon
<1>3. ASSUME NEW p \in Callers, NEW i, Choose(p, i) \/ Scan(p, i) \/ Add(p)
      PROVE  Booked'
  <2>1. /\ call[p].at # "holding" /\ call'[p].at # "holding"
        /\ stats' = stats /\ OthersKeep(p)
    BY <1>0, <1>3, ChooseEffect, ScanEffect, AddEffect, Zenon
  <2> QED
    BY <1>1, <2>1
<1>4. ASSUME NEW p \in Callers, recordRequest(p)
      PROVE  Booked'
  <2>0. PICK i : i = call[p].best
    BY Zenon
  <2>1. /\ call[p].at = "recording" /\ call'[p].at = "holding" /\ call'[p].best = i
        /\ OthersKeep(p)
    BY <1>0, <1>4, <2>0, RecordEffect
  <2>2. i \in Instances /\ call[p].serviceName \in Services
    BY <2>0, <2>1, PickedListed
  <2>3. /\ stats'[i].open = stats[i].open + 1
        /\ stats'[i].serviceName # Nobody
        /\ \A j \in Instances \ {i} : stats'[j] = stats[j]
    <3>1. stats \in [Instances -> [serviceName : Services \cup {Nobody}, open : Int]]
      BY <1>0 DEF TypeOK
    <3>2. Nobody \notin Services
      BY BalancerAssumption
    <3> QED
      BY <1>4, <2>0, <2>2, <3>1, <3>2 DEF recordRequest
  <2>4. p \notin Holders({i}) /\ \A j : p \in Holders({j})' <=> j = i
    BY <2>1 DEF Holders
  <2>5. ASSUME NEW j \in Instances
        PROVE  stats'[j].open = Cardinality(Holders({j})')
    <3>1. stats[j].open = Cardinality(Holders({j}))
      BY DEF Booked
    <3>2. CASE j = i
      <4>1. Cardinality(Holders({j})') = Cardinality(Holders({j})) + 1
        BY <2>1, <2>4, <3>2, HoldersMove, Zenon
      <4> QED
        BY <2>3, <3>1, <3>2, <4>1
    <3>3. CASE j # i
      <4>1. p \notin Holders({j})
        BY <2>1 DEF Holders
      <4>2. Holders({j})' = Holders({j})
        BY <2>1, <2>4, <3>3, <4>1, HoldersMove, Zenon
      <4> QED
        BY <2>3, <3>1, <3>3, <4>2
    <3> QED
      BY <3>2, <3>3
  <2>6. ASSUME NEW q \in Callers, call'[q].at = "holding"
        PROVE  stats'[call'[q].best].serviceName # Nobody
    <3>1. CASE q = p
      BY <2>1, <2>3, <3>1
    <3>2. CASE q # p
      <4>1. call'[q] = call[q]
        BY <2>1, <3>2 DEF OthersKeep
      <4>2. call[q].best \in Instances
        BY <2>6, <4>1, PickedListed
      <4> QED
        BY <2>3, <2>6, <4>1, <4>2 DEF Booked
    <3> QED
      BY <3>1, <3>2
  <2>7. IsFiniteSet({j \in Instances : stats'[j].serviceName # Nobody})
    <3> DEFINE A == {j \in Instances : stats[j].serviceName # Nobody}
               B == {j \in Instances : stats'[j].serviceName # Nobody}
    <3>1. B \in SUBSET (A \cup {i})
      BY <2>3
    <3>2. IsFiniteSet(A \cup {i})
      BY FS_AddElement DEF Booked
    <3> QED
      BY <3>1, <3>2, FS_Subset
  <2> QED
    BY <2>5, <2>6, <2>7, Zenon DEF Booked
<1>5. ASSUME NEW p \in Callers, ReportResult(p)
      PROVE  Booked'
  <2>0. PICK i : i = call[p].best
    BY Zenon
  <2>1. call[p].at = "holding" /\ call'[p].at = "idle" /\ OthersKeep(p)
    BY <1>0, <1>5, ReportEffect
  <2>2. i \in Instances
    BY <2>0, <2>1, PickedListed
  <2>3. /\ stats'[i].open = stats[i].open - 1
        /\ stats'[i].serviceName = stats[i].serviceName
        /\ \A j \in Instances \ {i} : stats'[j] = stats[j]
    <3>1. stats \in [Instances -> [serviceName : Services \cup {Nobody}, open : Int]]
      BY <1>0 DEF TypeOK
    <3> QED
      BY <1>5, <2>0, <2>2, <3>1 DEF ReportResult
  <2>4. \A j : p \notin Holders({j})' /\ (p \in Holders({j}) <=> j = i)
    BY <2>0, <2>1 DEF Holders
  <2>5. ASSUME NEW j \in Instances
        PROVE  stats'[j].open = Cardinality(Holders({j})')
    <3>1. stats[j].open = Cardinality(Holders({j}))
      BY DEF Booked
    <3>2. CASE j = i
      <4>1. Cardinality(Holders({j})') = Cardinality(Holders({j})) - 1
        BY <2>1, <2>4, <3>2, HoldersMove, Zenon
      <4> QED
        BY <2>3, <3>1, <3>2, <4>1
    <3>3. CASE j # i
      <4>1. Holders({j})' = Holders({j})
        BY <2>1, <2>4, <3>3, HoldersMove, Zenon
      <4> QED
        BY <2>3, <3>1, <3>3, <4>1
    <3> QED
      BY <3>2, <3>3
  <2>6. \A j \in Instances : stats'[j].serviceName = stats[j].serviceName
    BY <2>3
  <2>7. ASSUME NEW q \in Callers, call'[q].at = "holding"
        PROVE  stats'[call'[q].best].serviceName # Nobody
    <3>1. q # p /\ call'[q] = call[q]
      BY <2>1, <2>7 DEF OthersKeep
    <3>2. call[q].best \in Instances
      BY <2>7, <3>1, PickedListed
    <3> QED
      BY <2>6, <2>7, <3>1, <3>2 DEF Booked
  <2>8. {j \in Instances : stats'[j].serviceName # Nobody}
          = {j \in Instances : stats[j].serviceName # Nobody}
    BY <2>6
  <2> QED
    BY <2>5, <2>7, <2>8, Zenon DEF Booked
<1>6. CASE UNCHANGED vars
  <2>1. \A i : Holders({i})' = Holders({i})
    BY <1>6 DEF vars, Holders
  <2> QED
    BY <1>6, <2>1, Zenon DEF vars, Booked
<1> QED
  BY <1>2, <1>3, <1>4, <1>5, <1>6, Zenon DEF Next, Choose

(***************************************************************************)
(* What Stats adds up over the instances of a service is, for any number   *)
(* of callers and instances, the number of requests that recordRequest has *)
(* counted there and ReportResult has not.                                 *)
(***************************************************************************)
THEOREM StatisticsAddUp == Spec => []StatsAddUp
<1> DEFINE Inv == LocatedInv /\ Booked
<1>1. Init => Inv
  <2> SUFFICES ASSUME Init PROVE Booked
    BY LocatedInit
  <2>1. \A T : Holders(T) = {}
    BY DEF Init, NoCall, Holders
  <2>2. {i \in Instances : stats[i].serviceName # Nobody} = {}
    BY DEF Init, NoStats
  <2>3. \A i \in Instances : stats[i].open = 0
    BY DEF Init, NoStats
  <2>4. \A p \in Callers : call[p].at = "idle"
    BY DEF Init, NoCall
  <2> QED
    BY <2>1, <2>2, <2>3, <2>4, FS_EmptySet, Zenon DEF Booked
<1>2. Inv /\ [Next]_vars => Inv'
  BY LocatedStep, BookedStep
<1>3. Inv => StatsAddUp
  <2> SUFFICES ASSUME Inv, NEW s \in Services
               PROVE  Stats(s) = Cardinality({p \in Callers : call[p].at = "holding"
                                            /\ stats[call[p].best].serviceName = s})
    BY DEF StatsAddUp
  <2> DEFINE S == {i \in Instances : stats[i].serviceName = s}
  <2>1. IsFiniteSet(S)
    <3>1. S \in SUBSET {i \in Instances : stats[i].serviceName # Nobody}
      BY BalancerAssumption
    <3> QED
      BY <3>1, FS_Subset DEF Booked
  <2>2. Stats(s) = Cardinality(Holders(S))
    BY <2>1, HoldersAddUp DEF Stats, LocatedInv
  <2>3. Holders(S) = {p \in Callers : call[p].at = "holding" /\ stats[call[p].best].serviceName = s}
    BY Basics DEF Holders, LocatedInv, Located
  <2> QED
    BY <2>2, <2>3, Zenon
<1> QED
  BY <1>1, <1>2, <1>3, PTL DEF Spec
=============================================================================
