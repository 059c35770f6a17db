-------------------------- MODULE HealthWorkerProofs --------------------------
(* What the probe worker guarantees for any set of registrations, shared IDs *)
(* included, and any thresholds.                                             *)
EXTENDS HealthWorker, BreakerOpsProofs

\* The state of a cycle: what has been listed, what is cached, and which
\* goroutines are running.
Cycle ==
  /\ ~cycling => listing = {} /\ liveIDs = {} /\ steady = {}
                 /\ \A p \in Placements : task[p] = "done"
  /\ cycling => catalog \subseteq present
  /\ steady \subseteq catalog
  /\ liveIDs \subseteq IDsOf(present)
  /\ \A p \in Placements : p[1] \in listing => task[p] = "done"
  /\ \A p \in Placements : task[p] = "publish" => cache[p[2]] # "none"
  /\ \A p \in steady : p[1] \in failed \cup listing \/ p[2] \in liveIDs
  /\ \A i \in liveIDs : \/ cache[i] # "none"
                        \/ \E p \in Placements : p[2] = i /\ task[p] # "done"

Gates == (\A i \in IDs : Sound(breakers[i])) /\ GateHeldByTask

IInv == TypeOK /\ Cycle /\ Gates

LEMMA PlacementParts ==
  ASSUME NEW p \in Placements
  PROVE  p[1] \in Services /\ p[2] \in IDs
BY PlacementsTyped

LEMMA WorkerInit ==
  ASSUME Init
  PROVE  IInv
<1>1. NewBreaker \in Breaker
  BY NewBreakerSound DEF Sound
<1>2. TypeOK
  BY <1>1, Zenon DEF Init, TypeOK, Status
<1>3. Cycle
  BY DEF Init, Cycle
<1>4. \A i \in IDs : breakers[i] = NewBreaker
  BY DEF Init
<1>5. Gates
  BY <1>4, NewBreakerSound DEF Gates, GateHeldByTask
<1> QED
  BY <1>2, <1>3, <1>5 DEF IInv

----------------------------------------------------------------------------
(* Steps that leave the breakers and the probing goroutines alone keep Gates. *)

LEMMA GatesKept ==
  ASSUME Gates, UNCHANGED breakers,
         \A p \in Placements : task[p] = "probing" => task'[p] = "probing" /\ probe'[p] = probe[p]
  PROVE  Gates'
BY DEF Gates, GateHeldByTask

LEMMA TaskStep ==
  ASSUME IInv, NEW p \in Placements, Task(p)
  PROVE  IInv'
<1>0. TypeOK /\ Cycle /\ Gates
  BY DEF IInv
<1>1. p[1] \in Services /\ p[2] \in IDs
  BY PlacementParts
<1> DEFINE cb == breakers[p[2]]
<1>2. Sound(cb) /\ cb \in Breaker
  BY <1>0, <1>1 DEF Gates, Sound
<1>4. CASE Admit(p)
  <2>1. Sound(Allow(cb)) /\ (Allow(cb).halfOpenUsed <=> cb.state # "closed")
    BY <1>2, <1>4, AllowSound DEF Admit
  <2>2. /\ task[p] = "gate" /\ task' = [task EXCEPT ![p] = "probing"]
        /\ breakers' = [breakers EXCEPT ![p[2]] = Allow(cb)]
        /\ probe' = [probe EXCEPT ![p] = cb.state # "closed"]
        /\ UNCHANGED <<environment, cache, events, cycling, listing, liveIDs, status, prev, history>>
    BY <1>4 DEF Admit
  <2>3. TypeOK'
    <3>1. Allow(cb) \in Breaker
      BY <2>1 DEF Sound
    <3>2. breakers' \in [IDs -> Breaker]
      BY <1>0, <2>2, <3>1, Zenon DEF TypeOK
    <3>3. probe' \in [Placements -> BOOLEAN]
      BY <1>0, <2>2 DEF TypeOK
    <3> QED
      BY <1>0, <2>2, <3>2, <3>3 DEF TypeOK, environment, events, history
  <2>4. Cycle'
    BY <1>0, <2>2 DEF Cycle, TypeOK, environment, events, history
  <2>5. /\ breakers'[p[2]] = Allow(cb) /\ task'[p] = "probing"
        /\ \A i \in IDs \ {p[2]} : breakers'[i] = breakers[i]
        /\ \A q \in Placements \ {p} : task'[q] = task[q] /\ probe'[q] = probe[q]
        /\ probe'[p] <=> cb.state # "closed"
    BY <1>0, <1>1, <2>2, Zenon DEF TypeOK
  <2>6. Gates'
    <3>1. \A i \in IDs : Sound(breakers'[i])
      BY <1>0, <2>1, <2>5 DEF Gates
    <3>2. ASSUME NEW i \in IDs, breakers'[i].halfOpenUsed
          PROVE  \E q \in Placements : q[2] = i /\ task'[q] = "probing" /\ probe'[q]
      <4>1. CASE i = p[2]
        BY <2>1, <2>5, <3>2, <4>1
      <4>2. CASE i # p[2]
        BY <1>0, <2>5, <3>2, <4>2 DEF Gates, GateHeldByTask
      <4> QED
        BY <4>1, <4>2
    <3> QED
      BY <3>1, <3>2 DEF Gates, GateHeldByTask
  <2> QED
    BY <2>3, <2>4, <2>6 DEF IInv
<1>5. CASE Refuse(p)
  <2>1. TypeOK'
    BY <1>0, <1>5 DEF Refuse, TypeOK, environment, events, history, Status
  <2>2. Cycle'
    BY <1>0, <1>5 DEF Refuse, Cycle, TypeOK, environment, events, history
  <2>3. Gates'
    BY <1>0, <1>5, GatesKept DEF Refuse, TypeOK
  <2> QED
    BY <2>1, <2>2, <2>3 DEF IInv
<1>6. CASE Finish(p)
  <2> DEFINE after == IF ProbeResult(p) = "Healthy" THEN RecordSuccess(cb) ELSE RecordFailure(cb)
  <2>1. Sound(after) /\ ~after.halfOpenUsed
    BY <1>2, RecordSuccessSound, RecordFailureSound
  <2>2. /\ task[p] = "probing" /\ task' = [task EXCEPT ![p] = "update"]
        /\ breakers' = [breakers EXCEPT ![p[2]] = after]
        /\ probe' = [probe EXCEPT ![p] = FALSE]
        /\ status' = [status EXCEPT ![p] = ProbeResult(p)]
        /\ UNCHANGED <<environment, cache, events, cycling, listing, liveIDs, prev, history>>
    BY <1>6 DEF Finish
  <2> HIDE DEF after
  <2>3. TypeOK'
    <3>1. breakers' \in [IDs -> Breaker]
      BY <1>0, <2>1, <2>2, Zenon DEF TypeOK, Sound
    <3>2. ProbeResult(p) \in Status
      BY DEF ProbeResult, Status
    <3> QED
      BY <1>0, <2>2, <3>1, <3>2 DEF TypeOK, environment, events, history
  <2>4. Cycle'
    BY <1>0, <2>2 DEF Cycle, TypeOK, environment, events, history
  <2>5. /\ breakers'[p[2]] = after
        /\ \A i \in IDs \ {p[2]} : breakers'[i] = breakers[i]
        /\ \A q \in Placements \ {p} : task'[q] = task[q] /\ probe'[q] = probe[q]
    BY <1>0, <1>1, <2>2 DEF TypeOK
  <2>6. Gates'
    <3>1. \A i \in IDs : Sound(breakers'[i])
      BY <1>0, <2>1, <2>5 DEF Gates
    <3>2. ASSUME NEW i \in IDs, breakers'[i].halfOpenUsed
          PROVE  \E q \in Placements : q[2] = i /\ task'[q] = "probing" /\ probe'[q]
      <4>1. i # p[2]
        BY <2>1, <2>5, <3>2
      <4> QED
        BY <1>0, <2>5, <3>2, <4>1 DEF Gates, GateHeldByTask
    <3> QED
      BY <3>1, <3>2 DEF Gates, GateHeldByTask
  <2> QED
    BY <2>3, <2>4, <2>6 DEF IInv
<1>7. CASE ReadPrevious(p)
  <2>1. TypeOK'
    <3>1. (IF p[2] \in Cached THEN cache[p[2]] ELSE "Unknown") \in Status
      BY <1>0, <1>1 DEF TypeOK, Cached, Status
    <3> QED
      BY <1>0, <1>7, <3>1 DEF ReadPrevious, TypeOK, environment, events, history
  <2>2. Cycle'
    BY <1>0, <1>7 DEF ReadPrevious, Cycle, TypeOK, environment, events, history
  <2>3. Gates'
    BY <1>0, <1>7, GatesKept DEF ReadPrevious, TypeOK
  <2> QED
    BY <2>1, <2>2, <2>3 DEF IInv
<1>8. CASE Write(p)
  <2>1. /\ task[p] = "write" /\ cache' = [cache EXCEPT ![p[2]] = status[p]]
        /\ status[p] \in Status
        /\ UNCHANGED <<environment, breakers, events, cycling, listing, liveIDs, probe, history>>
        /\ task' = [task EXCEPT ![p] = "publish"] \/ task' = [task EXCEPT ![p] = "done"]
        /\ status' \in [Placements -> Status] /\ prev' \in [Placements -> Status]
    BY <1>0, <1>8 DEF Write, TaskDone, TypeOK, Status
  <2>2. TypeOK'
    BY <1>0, <2>1, Zenon DEF TypeOK, environment, events, history
  <2>3. cache'[p[2]] # "none" /\ \A i \in IDs : cache[i] # "none" => cache'[i] # "none"
    BY <1>0, <1>1, <2>1 DEF TypeOK, Status
  <2>4. \A q \in Placements : q # p => task'[q] = task[q]
    BY <1>0, <2>1 DEF TypeOK
  <2>5. Cycle'
    <3>1. liveIDs \subseteq IDs
      BY <1>0 DEF TypeOK
    <3>2. \A i \in liveIDs : \/ cache'[i] # "none"
                             \/ \E q \in Placements : q[2] = i /\ task'[q] # "done"
      BY <1>0, <2>3, <2>4, <3>1 DEF Cycle
    <3>3. \A q \in Placements : task'[q] = "publish" => cache'[q[2]] # "none"
      BY <1>0, <2>3, <2>4, PlacementParts DEF Cycle
    <3>4. cycling /\ p[1] \notin listing
      BY <1>0, <2>1 DEF Cycle
    <3> QED
      BY <1>0, <2>1, <2>4, <3>2, <3>3, <3>4 DEF Cycle, environment, events, history
  <2>6. Gates'
    BY <1>0, <2>1, <2>4, GatesKept
  <2> QED
    BY <2>2, <2>5, <2>6 DEF IInv
<1>9. CASE Publish(p)
  <2>1. /\ task[p] = "publish" /\ task' = [task EXCEPT ![p] = "done"]
        /\ UNCHANGED <<environment, breakers, cache, cycling, listing, liveIDs, probe, history>>
        /\ status' \in [Placements -> Status] /\ prev' \in [Placements -> Status]
        /\ heard' \in [IDs -> Status \cup {"none", "lost"}] /\ told' \subseteq IDs
    BY <1>0, <1>1, <1>9 DEF Publish, TaskDone, TypeOK, Status
  <2>2. TypeOK'
    BY <1>0, <2>1 DEF TypeOK, environment, history
  <2>3. Cycle'
    BY <1>0, <2>1 DEF Cycle, TypeOK, environment, history
  <2>4. Gates'
    BY <1>0, <2>1, GatesKept DEF TypeOK
  <2> QED
    BY <2>2, <2>3, <2>4 DEF IInv
<1> QED
  BY <1>4, <1>5, <1>6, <1>7, <1>8, <1>9 DEF Task

LEMMA WorkerStep ==
  ASSUME IInv, [Next]_vars
  PROVE  IInv'
<1>0. TypeOK /\ Cycle /\ Gates
  BY DEF IInv
<1>1. CASE Begin
  <2>1. TypeOK'
    BY <1>0, <1>1, PlacementParts DEF Begin, TypeOK, environment, events, locals, ServicesOf
  <2>2. Cycle'
    <3>1. \A p \in catalog : p[1] \in ServicesOf(catalog)
      BY DEF ServicesOf
    <3> QED
      BY <1>0, <1>1, <3>1 DEF Begin, Cycle, environment, events, locals
  <2>3. Gates'
    BY <1>0, <1>1, GatesKept DEF Begin, locals
  <2> QED
    BY <2>1, <2>2, <2>3 DEF IInv
<1>2. ASSUME NEW s \in Services, List(s)
      PROVE  IInv'
  <2> DEFINE instances == {p \in catalog : p[1] = s}
  <2>1. /\ s \in listing /\ listing' = listing \ {s}
        /\ liveIDs' = liveIDs \cup IDsOf(instances)
        /\ task' = [p \in Placements |-> IF p \in instances THEN "gate" ELSE task[p]]
        /\ UNCHANGED <<environment, breakers, cache, events, cycling, status, prev, probe, history>>
    BY <1>2 DEF List
  <2>2. cycling /\ instances \subseteq Placements /\ instances \subseteq present
    BY <1>0, <2>1 DEF Cycle, TypeOK
  <2>3. \A p \in instances : task[p] = "done"
    BY <1>0, <2>1, <2>2 DEF Cycle
  <2>4. TypeOK'
    <3>1. liveIDs' \subseteq IDs
      BY <1>0, <2>1, <2>2, PlacementParts DEF TypeOK, IDsOf
    <3> QED
      BY <1>0, <2>1, <3>1 DEF TypeOK, environment, events, history
  <2>5. Cycle'
    <3>1. liveIDs' \subseteq IDsOf(present)
      BY <1>0, <2>1, <2>2 DEF Cycle, IDsOf
    <3>2. \A p \in Placements : p[1] \in listing' => task'[p] = "done"
      BY <1>0, <2>1 DEF Cycle
    <3>3. \A p \in Placements : task'[p] = "publish" => cache[p[2]] # "none"
      BY <1>0, <2>1 DEF Cycle
    <3>4. \A p \in steady : p[1] \in failed \cup listing' \/ p[2] \in liveIDs'
      BY <1>0, <2>1 DEF Cycle, IDsOf
    <3>5. \A i \in liveIDs' : \/ cache[i] # "none"
                              \/ \E p \in Placements : p[2] = i /\ task'[p] # "done"
      <4>1. SUFFICES ASSUME NEW i \in liveIDs', cache[i] = "none"
                     PROVE  \E p \in Placements : p[2] = i /\ task'[p] # "done"
        OBVIOUS
      <4>2. CASE i \in liveIDs
        BY <1>0, <2>1, <2>3, <4>1, <4>2 DEF Cycle
      <4>3. CASE i \in IDsOf(instances)
        BY <2>1, <2>2, <4>3 DEF IDsOf
      <4> QED
        BY <2>1, <4>2, <4>3
    <3> HIDE DEF instances
    <3> QED
      BY <1>0, <2>1, <2>2, <3>1, <3>2, <3>3, <3>4, <3>5 DEF Cycle, environment, history
  <2>6. Gates'
    BY <1>0, <2>1, <2>3, GatesKept
  <2> QED
    BY <2>4, <2>5, <2>6 DEF IInv
<1>3. ASSUME NEW s \in Services, ListFails(s)
      PROVE  IInv'
  <2>1. TypeOK'
    BY <1>0, <1>3 DEF ListFails, TypeOK, environment, events, locals
  <2>2. Cycle'
    BY <1>0, <1>3 DEF ListFails, Cycle, environment, events, locals
  <2>3. Gates'
    BY <1>0, <1>3, GatesKept DEF ListFails, locals
  <2> QED
    BY <2>1, <2>2, <2>3 DEF IInv
<1>4. CASE Evict
  <2>1. TypeOK'
    BY <1>0, <1>4, Zenon DEF Evict, TypeOK, environment, locals
  <2>2. Cycle'
    BY <1>0, <1>4 DEF Evict, Cycle, environment, locals
  <2>3. Gates'
    BY <1>0, <1>4, GatesKept DEF Evict, locals
  <2> QED
    BY <2>1, <2>2, <2>3 DEF IInv
<1>5. ASSUME NEW p \in Placements, ConsulChanges(p)
      PROVE  IInv'
  <2>1. TypeOK'
    BY <1>0, <1>5 DEF ConsulChanges, TypeOK, events, locals
  <2>2. Cycle'
    <3>1. liveIDs \subseteq IDsOf(present')
      BY <1>0, <1>5 DEF ConsulChanges, Cycle, IDsOf
    <3> QED
      BY <1>0, <1>5, <3>1, Zenon DEF ConsulChanges, Cycle, events, locals
  <2>3. Gates'
    BY <1>0, <1>5, GatesKept DEF ConsulChanges, locals
  <2> QED
    BY <2>1, <2>2, <2>3 DEF IInv
<1>6. ASSUME ConsulOutage \/ \E i \in IDsOf(Placements \ Probeless) : InstanceFlips(i)
      PROVE  IInv'
  <2>1. /\ UNCHANGED <<catalog, breakers, cache, events, cycling, listing, liveIDs, locals, history>>
        /\ reachable' \in BOOLEAN
        /\ up' \subseteq IDs
    <3>1. IDsOf(Placements \ Probeless) \subseteq IDs
      BY PlacementParts DEF IDsOf
    <3> QED
      BY <1>0, <1>6, <3>1, Zenon DEF ConsulOutage, InstanceFlips, TypeOK
  <2>2. TypeOK'
    BY <1>0, <2>1 DEF TypeOK, events, locals, history
  <2>3. Cycle'
    BY <1>0, <2>1 DEF Cycle, locals, history
  <2>4. Gates'
    BY <1>0, <2>1, GatesKept DEF locals
  <2> QED
    BY <2>2, <2>3, <2>4 DEF IInv
<1>7. CASE Tick
  <2>1. /\ \A i \in IDs : breakers'[i] = Age(breakers[i])
        /\ breakers' = [i \in IDs |-> Age(breakers[i])]
        /\ UNCHANGED <<environment, cache, events, cycling, listing, liveIDs, locals, history>>
    BY <1>7 DEF Tick
  <2>2. \A i \in IDs : /\ Sound(breakers'[i])
                       /\ breakers'[i].halfOpenUsed = breakers[i].halfOpenUsed
    BY <1>0, <2>1, AgeSound DEF Gates
  <2>3. TypeOK'
    <3>1. breakers' \in [IDs -> Breaker]
      BY <2>1, <2>2 DEF Sound
    <3> QED
      BY <1>0, <2>1, <3>1 DEF TypeOK, environment, events, locals, history
  <2>4. Cycle'
    BY <1>0, <2>1 DEF Cycle, environment, locals, history
  <2>5. Gates'
    BY <1>0, <2>1, <2>2 DEF Gates, GateHeldByTask, locals
  <2> QED
    BY <2>3, <2>4, <2>5 DEF IInv
<1>8. CASE UNCHANGED vars
  <2>1. TypeOK'
    BY <1>0, <1>8 DEF vars, TypeOK, environment, events, locals, history
  <2>2. Cycle'
    BY <1>0, <1>8 DEF vars, Cycle, environment, locals, history
  <2>3. Gates'
    BY <1>0, <1>8, GatesKept DEF vars, locals
  <2> QED
    BY <2>1, <2>2, <2>3 DEF IInv
<1> QED
  BY <1>1, <1>2, <1>3, <1>4, <1>5, <1>6, <1>7, <1>8, TaskStep DEF Next, ProbeAll

LEMMA WorkerInvariant == Spec => []IInv
BY WorkerInit, WorkerStep, PTL DEF Spec

(***************************************************************************)
(* The variables of the worker, its cache and its breakers keep their      *)
(* types.                                                                  *)
(***************************************************************************)
THEOREM WorkerTypeCorrect == Spec => []TypeOK
<1>1. IInv => TypeOK
  BY DEF IInv
<1> QED
  BY <1>1, WorkerInvariant, PTL

(***************************************************************************)
(* The half-open gate of an instance's breaker is only ever shut while a   *)
(* probe of that instance is under way, also when several registrations    *)
(* share the ID and the breaker.                                           *)
(***************************************************************************)
THEOREM WorkerGates == Spec => []GateHeldByTask
<1>1. IInv => GateHeldByTask
  BY DEF IInv, Gates
<1> QED
  BY <1>1, WorkerInvariant, PTL

(***************************************************************************)
(* At the end of every cycle of probeAll the cache has an entry for each   *)
(* instance that was registered all the time, unless listing its service   *)
(* failed, and for none that was not registered at any time of the cycle.  *)
(***************************************************************************)
THEOREM WorkerCovers == Spec => CycleCoversRegistered
<1> DEFINE cached == {i \in IDs : cache'[i] # "none"}
           listed == {p \in steady : p[1] \notin failed}
           A == Evict => IDsOf(listed) \subseteq cached /\ cached \subseteq IDsOf(present)
<1>1. IInv => A
  <2> SUFFICES ASSUME IInv, Evict
               PROVE  IDsOf(listed) \subseteq cached /\ cached \subseteq IDsOf(present)
    OBVIOUS
  <2>0. TypeOK /\ Cycle
    BY DEF IInv
  <2>1. \A i \in IDs : cache'[i] = IF i \in liveIDs THEN cache[i] ELSE "none"
    BY DEF Evict
  <2>2. \A i \in liveIDs : i \in IDs /\ cache[i] # "none"
    BY <2>0 DEF Cycle, TypeOK, Evict
  <2>3. \A p \in listed : p[2] \in liveIDs
    BY <2>0 DEF Cycle, Evict
  <2>4. IDsOf(listed) \subseteq cached
    BY <2>1, <2>2, <2>3 DEF IDsOf
  <2>5. cached \subseteq IDsOf(present)
    BY <2>0, <2>1 DEF Cycle
  <2> QED
    BY <2>4, <2>5
<1>2. IInv /\ [Next]_vars => [A]_vars
  BY <1>1
<1>3. [][A]_vars => CycleCoversRegistered
  BY DEF CycleCoversRegistered
<1> QED
  BY <1>2, <1>3, WorkerInvariant, PTL DEF Spec
----------------------------------------------------------------------------
(* The cache, the breakers and the events, when no ID is shared.            *)

Unshared == \A p, q \in Placements : p[2] = q[2] => p = q

Busy(i, steps) == \E p \in Placements : p[2] = i /\ task[p] \in steps

Good(b) == b.state # "open" /\ b.failureCount = 0

\* A Healthy in the cache is backed by the breaker, or about to be overwritten;
\* a Healthy about to be written is backed by the breaker.
Views ==
  /\ \A i \in IDs :
       cache[i] = "Healthy" => Good(breakers[i]) \/ Busy(i, {"update", "write"})
  /\ \A p \in Placements :
       task[p] \in {"update", "write"} /\ status[p] = "Healthy" => Good(breakers[p[2]])

\* The last event is about the cached status, or the next is about to go out;
\* what updateStatus has read is still in the cache, and what it has written.
Told ==
  /\ told \subseteq Cached
  /\ \A i \in told \ IDsOf(Probeless) : heard[i] \in {cache[i], "lost"} \/ Busy(i, {"publish"})
  /\ \A i \in IDs \ IDsOf(Probeless) : cache[i] # "Unknown"
  /\ \A p \in Placements :
       /\ p[2] \notin IDsOf(Probeless) /\ task[p] \in {"update", "write", "publish"}
            => status[p] # "Unknown"
       /\ task[p] = "write" /\ cache[p[2]] # "none" => prev[p] = cache[p[2]]
       /\ task[p] = "publish" => cache[p[2]] = status[p]
LEMMA ViewsKept ==
  ASSUME Views,
         \A i \in IDs : /\ Good(breakers[i]) => Good(breakers'[i])
                        /\ cache'[i] = "Healthy" => cache[i] = "Healthy",
         \A p \in Placements :
           /\ task[p] \in {"update", "write"} => task'[p] \in {"update", "write"}
           /\ task'[p] \in {"update", "write"} =>
                task[p] \in {"update", "write"} /\ status'[p] = status[p]
  PROVE  Views'
<1>1. \A i \in IDs : Busy(i, {"update", "write"}) => Busy(i, {"update", "write"})'
  BY DEF Busy
<1>2. \A i \in IDs :
        cache'[i] = "Healthy" => Good(breakers'[i]) \/ Busy(i, {"update", "write"})'
  BY <1>1 DEF Views
<1>3. \A p \in Placements :
        task'[p] \in {"update", "write"} /\ status'[p] = "Healthy" => Good(breakers'[p[2]])
  BY PlacementParts DEF Views
<1> QED
  BY <1>2, <1>3 DEF Views

LEMMA ToldKept ==
  ASSUME Told, UNCHANGED <<cache, heard, told>>,
         \A p \in Placements :
           /\ task[p] = "publish" => task'[p] = "publish"
           /\ task'[p] \in {"update", "write", "publish"} =>
                task'[p] = task[p] /\ status'[p] = status[p] /\ prev'[p] = prev[p]
  PROVE  Told'
<1>1. \A i \in IDs : Busy(i, {"publish"}) => Busy(i, {"publish"})'
  BY DEF Busy
<1>2. \A i \in told \ IDsOf(Probeless) :
        heard'[i] \in {cache'[i], "lost"} \/ Busy(i, {"publish"})'
  BY <1>1 DEF Told, Cached
<1>3. Cached' = Cached
  BY DEF Cached
<1> QED
  BY <1>2, <1>3 DEF Told

\* RecordSuccess leaves nothing against the instance.
LEMMA SuccessGood ==
  ASSUME NEW b, Sound(b)
  PROVE  Good(RecordSuccess(b))
BY DEF Sound, Breaker, BreakerState, RecordSuccess, Good

\* Allow and the clock neither count a failure nor open a circuit.
LEMMA GoodKept ==
  ASSUME NEW b, Sound(b), Good(b)
  PROVE  Good(Allow(b)) /\ Good(Age(b))
BY DEF Sound, Breaker, BreakerState, Allow, Age, Good

LEMMA ViewsTask ==
  ASSUME Unshared, IInv, Views, NEW p \in Placements, Task(p)
  PROVE  Views'
<1>0. TypeOK /\ Gates /\ p[2] \in IDs
  BY PlacementParts DEF IInv
<1>1. Sound(breakers[p[2]])
  BY <1>0 DEF Gates
<1>2. \A q \in Placements : q # p => q[2] # p[2]
  BY DEF Unshared
<1>3. CASE Admit(p)
  <2>1. \A i \in IDs : Good(breakers[i]) => Good(breakers'[i])
    BY <1>0, <1>1, <1>3, GoodKept DEF Admit, TypeOK
  <2>2. UNCHANGED <<cache, status>> /\ task[p] = "gate" /\ task' = [task EXCEPT ![p] = "probing"]
    BY <1>3 DEF Admit
  <2> QED
    BY <1>0, <2>1, <2>2, ViewsKept DEF TypeOK
<1>4. CASE Refuse(p) \/ Finish(p)
  <2>1. /\ UNCHANGED cache
        /\ task' = [task EXCEPT ![p] = "update"] /\ task[p] \notin {"update", "write"}
        /\ \A i \in IDs : i # p[2] => breakers'[i] = breakers[i]
        /\ \A q \in Placements : q # p => status'[q] = status[q] /\ task'[q] = task[q]
        /\ task'[p] = "update"
    BY <1>0, <1>4 DEF Refuse, Finish, TypeOK
  <2>2. status'[p] = "Healthy" => Good(breakers'[p[2]])
    <3>1. CASE Refuse(p)
      BY <1>0, <3>1 DEF Refuse, TypeOK
    <3>2. CASE Finish(p)
      <4>1. /\ status'[p] = ProbeResult(p)
            /\ ProbeResult(p) = "Healthy" => breakers'[p[2]] = RecordSuccess(breakers[p[2]])
        BY <1>0, <3>2 DEF Finish, TypeOK
      <4> QED
        BY <1>1, <4>1, SuccessGood
    <3> QED
      BY <1>4, <3>1, <3>2
  <2>3. \A i \in IDs : /\ i = p[2] => Busy(i, {"update", "write"})'
                       /\ Busy(i, {"update", "write"}) => Busy(i, {"update", "write"})'
    BY <2>1 DEF Busy
  <2>4. \A i \in IDs :
          cache'[i] = "Healthy" => Good(breakers'[i]) \/ Busy(i, {"update", "write"})'
    BY <2>1, <2>3 DEF Views
  <2>5. \A q \in Placements :
          task'[q] \in {"update", "write"} /\ status'[q] = "Healthy" => Good(breakers'[q[2]])
    BY <1>2, <2>1, <2>2, PlacementParts DEF Views
  <2> QED
    BY <2>4, <2>5 DEF Views
<1>5. CASE ReadPrevious(p)
  BY <1>0, <1>5, ViewsKept DEF ReadPrevious, TypeOK
<1>6. CASE Write(p)
  <2>1. /\ UNCHANGED breakers /\ task[p] = "write"
        /\ cache'[p[2]] = status[p] /\ task'[p] \in {"publish", "done"}
        /\ \A i \in IDs : i # p[2] => cache'[i] = cache[i]
        /\ \A q \in Placements : q # p => status'[q] = status[q] /\ task'[q] = task[q]
    BY <1>0, <1>6 DEF Write, TaskDone, TypeOK
  <2>2. \A i \in IDs \ {p[2]} : Busy(i, {"update", "write"}) => Busy(i, {"update", "write"})'
    BY <2>1 DEF Busy
  <2>3. \A i \in IDs :
          cache'[i] = "Healthy" => Good(breakers'[i]) \/ Busy(i, {"update", "write"})'
    BY <2>1, <2>2 DEF Views
  <2>4. \A q \in Placements :
          task'[q] \in {"update", "write"} /\ status'[q] = "Healthy" => Good(breakers'[q[2]])
    BY <2>1 DEF Views
  <2> QED
    BY <2>3, <2>4 DEF Views
<1>7. CASE Publish(p)
  <2>1. /\ UNCHANGED <<breakers, cache>> /\ task[p] = "publish" /\ task'[p] = "done"
        /\ \A q \in Placements : q # p => status'[q] = status[q] /\ task'[q] = task[q]
    BY <1>0, <1>7 DEF Publish, TaskDone, TypeOK
  <2> QED
    BY <2>1, ViewsKept
<1> QED
  BY <1>3, <1>4, <1>5, <1>6, <1>7 DEF Task
LEMMA ToldTask ==
  ASSUME Unshared, IInv, Told, NEW p \in Placements, Task(p)
  PROVE  Told'
<1>0. TypeOK /\ Cycle /\ p[2] \in IDs
  BY PlacementParts DEF IInv
<1>1. \A q \in Placements : q # p => q[2] # p[2]
  BY DEF Unshared
<1>2. CASE Admit(p)
  BY <1>0, <1>2, ToldKept DEF Admit, TypeOK, events
<1>3. CASE Refuse(p) \/ Finish(p)
  <2>1. /\ UNCHANGED <<cache, heard, told, prev>>
        /\ task'[p] = "update" /\ task[p] # "publish"
        /\ \A q \in Placements : q # p => status'[q] = status[q] /\ task'[q] = task[q]
    BY <1>0, <1>3 DEF Refuse, Finish, TypeOK, events
  <2>2. p[2] \notin IDsOf(Probeless) => status'[p] # "Unknown"
    <3>1. p \in Probeless => p[2] \in IDsOf(Probeless)
      BY DEF IDsOf
    <3> QED
      BY <1>0, <1>3, <3>1 DEF Refuse, Finish, ProbeResult, TypeOK
  <2>3. \A i \in IDs : Busy(i, {"publish"}) => Busy(i, {"publish"})'
    BY <2>1 DEF Busy
  <2>4. Cached' = Cached
    BY <2>1 DEF Cached
  <2>5. \A i \in told \ IDsOf(Probeless) :
          heard'[i] \in {cache'[i], "lost"} \/ Busy(i, {"publish"})'
    BY <2>1, <2>3 DEF Told, Cached
  <2> QED
    BY <2>1, <2>2, <2>4, <2>5, Zenon DEF Told
<1>4. CASE ReadPrevious(p)
  <2>1. /\ UNCHANGED <<cache, heard, told, status>>
        /\ task'[p] = "write" /\ task[p] = "update"
        /\ cache[p[2]] # "none" => prev'[p] = cache[p[2]]
        /\ \A q \in Placements : q # p => prev'[q] = prev[q] /\ task'[q] = task[q]
    BY <1>0, <1>4 DEF ReadPrevious, TypeOK, events, Cached
  <2>2. \A i \in IDs : Busy(i, {"publish"}) => Busy(i, {"publish"})'
    BY <2>1 DEF Busy
  <2>3. Cached' = Cached
    BY <2>1 DEF Cached
  <2>4. \A i \in told \ IDsOf(Probeless) :
          heard'[i] \in {cache'[i], "lost"} \/ Busy(i, {"publish"})'
    BY <2>1, <2>2, Zenon DEF Told, Cached
  <2> QED
    BY <2>1, <2>3, <2>4 DEF Told
<1>5. CASE Write(p)
  <2>1. /\ UNCHANGED <<heard, told>> /\ task[p] = "write"
        /\ cache'[p[2]] = status[p] /\ status[p] \in Status
        /\ Transitioned(p) => task'[p] = "publish" /\ status'[p] = status[p]
        /\ ~Transitioned(p) => task'[p] = "done"
        /\ \A i \in IDs : i # p[2] => cache'[i] = cache[i]
        /\ \A q \in Placements : q # p => /\ status'[q] = status[q]
                                          /\ prev'[q] = prev[q]
                                          /\ task'[q] = task[q]
    BY <1>0, <1>5 DEF Write, TaskDone, TypeOK, events
  <2>2. told \subseteq Cached'
    BY <2>1, Zenon DEF Told, Cached, Status
  <2>3. ASSUME NEW i \in told \ IDsOf(Probeless)
        PROVE  heard'[i] \in {cache'[i], "lost"} \/ Busy(i, {"publish"})'
    <3>1. i \in IDs /\ cache[i] # "none" /\ cache[i] # "Unknown"
      BY <2>3 DEF Told, Cached
    <3>2. CASE i # p[2]
      <4>1. Busy(i, {"publish"}) => Busy(i, {"publish"})'
        BY <2>1, <3>2 DEF Busy
      <4> QED
        BY <2>1, <2>3, <3>1, <3>2, <4>1 DEF Told
    <3>3. CASE i = p[2] /\ Transitioned(p)
      BY <2>1, <3>3 DEF Busy
    <3>4. CASE i = p[2] /\ ~Transitioned(p)
      <4>1. prev[p] = cache[i]
        BY <2>1, <3>1, <3>4 DEF Told
      <4>2. cache'[i] = cache[i]
        BY <2>1, <3>1, <3>4, <4>1 DEF Transitioned
      <4>3. ~Busy(i, {"publish"})
        BY <1>1, <2>1, <3>4 DEF Busy
      <4> QED
        BY <2>1, <2>3, <4>2, <4>3 DEF Told
    <3> QED
      BY <3>2, <3>3, <3>4
  <2>4. \A i \in IDs \ IDsOf(Probeless) : cache'[i] # "Unknown"
    BY <2>1 DEF Told
  <2>5. \A q \in Placements :
          /\ q[2] \notin IDsOf(Probeless) /\ task'[q] \in {"update", "write", "publish"}
               => status'[q] # "Unknown"
          /\ task'[q] = "write" /\ cache'[q[2]] # "none" => prev'[q] = cache'[q[2]]
          /\ task'[q] = "publish" => cache'[q[2]] = status'[q]
    BY <1>1, <2>1, PlacementParts DEF Told
  <2> QED
    BY <2>1, <2>2, <2>3, <2>4, <2>5 DEF Told
<1>6. CASE Publish(p)
  <2>1. /\ UNCHANGED cache /\ task[p] = "publish" /\ task'[p] = "done"
        /\ heard'[p[2]] \in {status[p], "lost"} /\ told' = told \cup {p[2]}
        /\ \A i \in IDs : i # p[2] => heard'[i] = heard[i]
        /\ \A q \in Placements : q # p => /\ status'[q] = status[q]
                                          /\ prev'[q] = prev[q]
                                          /\ task'[q] = task[q]
    BY <1>0, <1>6 DEF Publish, TaskDone, TypeOK
  <2>2. told' \subseteq Cached'
    <3>1. p[2] \in Cached
      BY <1>0, <2>1 DEF Cached, Cycle
    <3>2. Cached' = Cached
      BY <2>1 DEF Cached
    <3> QED
      BY <2>1, <3>1, <3>2, Zenon DEF Told
  <2>3. ASSUME NEW i \in told' \ IDsOf(Probeless)
        PROVE  heard'[i] \in {cache'[i], "lost"} \/ Busy(i, {"publish"})'
    <3>1. CASE i = p[2]
      BY <2>1, <3>1 DEF Told
    <3>2. CASE i # p[2]
      <4>1. i \in told \ IDsOf(Probeless) /\ i \in IDs
        BY <2>1, <2>3, <3>2 DEF Told, Cached
      <4>2. Busy(i, {"publish"}) => Busy(i, {"publish"})'
        BY <2>1, <3>2 DEF Busy
      <4> QED
        BY <2>1, <3>2, <4>1, <4>2 DEF Told
    <3> QED
      BY <3>1, <3>2
  <2> QED
    BY <2>1, <2>2, <2>3 DEF Told
<1> QED
  BY <1>2, <1>3, <1>4, <1>5, <1>6 DEF Task

LEMMA AgreementStep ==
  ASSUME Unshared, IInv, Views, Told, [Next]_vars
  PROVE  Views' /\ Told'
<1>0. TypeOK /\ Cycle /\ Gates
  BY DEF IInv
<1>1. CASE Begin
  BY <1>1, ViewsKept, ToldKept DEF Begin, events, locals
<1>2. ASSUME NEW s \in Services, List(s)
      PROVE  Views' /\ Told'
  <2>1. /\ UNCHANGED <<breakers, cache, heard, told, status, prev>>
        /\ \A p \in Placements : task'[p] = task[p] \/ (task[p] = "done" /\ task'[p] = "gate")
    BY <1>0, <1>2 DEF List, events, Cycle
  <2> QED
    BY <2>1, ViewsKept, ToldKept
<1>3. ASSUME NEW s \in Services, ListFails(s)
      PROVE  Views' /\ Told'
  BY <1>3, ViewsKept, ToldKept DEF ListFails, events, locals
<1>4. CASE Evict
  <2>1. /\ UNCHANGED <<breakers, heard, task, status, prev>>
        /\ \A p \in Placements : task[p] = "done"
        /\ told' = told \cap liveIDs
        /\ \A i \in IDs : cache'[i] = IF i \in liveIDs THEN cache[i] ELSE "none"
    BY <1>4 DEF Evict, locals
  <2>2. Views'
    BY <2>1, ViewsKept
  <2>3. Told'
    <3>1. told' \subseteq Cached'
      BY <2>1 DEF Told, Cached
    <3>2. \A i \in IDs : ~Busy(i, {"publish"})
      BY <2>1 DEF Busy
    <3>3. \A i \in told' \ IDsOf(Probeless) : heard'[i] \in {cache'[i], "lost"}
      BY <2>1, <3>2 DEF Told, Cached
    <3> QED
      BY <2>1, <3>1, <3>3 DEF Told
  <2> QED
    BY <2>2, <2>3
<1>5. ASSUME \/ \E p \in Placements : ConsulChanges(p)
             \/ ConsulOutage
             \/ \E i \in IDsOf(Placements \ Probeless) : InstanceFlips(i)
             \/ UNCHANGED vars
      PROVE  Views' /\ Told'
  <2>1. UNCHANGED <<breakers, cache, heard, told, task, status, prev>>
    BY <1>5 DEF ConsulChanges, ConsulOutage, InstanceFlips, vars, events, locals
  <2> QED
    BY <2>1, ViewsKept, ToldKept
<1>6. CASE Tick
  <2>1. /\ UNCHANGED <<cache, heard, told, task, status, prev>>
        /\ \A i \in IDs : breakers'[i] = Age(breakers[i])
    BY <1>6 DEF Tick, events, locals
  <2>2. \A i \in IDs : Good(breakers[i]) => Good(breakers'[i])
    BY <1>0, <2>1, GoodKept DEF Gates
  <2> QED
    BY <2>1, <2>2, ViewsKept, ToldKept, Zenon
<1> QED
  BY <1>1, <1>2, <1>3, <1>4, <1>5, <1>6, ViewsTask, ToldTask DEF Next, ProbeAll

LEMMA Agreement == ASSUME Unshared PROVE Spec => [](IInv /\ Views /\ Told)
<1>1. Init => Views /\ Told
  BY DEF Init, Views, Told, Cached
<1>2. IInv /\ Views /\ Told /\ [Next]_vars => (Views /\ Told)'
  BY AgreementStep
<1> QED
  BY <1>1, <1>2, WorkerInvariant, PTL DEF Spec

(***************************************************************************)
(* When no two registrations share an ID, an instance that the cache calls *)
(* Healthy between cycles has a breaker that is not open and has counted   *)
(* no failure.                                                             *)
(***************************************************************************)
THEOREM CacheAgrees == ASSUME Unshared PROVE Spec => []CacheMatchesBreaker
<1>1. IInv /\ Views => CacheMatchesBreaker
  BY DEF IInv, Cycle, Views, Busy, Good, Cached, CacheMatchesBreaker
<1> QED
  BY <1>1, Agreement, PTL

(***************************************************************************)
(* When no two registrations share an ID, the last event about an instance *)
(* with a probe, if it was not lost, carries the status that the cache     *)
(* has between cycles, as long as the instance stays cached.               *)
(***************************************************************************)
THEOREM EventsKeepUp == ASSUME Unshared PROVE Spec => []EventsFollowCache
<1>1. IInv /\ Told => EventsFollowCache
  BY DEF IInv, Cycle, Told, Busy, EventsFollowCache
<1> QED
  BY <1>1, Agreement, PTL

----------------------------------------------------------------------------
(* When no two registrations share an ID, every breaker keeps to the state   *)
(* machine that breaker.go documents.                                        *)

\* No probe is out while the circuit that admitted it is open.
Fresh == \A p \in Placements : task[p] = "probing" => breakers[p[2]].state # "open"

\* A recorded success is Succeed, Win or Close of the documented state machine.
LEMMA SuccessKeepsContract ==
  ASSUME NEW i \in IDs, Sound(breakers[i]), breakers[i].state # "open",
         breakers'[i] = RecordSuccess(breakers[i])
  PROVE  Documented(i)!CNext
<1> USE EffectiveRecoveryPositive, FailureThresholdPositive
<1> DEFINE cb == breakers[i]
           new == breakers'[i]
<1>1. CASE cb.state = "closed"
  <2>1. new.state = "closed" /\ new.failureCount = 0 /\ new.recoveryCount = cb.recoveryCount
    BY <1>1 DEF RecordSuccess, Sound, Breaker
  <2> QED BY <1>1, <2>1 DEF Documented!CNext, Documented!Succeed
<1>2. CASE cb.state = "half-open" /\ cb.recoveryCount + 1 >= EffectiveRecovery
  <2>1. new.state = "closed" /\ new.failureCount = 0 /\ new.recoveryCount = 0
    BY <1>2 DEF RecordSuccess
  <2>2. cb.recoveryCount + 1 = EffectiveRecovery
    BY <1>2 DEF Sound, Breaker
  <2> QED BY <1>2, <2>1, <2>2 DEF Documented!CNext, Documented!Close, Documented!Enter
<1>3. CASE cb.state = "half-open" /\ ~(cb.recoveryCount + 1 >= EffectiveRecovery)
  <2>1. new.state = "half-open" /\ new.recoveryCount = cb.recoveryCount + 1
    BY <1>3 DEF RecordSuccess
  <2>2. cb.recoveryCount + 1 < EffectiveRecovery
    BY <1>3 DEF Sound, Breaker
  <2> QED BY <1>3, <2>1, <2>2 DEF Documented!CNext, Documented!Win
<1> QED BY <1>1, <1>2, <1>3 DEF Sound, Breaker, BreakerState

\* A recorded failure is Fail, Trip or Reopen of the documented state machine.
LEMMA FailureKeepsContract ==
  ASSUME NEW i \in IDs, Sound(breakers[i]), breakers[i].state # "open",
         breakers'[i] = RecordFailure(breakers[i])
  PROVE  Documented(i)!CNext
<1> USE FailureThresholdPositive, BreakDurationPositive
<1> DEFINE cb == breakers[i]
           new == breakers'[i]
<1>1. CASE cb.state = "half-open"
  <2>1. new.state = "open" /\ new.recoveryCount = 0 /\ new.openFor = 0
    BY <1>1, SMTT(30) DEF RecordFailure
  <2>2. ~Elapsed(new)
    BY <2>1 DEF Elapsed
  <2>3. Documented(i)!Reopen
    BY <1>1, <2>1, <2>2, SMTT(30) DEF Documented!Reopen, Documented!Enter
  <2> QED
    BY <2>3 DEF Documented!CNext
<1>2. CASE cb.state = "closed" /\ cb.failureCount + 1 = FailureThreshold
  <2>1. Saturate(cb.failureCount, FailureThreshold) = FailureThreshold
    BY <1>2 DEF Saturate, Sound, Breaker
  <2>2. new.state = "open" /\ new.recoveryCount = 0 /\ new.openFor = 0
    BY <1>2, <2>1 DEF RecordFailure
  <2> QED
    BY <1>2, <2>2 DEF Documented!CNext, Documented!Trip, Documented!Enter, Elapsed
<1>3. CASE cb.state = "closed" /\ cb.failureCount + 1 # FailureThreshold
  <2>1. cb.failureCount + 1 < FailureThreshold /\ cb.recoveryCount = 0
    BY <1>3 DEF Sound, Breaker
  <2>2. Saturate(cb.failureCount, FailureThreshold) = cb.failureCount + 1
    BY <2>1 DEF Saturate, Sound, Breaker
  <2>3. ~(Saturate(cb.failureCount, FailureThreshold) >= FailureThreshold)
    BY <2>1, <2>2 DEF Sound, Breaker
  <2>4. /\ new.state = "closed" /\ new.failureCount = cb.failureCount + 1
        /\ new.recoveryCount = 0
    BY <1>3, <2>2, <2>3 DEF RecordFailure
  <2> QED BY <1>3, <2>1, <2>4 DEF Documented!CNext, Documented!Fail
<1> QED BY <1>1, <1>2, <1>3 DEF Sound, Breaker, BreakerState

\* An admitted probe is TryAgain, or nothing the documented state machine sees.
LEMMA AdmissionKeepsContract ==
  ASSUME NEW i \in IDs, Sound(breakers[i]), Allows(breakers[i]),
         breakers'[i] = Allow(breakers[i])
  PROVE  Documented(i)!CNext \/ UNCHANGED Documented(i)!cvars
<1> DEFINE cb == breakers[i]
           new == breakers'[i]
<1>1. CASE cb.state = "open"
  <2>1. new.state = "half-open" /\ new.recoveryCount = 0 /\ Elapsed(cb)
    BY <1>1 DEF Allow, Allows, Sound, Breaker
  <2> QED
    BY <1>1, <2>1 DEF Documented!CNext, Documented!TryAgain, Documented!Enter
<1>2. CASE cb.state # "open"
  <2>1. /\ new.state = cb.state /\ new.recoveryCount = cb.recoveryCount
        /\ new.failureCount = cb.failureCount
    BY <1>2 DEF Allow, Allows, Sound, Breaker
  <2> QED BY <1>2, <2>1 DEF Documented!cvars
<1> QED BY <1>1, <1>2

\* The clock is CoolDown, or nothing the documented state machine sees.
LEMMA ClockKeepsContract ==
  ASSUME NEW i \in IDs, Sound(breakers[i]), breakers'[i] = Age(breakers[i])
  PROVE  Documented(i)!CNext \/ UNCHANGED Documented(i)!cvars
<1>1. CASE breakers[i].state = "open"
  <2>1. /\ breakers'[i].state = "open"
        /\ breakers'[i].recoveryCount = breakers[i].recoveryCount
        /\ Elapsed(breakers[i]) => Elapsed(breakers'[i])
    BY <1>1, BreakDurationPositive DEF Age, Saturate, Elapsed, Sound, Breaker
  <2> QED
    BY <1>1, <2>1 DEF Documented!CNext, Documented!CoolDown, Documented!cvars
<1>2. CASE breakers[i].state # "open"
  BY <1>2 DEF Age, Documented!cvars
<1> QED BY <1>1, <1>2

\* Every step keeps Fresh and is, for every ID, a step of the documented state
\* machine or none.
LEMMA ContractStep ==
  ASSUME Unshared, IInv, Fresh, [Next]_vars
  PROVE  /\ Fresh'
         /\ \A i \in IDs : [Documented(i)!CNext]_(Documented(i)!cvars)
<1> DEFINE Kept(i) == Documented(i)!CNext \/ UNCHANGED Documented(i)!cvars
<1>0. TypeOK /\ Cycle /\ (\A i \in IDs : Sound(breakers[i]))
  BY DEF IInv, Gates
<1>a. ASSUME NEW i \in IDs, breakers'[i] = breakers[i]
      PROVE  Kept(i)
  BY <1>a DEF Documented!cvars
<1>b. ASSUME UNCHANGED breakers,
             \A p \in Placements : task'[p] = "probing" => task[p] = "probing"
      PROVE  Fresh' /\ \A i \in IDs : Kept(i)
  BY <1>a, <1>b DEF Fresh
<1>1. ASSUME NEW p \in Placements, Admit(p)
      PROVE  Fresh' /\ \A i \in IDs : Kept(i)
  <2>1. /\ p[2] \in IDs
        /\ breakers'[p[2]] = Allow(breakers[p[2]])
        /\ \A i \in IDs : i # p[2] => breakers'[i] = breakers[i]
        /\ \A q \in Placements : q # p => task'[q] = task[q]
    BY <1>0, <1>1, PlacementParts DEF Admit, TypeOK
  <2>2. Sound(breakers[p[2]]) /\ Allows(breakers[p[2]])
    BY <1>0, <1>1, <2>1 DEF Admit
  <2>3. breakers'[p[2]].state # "open"
    BY <2>1, <2>2, AllowSound
  <2>4. Kept(p[2])
    BY <2>1, <2>2, AdmissionKeepsContract, Zenon
  <2>5. Fresh'
    BY <2>1, <2>3, PlacementParts DEF Fresh
  <2> QED BY <1>a, <2>1, <2>4, <2>5
<1>2. ASSUME NEW p \in Placements, Finish(p)
      PROVE  Fresh' /\ \A i \in IDs : Kept(i)
  <2>1. /\ p[2] \in IDs /\ task[p] = "probing" /\ task'[p] = "update"
        /\ breakers'[p[2]] \in {RecordSuccess(breakers[p[2]]), RecordFailure(breakers[p[2]])}
        /\ \A i \in IDs : i # p[2] => breakers'[i] = breakers[i]
        /\ \A q \in Placements : q # p => task'[q] = task[q]
    BY <1>0, <1>2, PlacementParts DEF Finish, TypeOK
  <2>2. breakers[p[2]].state # "open"
    BY <2>1 DEF Fresh
  <2>3. Kept(p[2])
    BY <1>0, <2>1, <2>2, SuccessKeepsContract, FailureKeepsContract
  <2>4. \A q \in Placements : q # p => q[2] # p[2]
    BY DEF Unshared
  <2>5. Fresh'
    BY <2>1, <2>4, PlacementParts DEF Fresh
  <2> QED BY <1>a, <2>1, <2>3, <2>5
<1>3. ASSUME NEW p \in Placements, Refuse(p) \/ ReadPrevious(p) \/ Write(p) \/ Publish(p)
      PROVE  Fresh' /\ \A i \in IDs : Kept(i)
  <2>1. UNCHANGED breakers /\ task'[p] # "probing"
    BY <1>0, <1>3 DEF Refuse, ReadPrevious, Write, Publish, TaskDone, TypeOK
  <2>2. \A q \in Placements : q # p => task'[q] = task[q]
    BY <1>0, <1>3 DEF Refuse, ReadPrevious, Write, Publish, TaskDone, TypeOK
  <2> QED BY <1>b, <2>1, <2>2
<1>4. ASSUME NEW s \in Services, List(s) \/ ListFails(s)
      PROVE  Fresh' /\ \A i \in IDs : Kept(i)
  <2>1. UNCHANGED breakers
    BY <1>4 DEF List, ListFails
  <2>2. \A p \in Placements : task'[p] = "probing" => task[p] = "probing"
    BY <1>4 DEF List, ListFails, locals
  <2> QED BY <1>b, <2>1, <2>2
<1>5. CASE Begin \/ Evict
  BY <1>5, <1>b DEF Begin, Evict, locals
<1>6. ASSUME NEW p \in Placements, ConsulChanges(p)
      PROVE  Fresh' /\ \A i \in IDs : Kept(i)
  BY <1>6, <1>b DEF ConsulChanges, locals
<1>7. CASE ConsulOutage \/ (\E i \in IDsOf(Placements \ Probeless) : InstanceFlips(i))
  BY <1>7, <1>b DEF ConsulOutage, InstanceFlips, locals
<1>8. CASE Tick
  <2>1. UNCHANGED task /\ \A i \in IDs : breakers'[i] = Age(breakers[i])
    BY <1>8 DEF Tick, locals
  <2>2. Fresh'
    BY <1>0, <2>1, AgeSound, PlacementParts DEF Fresh
  <2> QED BY <1>0, <2>1, <2>2, ClockKeepsContract
<1>9. CASE UNCHANGED vars
  BY <1>9, <1>b DEF vars, locals
<1>10. CASE ProbeAll
  <2>1. CASE Begin \/ Evict \/ \E s \in Services : List(s) \/ ListFails(s)
    BY <1>4, <1>5, <2>1
  <2>2. ASSUME NEW p \in Placements, Task(p)
        PROVE  Fresh' /\ \A i \in IDs : Kept(i)
    BY <1>1, <1>2, <1>3, <2>2 DEF Task
  <2> QED BY <1>10, <2>1, <2>2 DEF ProbeAll
<1>11. Fresh' /\ \A i \in IDs : Kept(i)
  BY <1>6, <1>7, <1>8, <1>9, <1>10, Zenon DEF Next
<1> QED BY <1>11

(***************************************************************************)
(* When no two registrations share an ID, the worker never has a result    *)
(* outstanding in an open circuit, and every breaker of it implements the  *)
(* state machine that breaker.go documents, for any registrations,         *)
(* thresholds and break.                                                   *)
(***************************************************************************)
THEOREM WorkerKeepsContract == ASSUME Unshared PROVE Spec => BreakersKeepContract
<1>1. Init => Fresh /\ \A i \in IDs : Documented(i)!CInit
  BY BreakDurationPositive DEF Init, Fresh, NewBreaker, Documented!CInit, Elapsed
<1>2. IInv /\ Fresh /\ [Next]_vars =>
        Fresh' /\ [\A i \in IDs : [Documented(i)!CNext]_(Documented(i)!cvars)]_breakers
  BY ContractStep
<1> QED
  BY <1>1, <1>2, WorkerInvariant, PTL DEF Spec, BreakersKeepContract
=============================================================================
