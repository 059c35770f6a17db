----------------------------- MODULE HealthWorker -----------------------------
(***************************************************************************)
(* The probe worker of the health monitor (internal/healthmonitor/         *)
(* worker.go) with its status cache (cache.go) and its per-instance        *)
(* breakers.  probeAll lists the services, starts a goroutine per service  *)
(* that lists the instances, starts a goroutine per instance that probes   *)
(* it and updates the cache, waits for all of them, and evicts the cache   *)
(* entries of IDs no listing returned.                                     *)
(*                                                                         *)
(* A registration is a pair <<service, ID>>.  Consul keeps IDs apart per   *)
(* node only, so two services may hold the same ID; the cache and the      *)
(* breakers are keyed by the ID alone.                                     *)
(***************************************************************************)
EXTENDS BreakerOps

CONSTANTS
  IDs,          \* service IDs
  Services,
  Placements,   \* the registrations that may occur, a set of <<service, ID>>
  Probeless     \* those without health_check_endpoint and tcp_port metadata

ASSUME PlacementsTyped == Placements \subseteq Services \X IDs /\ Probeless \subseteq Placements

Status == {"Healthy", "Unhealthy", "Unknown"}

VARIABLES
  catalog,      \* Consul: the current registrations
  reachable,    \* whether Consul answers queries
  up,           \* the IDs whose instance answers its probe
  breakers,     \* w.breakers, with the breaker getBreaker would create where none is
  cache,        \* the status in the cache, "none" for an ID without an entry
  heard,        \* CurrentStatus of the last event published for the ID: "none" before
                \*   one, "lost" when its publication failed
  told,         \* IDs with an event since their cache entry was made (history)
  cycling,      \* probeAll is running
  listing,      \* the services whose goroutine has still to list its instances
  liveIDs,
  task,         \* per registration, where its goroutine is; "done" when there is none
  status,       \* its probe's result
  prev,         \* its previousStatus
  probe,        \* it was admitted in half-open (history)
  steady,       \* registrations present at every instant since probeAll began (history)
  present,      \* registrations present at some instant since probeAll began (history)
  failed        \* services whose listing failed in this cycle (history)

locals == <<task, status, prev, probe>>
history == <<steady, present, failed>>
events == <<heard, told>>
environment == <<catalog, reachable, up>>
vars == <<environment, breakers, cache, events, cycling, listing, liveIDs, locals, history>>

ServicesOf(regs) == {p[1] : p \in regs}
IDsOf(regs) == {p[2] : p \in regs}
Cached == {i \in IDs : cache[i] # "none"}

Init ==
  /\ catalog = {}
  /\ reachable = TRUE
  /\ up = {}
  /\ breakers = [i \in IDs |-> NewBreaker]
  /\ cache = [i \in IDs |-> "none"]
  /\ heard = [i \in IDs |-> "none"]
  /\ told = {}
  /\ cycling = FALSE
  /\ listing = {} /\ liveIDs = {}
  /\ task = [p \in Placements |-> "done"]
  /\ status = [p \in Placements |-> "Unknown"]
  /\ prev = [p \in Placements |-> "Unknown"]
  /\ probe = [p \in Placements |-> FALSE]
  /\ steady = {} /\ present = {} /\ failed = {}

----------------------------------------------------------------------------
\* probeAll on a tick: GetServices.  When it fails probeAll returns at once and
\* nothing changes.
Begin ==
  /\ ~cycling
  /\ reachable
  /\ cycling' = TRUE
  /\ listing' = ServicesOf(catalog)
  /\ steady' = catalog /\ present' = catalog
  /\ UNCHANGED <<environment, breakers, cache, events, liveIDs, locals, failed>>

\* The goroutine of service s: GetInstances, its IDs into liveIDs, and one
\* goroutine per instance.
List(s) ==
  LET instances == {p \in catalog : p[1] = s} IN
  /\ s \in listing
  /\ reachable
  /\ listing' = listing \ {s}
  /\ liveIDs' = liveIDs \cup IDsOf(instances)
  /\ task' = [p \in Placements |-> IF p \in instances THEN "gate" ELSE task[p]]
  /\ UNCHANGED <<environment, breakers, cache, events, cycling, status, prev, probe, history>>

\* GetInstances fails: the goroutine returns.
ListFails(s) ==
  /\ s \in listing
  /\ ~reachable
  /\ listing' = listing \ {s}
  /\ failed' = failed \cup {s}
  /\ UNCHANGED <<environment, breakers, cache, events, cycling, liveIDs, locals,
                 steady, present>>

\* Mutant of Admit: the first probe after a failure does not wait for the break.
AdmitEarly(p) ==
  LET cb == breakers[p[2]] IN
  /\ task[p] = "gate"
  /\ Allows(cb) \/ cb.state = "open"
  /\ breakers' = [breakers EXCEPT ![p[2]] = Allow(cb)]
  /\ probe' = [probe EXCEPT ![p] = cb.state # "closed"]
  /\ task' = [task EXCEPT ![p] = "probing"]
  /\ UNCHANGED <<environment, cache, events, cycling, listing, liveIDs, status, prev, history>>

\* probeInstance: Allow returns true and the probe starts.
Admit(p) ==
  LET cb == breakers[p[2]] IN
  /\ task[p] = "gate"
  /\ Allows(cb)
  /\ breakers' = [breakers EXCEPT ![p[2]] = Allow(cb)]
  /\ probe' = [probe EXCEPT ![p] = cb.state # "closed"]
  /\ task' = [task EXCEPT ![p] = "probing"]
  /\ UNCHANGED <<environment, cache, events, cycling, listing, liveIDs, status, prev, history>>

\* Mutant of Refuse: a refused instance is not written to the cache.
RefuseSkips(p) ==
  /\ task[p] = "gate"
  /\ ~Allows(breakers[p[2]])
  /\ task' = [task EXCEPT ![p] = "done"]
  /\ UNCHANGED <<environment, breakers, cache, events, cycling, listing, liveIDs,
                 status, prev, probe, history>>

\* probeInstance: Allow returns false, and the status is Unhealthy without a probe.
Refuse(p) ==
  /\ task[p] = "gate"
  /\ ~Allows(breakers[p[2]])
  /\ status' = [status EXCEPT ![p] = "Unhealthy"]
  /\ task' = [task EXCEPT ![p] = "update"]
  /\ UNCHANGED <<environment, breakers, cache, events, cycling, listing, liveIDs,
                 prev, probe, history>>

\* runProbes: the HTTP probe, else the TCP probe, else Unknown.
ProbeResult(p) ==
  IF p \in Probeless THEN "Unknown" ELSE IF p[2] \in up THEN "Healthy" ELSE "Unhealthy"

\* Mutant of Finish: a success is not recorded while the circuit is closed.
FinishForgetsSuccess(p) ==
  LET result == ProbeResult(p) IN
  /\ task[p] = "probing"
  /\ breakers' = [breakers EXCEPT ![p[2]] =
       IF result # "Healthy" THEN RecordFailure(@)
       ELSE IF @.state = "closed" THEN @ ELSE RecordSuccess(@)]
  /\ status' = [status EXCEPT ![p] = result]
  /\ probe' = [probe EXCEPT ![p] = FALSE]
  /\ task' = [task EXCEPT ![p] = "update"]
  /\ UNCHANGED <<environment, cache, events, cycling, listing, liveIDs, prev, history>>

\* The probe returns, by its timeout at the latest, and is recorded: anything but
\* Healthy is a failure.
Finish(p) ==
  LET result == ProbeResult(p) IN
  /\ task[p] = "probing"
  /\ breakers' = [breakers EXCEPT ![p[2]] =
       IF result = "Healthy" THEN RecordSuccess(@) ELSE RecordFailure(@)]
  /\ status' = [status EXCEPT ![p] = result]
  /\ probe' = [probe EXCEPT ![p] = FALSE]
  /\ task' = [task EXCEPT ![p] = "update"]
  /\ UNCHANGED <<environment, cache, events, cycling, listing, liveIDs, prev, history>>

\* updateStatus reads cache.PreviousStatus.
ReadPrevious(p) ==
  /\ task[p] = "update"
  /\ prev' = [prev EXCEPT ![p] = IF p[2] \in Cached THEN cache[p[2]] ELSE "Unknown"]
  /\ task' = [task EXCEPT ![p] = "write"]
  /\ UNCHANGED <<environment, breakers, cache, events, cycling, listing, liveIDs,
                 status, probe, history>>

\* The goroutine of p returns.
TaskDone(p) ==
  /\ task' = [task EXCEPT ![p] = "done"]
  /\ status' = [status EXCEPT ![p] = "Unknown"]
  /\ prev' = [prev EXCEPT ![p] = "Unknown"]

\* Mutant of Transitioned: events only for instances that went down.
TransitionedDown(p) == prev[p] # status[p] /\ status[p] = "Unhealthy" /\ prev[p] # "Unknown"

\* The condition of updateStatus for an event.
Transitioned(p) == prev[p] # status[p] /\ prev[p] # "Unknown"

\* updateStatus calls cache.Update, and goes on to publish if the status changed.
Write(p) ==
  /\ task[p] = "write"
  /\ cache' = [cache EXCEPT ![p[2]] = status[p]]
  /\ IF Transitioned(p)
     THEN task' = [task EXCEPT ![p] = "publish"] /\ UNCHANGED <<status, prev>>
     ELSE TaskDone(p)
  /\ UNCHANGED <<environment, breakers, events, cycling, listing, liveIDs, probe, history>>

\* publisher.Publish: its error is dropped.
Publish(p) ==
  /\ task[p] = "publish"
  /\ \E e \in {status[p], "lost"} : heard' = [heard EXCEPT ![p[2]] = e]
  /\ told' = told \cup {p[2]}
  /\ TaskDone(p)
  /\ UNCHANGED <<environment, breakers, cache, cycling, listing, liveIDs, probe, history>>

\* All goroutines are back: GetAll, and Remove of what is not in liveIDs.  Nobody
\* else writes the cache, so the loop is one step.
Evict ==
  /\ cycling /\ listing = {}
  /\ \A p \in Placements : task[p] = "done"
  /\ cache' = [i \in IDs |-> IF i \in liveIDs THEN cache[i] ELSE "none"]
  /\ told' = told \cap liveIDs
  /\ cycling' = FALSE /\ liveIDs' = {}
  /\ steady' = {} /\ present' = {} /\ failed' = {}
  /\ UNCHANGED <<environment, breakers, heard, listing, locals>>

\* Consul: a service instance is registered or deregistered.
ConsulChanges(p) ==
  /\ catalog' = IF p \in catalog THEN catalog \ {p} ELSE catalog \cup {p}
  /\ steady' = steady \cap catalog'
  /\ present' = IF cycling THEN present \cup catalog' ELSE {}
  /\ UNCHANGED <<reachable, up, breakers, cache, events, cycling, listing, liveIDs,
                 locals, failed>>

ConsulOutage ==
  /\ reachable' = ~reachable
  /\ UNCHANGED <<catalog, up, breakers, cache, events, cycling, listing, liveIDs,
                 locals, history>>

\* An instance stops or starts answering its probe.
InstanceFlips(i) ==
  /\ up' = IF i \in up THEN up \ {i} ELSE up \cup {i}
  /\ UNCHANGED <<catalog, reachable, breakers, cache, events, cycling, listing,
                 liveIDs, locals, history>>

Tick ==
  /\ \E i \in IDs : breakers[i].state = "open" /\ ~Elapsed(breakers[i])
  /\ breakers' = [i \in IDs |-> Age(breakers[i])]
  /\ UNCHANGED <<environment, cache, events, cycling, listing, liveIDs, locals, history>>

Task(p) ==
  Admit(p) \/ Refuse(p) \/ Finish(p) \/ ReadPrevious(p) \/ Write(p) \/ Publish(p)

ProbeAll ==
  \/ Begin
  \/ Evict
  \/ \E s \in Services : List(s) \/ ListFails(s)
  \/ \E p \in Placements : Task(p)

Next ==
  \/ ProbeAll
  \/ \E p \in Placements : ConsulChanges(p)
  \/ ConsulOutage
  \/ \E i \in IDsOf(Placements \ Probeless) : InstanceFlips(i)
  \/ Tick

Spec == Init /\ [][Next]_vars

\* The ticker keeps starting cycles and every goroutine of a cycle keeps going (the
\* HTTP client and the TCP dialer have timeouts); the clock runs.
FairSpec == Spec /\ WF_vars(ProbeAll) /\ WF_vars(Tick)

----------------------------------------------------------------------------
\* Every variable has the type of the Go value it models.
TypeOK ==
  /\ catalog \subseteq Placements /\ reachable \in BOOLEAN /\ up \subseteq IDs
  /\ breakers \in [IDs -> Breaker]
  /\ cache \in [IDs -> Status \cup {"none"}]
  /\ heard \in [IDs -> Status \cup {"none", "lost"}] /\ told \subseteq IDs
  /\ cycling \in BOOLEAN /\ listing \subseteq Services /\ liveIDs \subseteq IDs
  /\ task \in [Placements -> {"done", "gate", "probing", "update", "write", "publish"}]
  /\ status \in [Placements -> Status] /\ prev \in [Placements -> Status]
  /\ probe \in [Placements -> BOOLEAN]
  /\ steady \subseteq Placements /\ present \subseteq Placements /\ failed \subseteq Services

\* No instance is given up for good: while an ID's half-open gate is shut, a probe
\* of that ID admitted in half-open is running and will be recorded.
GateHeldByTask ==
  \A i \in IDs : breakers[i].halfOpenUsed =>
    \E p \in Placements : p[2] = i /\ task[p] = "probing" /\ probe[p]

\* A cycle leaves the cache with the instances it saw: every ID registered all
\* through the cycle has an entry, unless the listing of its service failed, and
\* every entry's ID was registered at some instant of the cycle.
CycleCoversRegistered ==
  [][ Evict =>
        LET cached == {i \in IDs : cache'[i] # "none"}
            listed == {p \in steady : p[1] \notin failed}
        IN IDsOf(listed) \subseteq cached /\ cached \subseteq IDsOf(present) ]_vars

\* Between cycles the cache and the breakers tell the same story, when IDs are not
\* shared: an instance whose circuit is open is not reported Healthy, and one that
\* is reported Healthy has no failure counted against it.
CacheMatchesBreaker ==
  ~cycling => \A i \in Cached :
    cache[i] = "Healthy" => breakers[i].state # "open" /\ breakers[i].failureCount = 0

\* Subscribers keep up with an instance while it stays cached, when IDs are not
\* shared and it has a probe: between cycles, the last event published since its
\* entry was made carries its current status.
EventsFollowCache ==
  ~cycling => \A i \in told \ IDsOf(Probeless) : heard[i] \in {cache[i], "lost"}

\* The state machine that breaker.go documents, seen through the breaker of i.
Documented(i) == INSTANCE BreakerContract WITH
  RecoveryThreshold <- EffectiveRecovery,
  mode   <- breakers[i].state,
  fails  <- IF breakers[i].state = "closed" THEN breakers[i].failureCount ELSE 0,
  wins   <- breakers[i].recoveryCount,
  cooled <- breakers[i].state = "open" /\ Elapsed(breakers[i])

\* The worker uses its breakers the way they are documented, when IDs are not
\* shared: however cycles, timeouts, outages and probes interleave, every ID's
\* breaker opens only on the FailureThreshold-th consecutive failed probe, stays
\* open until the break is over, and closes only on the RecoveryThreshold-th
\* half-open success in a row.  No probe outlives the period that admitted it.
BreakersKeepContract ==
  /\ \A i \in IDs : Documented(i)!CInit
  /\ [][ \A i \in IDs : [Documented(i)!CNext]_(Documented(i)!cvars) ]_breakers

\* What is stable is eventually reported as it is: an instance that stays
\* registered and answering is in the end always reported Healthy, one that stays
\* registered and silent is in the end never reported Healthy, one that stays
\* deregistered is in the end not in the cache.
CacheConverges ==
  \A i \in IDs \ IDsOf(Probeless) :
    /\ <>[](reachable /\ i \in IDsOf(catalog) /\ i \in up) => <>[](cache[i] = "Healthy")
    /\ <>[](reachable /\ i \in IDsOf(catalog) /\ i \notin up) => <>[](cache[i] = "Unhealthy")
    /\ <>[](reachable /\ i \notin IDsOf(catalog)) => <>[](cache[i] = "none")

----------------------------------------------------------------------------
\* worker.go:114: "Evict cache entries for services no longer registered in
\* Consul."  An ID registered all through the cycle is not evicted.
EvictsOnlyDeregistered ==
  [][ Evict => \A i \in IDsOf(steady) \cap Cached : cache'[i] # "none" ]_vars
=============================================================================
