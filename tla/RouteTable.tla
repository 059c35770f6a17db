------------------------------ MODULE RouteTable ------------------------------
(***************************************************************************)
(* The gateway's route table (internal/gateway/routes.go): refresh lists   *)
(* the services, asks for the instances of each, one query after another,  *)
(* and installs the new table in one assignment under the lock.  Consul    *)
(* changes between the queries, and any of them may fail.                  *)
(***************************************************************************)
EXTENDS ConsulHealth

CONSTANTS
  Services,
  Consul,       \* Consul's own entry in the list of services
  Instances,
  ServiceOf     \* the service an instance is registered under

ASSUME ServiceOfFunction == ServiceOf \in [Instances -> Services]
ASSUME ConsulListed == Consul \in Services

VARIABLES
  catalog,      \* Consul: per instance its check statuses, or Absent
  reachable,    \* whether Consul answers queries
  routes,       \* rt.routes; a service without an entry has {}
  pc,           \* idle (between ticks) or fetching (in refresh's loop)
  todo,         \* the services the loop has still to ask about
  newRoutes,
  everHealthy,  \* instances healthy at some instant since refresh began (history)
  steady,       \* instances healthy at every instant since refresh began (history)
  failed        \* services whose query failed in this refresh (history)

history == <<everHealthy, steady, failed>>
tvars == <<catalog, reachable, routes, pc, todo, newRoutes, history>>

Absent == {"absent"}

Healthy(i) == catalog[i] # Absent /\ mapHealthStatus(catalog[i]) = "Healthy"
HealthyNow == {i \in Instances : Healthy(i)}
NoRoutes == [s \in Services |-> {}]

TableInit ==
  /\ catalog = [i \in Instances |-> IF ServiceOf[i] = Consul THEN {"passing"} ELSE Absent]
  /\ reachable \in BOOLEAN
  /\ routes = NoRoutes
  /\ pc = "idle"
  /\ todo = {}
  /\ newRoutes = NoRoutes
  /\ everHealthy = {} /\ steady = {} /\ failed = {}

----------------------------------------------------------------------------
\* Mutant of GetServices: Consul's own entry is not left out.
GetServicesAll == {ServiceOf[i] : i \in {j \in Instances : catalog[j] # Absent}}

\* Registry.GetServices: the names in the catalog but Consul's own.
GetServices ==
  {ServiceOf[i] : i \in {j \in Instances : catalog[j] # Absent}} \ {Consul}

\* Registry.GetInstances, and refresh's filter on it.
HealthyInstances(s) == {i \in HealthyNow : ServiceOf[i] = s}

\* refresh lists the services; when that fails it returns and the table stays.
Begin ==
  /\ pc = "idle"
  /\ reachable
  /\ pc' = "fetching"
  /\ todo' = GetServices
  /\ everHealthy' = HealthyNow /\ steady' = HealthyNow
  /\ UNCHANGED <<catalog, reachable, routes, newRoutes, failed>>

\* Mutant of Fetch: instances that are not passing are routed too.
FetchAny(s) ==
  /\ pc = "fetching" /\ s \in todo
  /\ reachable
  /\ todo' = todo \ {s}
  /\ newRoutes' = [newRoutes EXCEPT ![s] =
       {i \in Instances : catalog[i] # Absent /\ ServiceOf[i] = s}]
  /\ UNCHANGED <<catalog, reachable, routes, pc, history>>

\* One iteration of the loop: the healthy instances of a service; a service that
\* has none gets no entry.
Fetch(s) ==
  /\ pc = "fetching" /\ s \in todo
  /\ reachable
  /\ todo' = todo \ {s}
  /\ newRoutes' = [newRoutes EXCEPT ![s] = HealthyInstances(s)]
  /\ UNCHANGED <<catalog, reachable, routes, pc, history>>

\* Mutant of FetchFails: break instead of continue.
FetchFailsBreaks(s) ==
  /\ pc = "fetching" /\ s \in todo
  /\ ~reachable
  /\ todo' = {}
  /\ failed' = failed \cup {s}
  /\ UNCHANGED <<catalog, reachable, routes, pc, newRoutes, everHealthy, steady>>

\* The query for a service fails: logged, and the loop goes on without it.
FetchFails(s) ==
  /\ pc = "fetching" /\ s \in todo
  /\ ~reachable
  /\ todo' = todo \ {s}
  /\ failed' = failed \cup {s}
  /\ UNCHANGED <<catalog, reachable, routes, pc, newRoutes, everHealthy, steady>>

\* refresh returns and its local variables are gone.
Return ==
  /\ pc' = "idle"
  /\ newRoutes' = NoRoutes
  /\ everHealthy' = {} /\ steady' = {} /\ failed' = {}

\* Mutant of Install: entries of services that are gone are kept.
InstallMerges ==
  /\ pc = "fetching" /\ todo = {}
  /\ routes' = [s \in Services |-> IF newRoutes[s] = {} THEN routes[s] ELSE newRoutes[s]]
  /\ Return
  /\ UNCHANGED <<catalog, reachable, todo>>

\* rt.routes = newRoutes.
Install ==
  /\ pc = "fetching" /\ todo = {}
  /\ routes' = newRoutes
  /\ Return
  /\ UNCHANGED <<catalog, reachable, todo>>

\* Consul: an instance is registered, deregistered, or its checks change.  Consul's
\* own servers stay registered.
ConsulChanges(i) ==
  /\ ServiceOf[i] # Consul
  /\ \E checks \in {Absent, {}, {"passing"}, {"passing", "warning"}, {"critical"}} :
       catalog' = [catalog EXCEPT ![i] = checks]
  /\ everHealthy' = IF pc = "idle" THEN {} ELSE everHealthy \cup HealthyNow'
  /\ steady' = steady \cap HealthyNow'
  /\ UNCHANGED <<reachable, routes, pc, todo, newRoutes, failed>>

\* Consul stops, or resumes, answering.
ConsulOutage ==
  /\ reachable' = ~reachable
  /\ UNCHANGED <<catalog, routes, pc, todo, newRoutes, history>>

Refresh == Begin \/ Install \/ \E s \in Services : Fetch(s) \/ FetchFails(s)

TableNext ==
  \/ Refresh
  \/ \E i \in Instances : ConsulChanges(i)
  \/ ConsulOutage

Table == TableInit /\ [][TableNext]_tvars

\* The ticker of Run keeps starting refreshes and a refresh keeps going: its
\* queries return, with an answer or an error.
FairTable == Table /\ WF_tvars(Refresh)

----------------------------------------------------------------------------
\* Every variable has the type of the Go value it models, and the loop's variables
\* are within the services it may ask about.
TableTypeOK ==
  /\ catalog \in [Instances -> {Absent} \cup SUBSET CheckStatus]
  /\ reachable \in BOOLEAN
  /\ routes \in [Services -> SUBSET Instances]
  /\ pc \in {"idle", "fetching"}
  /\ todo \in SUBSET (Services \ {Consul})
  /\ newRoutes \in [Services -> SUBSET Instances]
  /\ everHealthy \in SUBSET Instances
  /\ steady \in SUBSET Instances
  /\ failed \in SUBSET Services

\* No backend is routed that was not healthy during the refresh that routed it:
\* whatever Consul does between the queries, each entry of an installed table was
\* passing at some instant of that very refresh.
InstallsOnlyHealthy ==
  [][ Install => \A s \in Services : routes'[s] \subseteq everHealthy ]_tvars

\* No healthy backend is missed: an instance that was healthy all through the
\* refresh is in the installed table, unless the query for its own service failed;
\* what happens to other services and their queries does not matter.
InstallsAllSteady ==
  [][ Install => \A i \in steady :
        ServiceOf[i] \in failed \cup {Consul} \/ i \in routes'[ServiceOf[i]] ]_tvars

\* The table catches up: once Consul answers and an instance stays healthy, or
\* stays not healthy, the table ends up with it, or without it, for good.
TableConverges ==
  \A i \in Instances : ServiceOf[i] # Consul =>
    /\ <>[](reachable /\ Healthy(i)) => <>[](i \in routes[ServiceOf[i]])
    /\ <>[](reachable /\ ~Healthy(i)) => <>[](i \notin routes[ServiceOf[i]])
=============================================================================
