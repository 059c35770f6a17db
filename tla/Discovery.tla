------------------------------- MODULE Discovery -------------------------------
(***************************************************************************)
(* The discovery server (internal/discovery/server.go) over the Consul     *)
(* registry (internal/consul/registry.go) and the event publisher          *)
(* (internal/messaging/publisher.go).  Register, Deregister and            *)
(* ReportHealth run concurrently; each talks to Consul, then updates the   *)
(* tracking map under s.mu, then publishes.  Any call to Consul may fail,  *)
(* with or without having taken effect.  Consul expires a TTL check that   *)
(* is not refreshed and removes a service that stays critical.  A restart  *)
(* forgets the tracking map and the calls in progress, not Consul.         *)
(*                                                                         *)
(* Service names, addresses, metadata and times are left out: none of them *)
(* decides what a handler does.                                            *)
(***************************************************************************)
EXTENDS ConsulHealth

CONSTANTS
  Handlers,     \* the goroutines that serve calls
  IDs,          \* service IDs
  NoID          \* the ID of a goroutine without a call

ASSUME NoIDFresh == NoID \notin IDs

VARIABLES
  check,        \* Consul: the status of an ID's TTL check, "absent" without one
  tracking,     \* s.tracking
  channel,      \* the publisher's AMQP channel: open or closed
  heard,        \* what the last event published for an ID said; "lost" if it was
  pc, id,
  newStatus,    \* of ReportHealth
  prev,         \* its previousStatus, "none" when info is nil
  alone,        \* no other call on the same ID has overlapped this one (history)
  held,         \* Consul took this call's status and still has it (history)
  clean,        \* the last call on the ID ran alone and Consul has not refused,
                \*   expired or removed anything since it began (history)
  serial        \* the calls on the ID ran alone since its last Register (history)

locals == <<id, newStatus, prev, alone, held>>
vars == <<check, tracking, channel, heard, pc, locals, clean, serial>>

Status == {"Healthy", "Unhealthy", "Degraded", "Unknown"}
Untracked == [status |-> "none", deregistered |-> FALSE]
Tracked(i) == tracking[i] # Untracked
Quiet(i) == \A h \in Handlers : id[h] # i

Init ==
  /\ check = [i \in IDs |-> "absent"]
  /\ tracking = [i \in IDs |-> Untracked]
  /\ channel = "open"
  /\ heard = [i \in IDs |-> "none"]
  /\ pc = [h \in Handlers |-> "idle"]
  /\ id = [h \in Handlers |-> NoID]
  /\ newStatus = [h \in Handlers |-> "none"]
  /\ prev = [h \in Handlers |-> "none"]
  /\ alone = [h \in Handlers |-> FALSE]
  /\ held = [h \in Handlers |-> FALSE]
  /\ clean = [i \in IDs |-> FALSE]
  /\ serial = [i \in IDs |-> FALSE]

----------------------------------------------------------------------------
\* A call on ID i reaches goroutine h, which goes on at the given step.
Arrives(h, i, step) ==
  LET others == {g \in Handlers : id[g] = i} IN
  /\ pc[h] = "idle"
  /\ pc' = [pc EXCEPT ![h] = step]
  /\ id' = [id EXCEPT ![h] = i]
  /\ alone' = [g \in Handlers |-> IF g = h THEN others = {} ELSE alone[g] /\ g \notin others]
  /\ serial' = [serial EXCEPT ![i] = @ /\ others = {}]

\* The call of h returns.
Returns(h) ==
  /\ pc' = [pc EXCEPT ![h] = "idle"]
  /\ id' = [id EXCEPT ![h] = NoID]
  /\ newStatus' = [newStatus EXCEPT ![h] = "none"]
  /\ prev' = [prev EXCEPT ![h] = "none"]
  /\ alone' = [alone EXCEPT ![h] = FALSE]
  /\ held' = [held EXCEPT ![h] = FALSE]

\* Consul returned an error and the handler returns it.  The check is as before or,
\* when only the answer was lost, as the call would have left it.
Refused(h, applied) ==
  /\ check' \in {check, applied}
  /\ clean' = [clean EXCEPT ![id[h]] = FALSE]
  /\ Returns(h)

Goto(h, step) == pc' = [pc EXCEPT ![h] = step]

\* Publisher.Publish of an event that says e of ID i.  An AMQP error closes the
\* channel and nothing reopens it; handlers log the error and go on.
Publish(i, e) ==
  \/ channel = "open" /\ heard' = [heard EXCEPT ![i] = e] /\ UNCHANGED channel
  \/ channel' \in {channel, "closed"} /\ heard' = [heard EXCEPT ![i] = "lost"]

----------------------------------------------------------------------------
\* Register, with the ID of the request or one made from the name and the time.
Register(h, i) ==
  /\ Arrives(h, i, "register")
  /\ UNCHANGED <<check, tracking, channel, heard, newStatus, prev, held, clean>>

\* Registry.Register: ServiceRegister.  A new TTL check is critical; over an existing
\* registration Consul may keep the status the check had.
ServiceRegister(h) ==
  LET i == id[h]
      critical == [check EXCEPT ![i] = "critical"]
  IN
  /\ pc[h] = "register"
  /\ \/ /\ check' = critical \/ (check[i] # "absent" /\ UNCHANGED check)
        /\ Goto(h, "pass")
        /\ UNCHANGED <<locals, clean>>
     \/ Refused(h, critical)
  /\ UNCHANGED <<tracking, channel, heard, serial>>

\* The initial PassTTL: an error is logged and registration goes on.
PassInitialTTL(h) ==
  LET i == id[h]
      passing == [check EXCEPT ![i] = "passing"]
  IN
  /\ pc[h] = "pass"
  /\ \/ check[i] # "absent" /\ check' = passing /\ held' = [held EXCEPT ![h] = TRUE]
     \/ /\ UNCHANGED check \/ (check[i] # "absent" /\ check' = passing)
        /\ UNCHANGED held
  /\ Goto(h, "trackNew")
  /\ UNCHANGED <<tracking, channel, heard, id, newStatus, prev, alone, clean, serial>>

\* Mutant of TrackRegistered: a record the ID already has is kept.
TrackRegisteredOnce(h) ==
  LET i == id[h] IN
  /\ pc[h] = "trackNew"
  /\ tracking' = IF Tracked(i) THEN tracking
                 ELSE [tracking EXCEPT ![i] = [status |-> "Healthy", deregistered |-> FALSE]]
  /\ clean' = [clean EXCEPT ![i] = alone[h] /\ held[h]]
  /\ serial' = [serial EXCEPT ![i] = alone[h]]
  /\ Goto(h, "publishNew")
  /\ UNCHANGED <<check, channel, heard, locals>>

\* Register replaces the ID's record in the tracking map.
TrackRegistered(h) ==
  LET i == id[h] IN
  /\ pc[h] = "trackNew"
  /\ tracking' = [tracking EXCEPT ![i] = [status |-> "Healthy", deregistered |-> FALSE]]
  /\ clean' = [clean EXCEPT ![i] = alone[h] /\ held[h]]
  /\ serial' = [serial EXCEPT ![i] = alone[h]]
  /\ Goto(h, "publishNew")
  /\ UNCHANGED <<check, channel, heard, locals>>

\* Each handler publishes last, and returns whether or not that worked.
PublishRegistered(h) ==
  /\ pc[h] = "publishNew"
  /\ Publish(id[h], "Healthy")
  /\ Returns(h)
  /\ UNCHANGED <<check, tracking, clean, serial>>

----------------------------------------------------------------------------
\* Deregister: the tracking map is read only for the name in the event.
Deregister(h, i) ==
  /\ Arrives(h, i, "deregister")
  /\ UNCHANGED <<check, tracking, channel, heard, newStatus, prev, held, clean>>

\* Registry.Deregister: ServiceDeregister.
ServiceDeregister(h) ==
  LET gone == [check EXCEPT ![id[h]] = "absent"] IN
  /\ pc[h] = "deregister"
  /\ \/ check' = gone /\ Goto(h, "mark") /\ UNCHANGED <<locals, clean>>
     \/ Refused(h, gone)
  /\ UNCHANGED <<tracking, channel, heard, serial>>

\* Mutant of MarkDeregistered: it does not look whether the ID is tracked.
MarkAnyDeregistered(h) ==
  LET i == id[h] IN
  /\ pc[h] = "mark"
  /\ tracking' = [tracking EXCEPT ![i] = [@ EXCEPT !.deregistered = TRUE]]
  /\ clean' = [clean EXCEPT ![i] = alone[h]]
  /\ Goto(h, "publishGone")
  /\ UNCHANGED <<check, channel, heard, locals, serial>>

\* Deregister stamps the record, if there is one, and leaves it in the map.
MarkDeregistered(h) ==
  LET i == id[h] IN
  /\ pc[h] = "mark"
  /\ tracking' = IF Tracked(i)
                 THEN [tracking EXCEPT ![i] = [@ EXCEPT !.deregistered = TRUE]]
                 ELSE tracking
  /\ clean' = [clean EXCEPT ![i] = alone[h]]
  /\ Goto(h, "publishGone")
  /\ UNCHANGED <<check, channel, heard, locals, serial>>

PublishDeregistered(h) ==
  /\ pc[h] = "publishGone"
  /\ Publish(id[h], "deregistered")
  /\ Returns(h)
  /\ UNCHANGED <<check, tracking, clean, serial>>

----------------------------------------------------------------------------
\* ReportHealth of status s.
ReportHealth(h, i, s) ==
  /\ Arrives(h, i, "previous")
  /\ newStatus' = [newStatus EXCEPT ![h] = s]
  /\ UNCHANGED <<check, tracking, channel, heard, prev, held, clean>>

\* It looks the record up under the lock and reads its status after the unlock.
\* One step is enough: a record that Register replaces in between keeps the status
\* it had at that instant.
ReadPrevious(h) ==
  /\ pc[h] = "previous"
  /\ prev' = [prev EXCEPT ![h] = tracking[id[h]].status]
  /\ Goto(h, "update")
  /\ UNCHANGED <<check, tracking, channel, heard, id, newStatus, alone, held, clean, serial>>

\* Mutant of TTLStatus: a degraded instance is passed.
TTLStatusBinary(s) == IF s = "Unhealthy" THEN "critical" ELSE "passing"

\* Registry.UpdateHealth: PassTTL, FailTTL or WarnTTL; Unknown passes.
TTLStatus(s) ==
  CASE s = "Unhealthy" -> "critical"
    [] s = "Degraded"  -> "warning"
    [] OTHER           -> "passing"

\* Consul refuses to update a check it does not have.
UpdateHealth(h) ==
  LET i == id[h]
      updated == [check EXCEPT ![i] = IF @ = "absent" THEN @ ELSE TTLStatus(newStatus[h])]
  IN
  /\ pc[h] = "update"
  /\ \/ /\ check[i] # "absent"
        /\ check' = updated
        /\ held' = [held EXCEPT ![h] = TRUE]
        /\ Goto(h, "track")
        /\ UNCHANGED <<id, newStatus, prev, alone, clean>>
     \/ Refused(h, updated)
  /\ UNCHANGED <<tracking, channel, heard, serial>>

\* Mutant of StatusChanged: every report on a tracked ID is announced.
StatusReported(h) == prev[h] # "none"

\* The condition of ReportHealth for an event.
StatusChanged(h) == prev[h] # "none" /\ prev[h] # newStatus[h]

\* ReportHealth updates the record the ID has now, if any, and decides about the
\* event from the status it read before.
TrackHealth(h) ==
  LET i == id[h] IN
  /\ pc[h] = "track"
  /\ tracking' = IF Tracked(i)
                 THEN [tracking EXCEPT ![i] = [@ EXCEPT !.status = newStatus[h]]]
                 ELSE tracking
  /\ clean' = [clean EXCEPT ![i] = alone[h] /\ held[h]]
  /\ IF StatusChanged(h) THEN Goto(h, "publish") /\ UNCHANGED locals ELSE Returns(h)
  /\ UNCHANGED <<check, channel, heard, serial>>

PublishHealthChanged(h) ==
  /\ pc[h] = "publish"
  /\ Publish(id[h], newStatus[h])
  /\ Returns(h)
  /\ UNCHANGED <<check, tracking, clean, serial>>

----------------------------------------------------------------------------
\* Consul: a TTL runs out, or a service has been critical for a minute.
ConsulMoves(i, c) ==
  /\ check' = [check EXCEPT ![i] = c]
  /\ clean' = [clean EXCEPT ![i] = FALSE]
  /\ held' = [h \in Handlers |-> held[h] /\ id[h] # i]
  /\ UNCHANGED <<tracking, channel, heard, pc, id, newStatus, prev, alone, serial>>

TTLExpires(i) == check[i] \in {"passing", "warning"} /\ ConsulMoves(i, "critical")

Reaped(i) == check[i] = "critical" /\ ConsulMoves(i, "absent")

\* The broker or the connection closes the channel.
ChannelCloses ==
  /\ channel' = "closed"
  /\ UNCHANGED <<check, tracking, heard, pc, locals, clean, serial>>

\* The server crashes and is started again: NewServer, NewPublisher.
Restart ==
  /\ tracking' = [i \in IDs |-> Untracked]
  /\ channel' = "open"
  /\ pc' = [h \in Handlers |-> "idle"]
  /\ id' = [h \in Handlers |-> NoID]
  /\ newStatus' = [h \in Handlers |-> "none"]
  /\ prev' = [h \in Handlers |-> "none"]
  /\ alone' = [h \in Handlers |-> FALSE]
  /\ held' = [h \in Handlers |-> FALSE]
  /\ UNCHANGED <<check, heard, clean, serial>>

Next ==
  \/ \E h \in Handlers, i \in IDs :
       Register(h, i) \/ Deregister(h, i) \/ \E s \in Status : ReportHealth(h, i, s)
  \/ \E h \in Handlers :
       \/ ServiceRegister(h) \/ PassInitialTTL(h) \/ TrackRegistered(h) \/ PublishRegistered(h)
       \/ ServiceDeregister(h) \/ MarkDeregistered(h) \/ PublishDeregistered(h)
       \/ ReadPrevious(h) \/ UpdateHealth(h) \/ TrackHealth(h) \/ PublishHealthChanged(h)
  \/ \E i \in IDs : TTLExpires(i) \/ Reaped(i)
  \/ ChannelCloses
  \/ Restart

Spec == Init /\ [][Next]_vars

----------------------------------------------------------------------------
\* Every variable has the type of the Go value it models; a record of the tracking
\* map has a status.
TypeOK ==
  /\ check \in [IDs -> CheckStatus \cup {"absent"}]
  /\ tracking \in [IDs -> {Untracked} \cup [status : Status, deregistered : BOOLEAN]]
  /\ channel \in {"open", "closed"}
  /\ heard \in [IDs -> Status \cup {"none", "lost", "deregistered"}]
  /\ pc \in [Handlers -> {"idle", "register", "pass", "trackNew", "publishNew",
       "deregister", "mark", "publishGone", "previous", "update", "track", "publish"}]
  /\ id \in [Handlers -> IDs \cup {NoID}]
  /\ newStatus \in [Handlers -> Status \cup {"none"}]
  /\ prev \in [Handlers -> Status \cup {"none"}]
  /\ alone \in [Handlers -> BOOLEAN] /\ held \in [Handlers -> BOOLEAN]
  /\ clean \in [IDs -> BOOLEAN] /\ serial \in [IDs -> BOOLEAN]

\* A call that runs alone and succeeds puts Consul and the tracking map in
\* agreement, whatever overlaps, errors, expiries and restarts came before: what
\* GetInstances makes of the check is the tracked status (Healthy for a reported
\* Unknown), until Consul next refuses or changes something.
AloneCallAgrees ==
  \A i \in IDs : Quiet(i) /\ clean[i] /\ Tracked(i) /\ check[i] # "absent" =>
    mapHealthStatus({check[i]}) =
      IF tracking[i].status = "Unknown" THEN "Healthy" ELSE tracking[i].status

\* While the calls on an ID do not overlap, its events keep up with the tracking
\* map, through failed Consul calls, a closed channel and restarts: the last one
\* says the tracked status, or that the ID was deregistered when it was, or was
\* itself lost.
SerialEventsFollow ==
  \A i \in IDs : Quiet(i) /\ serial[i] /\ Tracked(i) =>
    \/ heard[i] \in {tracking[i].status, "lost"}
    \/ heard[i] = "deregistered" /\ tracking[i].deregistered

\* The report of h, which updates the tracking map in this step, goes on to
\* publish exactly when it changes the tracked status.
AnnouncesChange(h) ==
  pc'[h] = "publish" <=> tracking'[id[h]].status # tracking[id[h]].status

\* A report that no other call on its ID has overlapped announces exactly the
\* changes it makes, whatever overlapped before, and however often Consul failed
\* or the server restarted: the status it read before its Consul call is still
\* the tracked one when it decides.
AloneReportAnnounces ==
  [][ \A h \in Handlers :
        TrackHealth(h) /\ Tracked(id[h]) /\ alone[h] => AnnouncesChange(h) ]_vars

----------------------------------------------------------------------------
\* server.go:237: "Publish health change event if status actually changed."  A
\* report goes on to publish exactly when it changes the tracked status.
AnnouncesActualChanges ==
  [][ \A h \in Handlers : TrackHealth(h) /\ Tracked(id[h]) => AnnouncesChange(h) ]_vars
=============================================================================
