---------------------------- MODULE DiscoveryProofs ----------------------------
(* What the discovery server guarantees for any number of concurrent calls   *)
(* and service IDs, through refused Consul calls, expiries, lost events and  *)
(* restarts.                                                                 *)
EXTENDS Discovery, TLAPS

\* A goroutine has an ID exactly while it serves a call, and a call that is
\* alone is the only one on its ID.
Calls ==
  /\ \A h \in Handlers : pc[h] = "idle" <=> id[h] = NoID
  /\ \A h \in Handlers : pc[h] \in {"previous", "update", "track", "publish"}
                           => newStatus[h] \in Status
  /\ \A h \in Handlers : held[h] => pc[h] \in {"trackNew", "publishNew", "track", "publish"}
  /\ \A g, h \in Handlers : alone[h] /\ g # h /\ id[h] # NoID => id[g] # id[h]

\* Between the Consul call and the update of the tracking map.
Midway == {"pass", "trackNew", "mark", "track"}

Agrees(i) ==
  mapHealthStatus({check[i]}) =
    IF tracking[i].status = "Unknown" THEN "Healthy" ELSE tracking[i].status

\* Consul and the tracking map agree on a clean ID except while a call on it
\* is midway, and a call that is alone knows what Consul has.
Agreement ==
  /\ \A i \in IDs :
       /\ clean[i] /\ Tracked(i) /\ check[i] # "absent"
       /\ \A h \in Handlers : id[h] = i => pc[h] \notin Midway
       => Agrees(i)
  /\ \A h \in Handlers : alone[h] =>
       /\ pc[h] = "track" /\ held[h] => check[id[h]] = TTLStatus(newStatus[h])
       /\ pc[h] = "trackNew" /\ held[h] => check[id[h]] = "passing"
       /\ pc[h] = "mark" => check[id[h]] = "absent"

Publishing == {"publishNew", "publishGone", "publish"}

Follows(i) ==
  \/ heard[i] \in {tracking[i].status, "lost"}
  \/ heard[i] = "deregistered" /\ tracking[i].deregistered

\* While the calls on an ID are serial, its events are behind the tracking map
\* by at most the one that is about to be published, and the status that
\* ReportHealth has read is still the tracked one.
Serially(i) ==
  serial[i] =>
    /\ \A g, h \in Handlers : id[g] = i /\ id[h] = i => g = h
    /\ Tracked(i) /\ (\A h \in Handlers : id[h] = i => pc[h] \notin Publishing) => Follows(i)
    /\ \A h \in Handlers : id[h] = i =>
         /\ pc[h] \in {"update", "track"} => prev[h] = tracking[i].status
         /\ Tracked(i) =>
              /\ pc[h] = "publishNew" => tracking[i].status = "Healthy"
              /\ pc[h] = "publishGone" => tracking[i].deregistered
              /\ pc[h] = "publish" => tracking[i].status = newStatus[h]

IInv == TypeOK /\ Calls /\ Agreement /\ \A i \in IDs : Serially(i)

----------------------------------------------------------------------------
\* What GetInstances makes of the check that UpdateHealth left.
LEMMA RoundTrip ==
  ASSUME NEW s \in Status
  PROVE  /\ mapHealthStatus({TTLStatus(s)}) = IF s = "Unknown" THEN "Healthy" ELSE s
         /\ TTLStatus(s) \in CheckStatus
<1>1. CASE s = "Unhealthy"
  BY <1>1, Zenon DEF mapHealthStatus, TTLStatus, CheckStatus
<1>2. CASE s = "Degraded"
  <2>1. {"warning"} \cap {"critical", "maintenance"} = {} /\ {"warning"} # {}
    OBVIOUS
  <2> QED
    BY <1>2, <2>1 DEF mapHealthStatus, TTLStatus, CheckStatus
<1>3. CASE s \in {"Healthy", "Unknown"}
  <2>1. {"passing"} \cap {"critical", "maintenance"} = {} /\ {"passing"} # {}
        /\ "warning" \notin {"passing"}
    OBVIOUS
  <2>2. mapHealthStatus({"passing"}) = "Healthy"
    BY <2>1 DEF mapHealthStatus
  <2>3. TTLStatus(s) = "passing"
    BY <1>3 DEF TTLStatus
  <2> QED
    BY <1>3, <2>2, <2>3 DEF CheckStatus
<1> QED
  BY <1>1, <1>2, <1>3 DEF Status

LEMMA TrackedStatus ==
  ASSUME TypeOK, NEW i \in IDs
  PROVE  /\ tracking[i].status = "none" <=> ~Tracked(i)
         /\ Tracked(i) => tracking[i] \in [status : Status, deregistered : BOOLEAN]
<1>1. tracking[i] \in {Untracked} \cup [status : Status, deregistered : BOOLEAN]
  BY DEF TypeOK
<1>2. CASE tracking[i] = Untracked
  BY <1>2 DEF Tracked, Untracked
<1>3. CASE tracking[i] \in [status : Status, deregistered : BOOLEAN]
  <2>1. tracking[i].status # "none"
    BY <1>3 DEF Status
  <2>2. Untracked.status = "none"
    BY DEF Untracked
  <2> QED
    BY <1>3, <2>1, <2>2 DEF Tracked
<1> QED
  BY <1>1, <1>2, <1>3

\* A step of goroutine h, whose call is on ID i, leaves the other goroutines
\* and the other IDs alone.
Frame(h, i) ==
  /\ \A g \in Handlers \ {h} :
       /\ pc'[g] = pc[g] /\ id'[g] = id[g] /\ newStatus'[g] = newStatus[g]
       /\ prev'[g] = prev[g] /\ held'[g] = held[g] /\ (alone'[g] => alone[g])
  /\ \A j \in IDs \ {i} :
       /\ check'[j] = check[j] /\ tracking'[j] = tracking[j] /\ heard'[j] = heard[j]
       /\ clean'[j] = clean[j] /\ serial'[j] = serial[j]

\* So it is enough to look at h and i.
LEMMA HandlerStep ==
  ASSUME IInv, TypeOK', NEW h \in Handlers, NEW i \in IDs, Frame(h, i),
         id[h] \in {i, NoID}, id'[h] \in {i, NoID},
         pc'[h] = "idle" <=> id'[h] = NoID,
         pc'[h] \in {"previous", "update", "track", "publish"} => newStatus'[h] \in Status,
         held'[h] => pc'[h] \in {"trackNew", "publishNew", "track", "publish"},
         \A g \in Handlers \ {h} : id[g] = i => ~alone'[g] /\ ~alone'[h],
         /\ clean'[i] /\ Tracked(i)' /\ check'[i] # "absent"
         /\ \A g \in Handlers : id'[g] = i => pc'[g] \notin Midway
         => Agrees(i)',
         alone'[h] /\ id'[h] = i =>
           /\ pc'[h] = "track" /\ held'[h] => check'[i] = TTLStatus(newStatus'[h])
           /\ pc'[h] = "trackNew" /\ held'[h] => check'[i] = "passing"
           /\ pc'[h] = "mark" => check'[i] = "absent",
         Serially(i)'
  PROVE  IInv'
<1>0. TypeOK /\ Calls /\ Agreement /\ \A j \in IDs : Serially(j)
  BY DEF IInv
<1>1. \A g \in Handlers : id[g] \in IDs \cup {NoID} /\ id'[g] \in IDs \cup {NoID}
  BY <1>0 DEF TypeOK
<1>2. NoID \notin IDs
  BY NoIDFresh
<1>3. Calls'
  <2>1. \A g \in Handlers : pc'[g] = "idle" <=> id'[g] = NoID
    BY <1>0 DEF Calls, Frame
  <2>2. \A g \in Handlers : pc'[g] \in {"previous", "update", "track", "publish"}
                              => newStatus'[g] \in Status
    BY <1>0 DEF Calls, Frame
  <2>4. \A g \in Handlers : held'[g] => pc'[g] \in {"trackNew", "publishNew", "track", "publish"}
    BY <1>0 DEF Calls, Frame
  <2>3. ASSUME NEW g \in Handlers, NEW k \in Handlers, alone'[k], g # k, id'[k] # NoID
        PROVE  id'[g] # id'[k]
    <3>1. CASE k = h
      BY <2>3, <3>1 DEF Frame
    <3>2. CASE k # h /\ g = h
      BY <2>3, <3>2 DEF Frame
    <3>3. CASE k # h /\ g # h
      BY <1>0, <2>3, <3>3 DEF Frame, Calls
    <3> QED
      BY <3>1, <3>2, <3>3
  <2> QED
    BY <2>1, <2>2, <2>3, <2>4 DEF Calls
<1>4. ASSUME NEW j \in IDs, clean'[j], Tracked(j)', check'[j] # "absent",
             \A g \in Handlers : id'[g] = j => pc'[g] \notin Midway
      PROVE  Agrees(j)'
  <2>1. CASE j = i
    BY <1>4, <2>1
  <2>2. CASE j # i
    <3>1. \A g \in Handlers : id[g] = j => pc[g] \notin Midway
      BY <1>2, <1>4, <2>2 DEF Frame
    <3>2. clean[j] /\ Tracked(j) /\ check[j] # "absent"
      BY <1>4, <2>2 DEF Frame, Tracked
    <3>3. Agrees(j)
      BY <1>0, <3>1, <3>2 DEF Agreement
    <3>4. check'[j] = check[j] /\ tracking'[j] = tracking[j]
      BY <2>2 DEF Frame
    <3> QED
      BY <3>3, <3>4, ZenonT(30) DEF Agrees
  <2> QED
    BY <2>1, <2>2
<1>5. ASSUME NEW g \in Handlers, alone'[g]
      PROVE  /\ pc'[g] = "track" /\ held'[g] => check'[id'[g]] = TTLStatus(newStatus'[g])
             /\ pc'[g] = "trackNew" /\ held'[g] => check'[id'[g]] = "passing"
             /\ pc'[g] = "mark" => check'[id'[g]] = "absent"
  <2>1. CASE g = h
    BY <1>5, <2>1
  <2>2. CASE g # h /\ id[g] \in IDs
    <3>1. id[g] # i
      BY <1>5, <2>2
    <3>2. id'[g] = id[g] /\ check'[id[g]] = check[id[g]] /\ alone[g]
      BY <1>5, <2>2, <3>1 DEF Frame
    <3> QED
      BY <1>0, <2>2, <3>2 DEF Frame, Agreement
  <2>3. CASE g # h /\ id[g] = NoID
    BY <1>0, <2>3 DEF Frame, Calls
  <2> QED
    BY <1>1, <2>1, <2>2, <2>3
<1>6. ASSUME NEW j \in IDs
      PROVE  Serially(j)'
  <2>1. CASE j = i
    BY <2>1
  <2>2. CASE j # i
    <3>1. \A g \in Handlers : (id'[g] = j <=> id[g] = j)
                              /\ (id[g] = j => pc'[g] = pc[g] /\ prev'[g] = prev[g]
                                               /\ newStatus'[g] = newStatus[g])
      BY <1>2, <2>2 DEF Frame
    <3>2. /\ tracking'[j] = tracking[j] /\ heard'[j] = heard[j] /\ serial'[j] = serial[j]
      BY <2>2 DEF Frame
    <3>3. (Tracked(j)' <=> Tracked(j)) /\ (Follows(j)' <=> Follows(j))
      BY <3>2 DEF Tracked, Follows
    <3>4. SUFFICES ASSUME serial[j] PROVE Serially(j)'
      BY <3>2 DEF Serially
    <3>5. \A g, k \in Handlers : id'[g] = j /\ id'[k] = j => g = k
      BY <1>0, <3>1, <3>4 DEF Serially
    <3>6. Tracked(j)' /\ (\A g \in Handlers : id'[g] = j => pc'[g] \notin Publishing)
            => Follows(j)'
      BY <1>0, <3>1, <3>3, <3>4 DEF Serially
    <3>7. \A g \in Handlers : id'[g] = j =>
            /\ pc'[g] \in {"update", "track"} => prev'[g] = tracking'[j].status
            /\ Tracked(j)' =>
                 /\ pc'[g] = "publishNew" => tracking'[j].status = "Healthy"
                 /\ pc'[g] = "publishGone" => tracking'[j].deregistered
                 /\ pc'[g] = "publish" => tracking'[j].status = newStatus'[g]
      BY <1>0, <3>1, <3>2, <3>3, <3>4 DEF Serially
    <3> QED
      BY <3>5, <3>6, <3>7 DEF Serially
  <2> QED
    BY <2>1, <2>2
<1> QED
  BY <1>3, <1>4, <1>5, <1>6 DEF IInv, Agreement

\* The same for a step of a call that is under way.
LEMMA ServingStep ==
  ASSUME IInv, TypeOK', NEW h \in Handlers, NEW i \in IDs, id[h] = i, Frame(h, i),
         id'[h] \in {i, NoID}, alone'[h] => alone[h],
         pc'[h] = "idle" <=> id'[h] = NoID,
         pc'[h] \in {"previous", "update", "track", "publish"} => newStatus'[h] \in Status,
         held'[h] => pc'[h] \in {"trackNew", "publishNew", "track", "publish"},
         /\ clean'[i] /\ Tracked(i)' /\ check'[i] # "absent"
         /\ pc'[h] \notin Midway
         /\ \A g \in Handlers \ {h} : id[g] = i => pc[g] \notin Midway
         => Agrees(i)',
         alone'[h] /\ id'[h] = i =>
           /\ pc'[h] = "track" /\ held'[h] => check'[i] = TTLStatus(newStatus'[h])
           /\ pc'[h] = "trackNew" /\ held'[h] => check'[i] = "passing"
           /\ pc'[h] = "mark" => check'[i] = "absent",
         serial'[i] => serial[i] \/ alone[h],
         serial'[i] /\ Tracked(i)' /\ pc'[h] \notin Publishing => Follows(i)',
         serial'[i] /\ id'[h] = i =>
           /\ pc'[h] \in {"update", "track"} => prev'[h] = tracking'[i].status
           /\ Tracked(i)' =>
                /\ pc'[h] = "publishNew" => tracking'[i].status = "Healthy"
                /\ pc'[h] = "publishGone" => tracking'[i].deregistered
                /\ pc'[h] = "publish" => tracking'[i].status = newStatus'[h]
  PROVE  IInv'
<1>0. Calls /\ (\A j \in IDs : Serially(j)) /\ i # NoID
  BY NoIDFresh DEF IInv
<1>1. \A g \in Handlers \ {h} : id[g] = i => ~alone'[g] /\ ~alone'[h]
  BY <1>0 DEF Calls, Frame
<1>2. /\ clean'[i] /\ Tracked(i)' /\ check'[i] # "absent"
      /\ \A g \in Handlers : id'[g] = i => pc'[g] \notin Midway
      => Agrees(i)'
  <2>1. ASSUME \A g \in Handlers : id'[g] = i => pc'[g] \notin Midway
        PROVE  /\ pc'[h] \notin Midway
               /\ \A g \in Handlers \ {h} : id[g] = i => pc[g] \notin Midway
    BY <2>1 DEF Frame, Midway
  <2> QED
    BY <2>1
<1>3. Serially(i)'
  <2>1. SUFFICES ASSUME serial'[i] PROVE Serially(i)'
    BY DEF Serially
  <2>2. \A g \in Handlers \ {h} : id[g] # i /\ id'[g] # i
    <3>1. ASSUME NEW g \in Handlers \ {h}
          PROVE  id[g] # i
      <4>1. CASE serial[i]
        BY <1>0, <4>1 DEF Serially
      <4>2. CASE alone[h]
        BY <1>0, <4>2 DEF Calls
      <4> QED
        BY <2>1, <4>1, <4>2
    <3> QED
      BY <3>1 DEF Frame
  <2>3. Tracked(i)' /\ (\A g \in Handlers : id'[g] = i => pc'[g] \notin Publishing)
          => Follows(i)'
    BY <2>1 DEF Publishing
  <2> QED
    BY <2>1, <2>2, <2>3 DEF Serially
<1> QED
  BY <1>1, <1>2, <1>3, HandlerStep

\* What has happened when a call returns.
LEMMA Returned ==
  ASSUME TypeOK, NEW h \in Handlers, Returns(h)
  PROVE  /\ pc'[h] = "idle" /\ id'[h] = NoID /\ ~alone'[h] /\ ~held'[h]
         /\ \A g \in Handlers \ {h} :
              /\ pc'[g] = pc[g] /\ id'[g] = id[g] /\ newStatus'[g] = newStatus[g]
              /\ prev'[g] = prev[g] /\ held'[g] = held[g] /\ alone'[g] = alone[g]
         /\ pc' \in [Handlers -> {"idle", "register", "pass", "trackNew", "publishNew",
              "deregister", "mark", "publishGone", "previous", "update", "track", "publish"}]
         /\ id' \in [Handlers -> IDs \cup {NoID}]
         /\ newStatus' \in [Handlers -> Status \cup {"none"}]
         /\ prev' \in [Handlers -> Status \cup {"none"}]
         /\ alone' \in [Handlers -> BOOLEAN] /\ held' \in [Handlers -> BOOLEAN]
BY DEF Returns, TypeOK

\* A call on i that Consul refuses.
LEMMA RefusedStep ==
  ASSUME IInv, NEW h \in Handlers, NEW i \in IDs, id[h] = i, NEW c \in CheckStatus \cup {"absent"},
         Refused(h, [check EXCEPT ![i] = c]), pc[h] \notin Publishing,
         UNCHANGED <<tracking, channel, heard, serial>>
  PROVE  IInv'
<1>0. TypeOK /\ Calls /\ Serially(i)
  BY DEF IInv
<1>1. Returns(h) /\ check' \in {check, [check EXCEPT ![i] = c]} /\ clean' = [clean EXCEPT ![i] = FALSE]
  BY DEF Refused
<1>2. /\ check' \in [IDs -> CheckStatus \cup {"absent"}] /\ clean' \in [IDs -> BOOLEAN]
      /\ ~clean'[i]
      /\ \A j \in IDs \ {i} : check'[j] = check[j] /\ clean'[j] = clean[j]
  BY <1>0, <1>1 DEF TypeOK
<1>3. TypeOK'
  BY <1>0, <1>1, <1>2, Returned DEF TypeOK
<1>4. Frame(h, i)
  BY <1>0, <1>1, <1>2, Returned DEF Frame
<1>5. serial[i] /\ Tracked(i) => Follows(i)
  <2>1. serial[i] => \A g \in Handlers : id[g] = i => g = h
    BY <1>0 DEF Serially
  <2> QED
    BY <1>0, <2>1 DEF Serially
<1>6. (Tracked(i)' <=> Tracked(i)) /\ (Follows(i)' <=> Follows(i)) /\ serial' = serial
  BY DEF Tracked, Follows
<1>7. pc'[h] = "idle" /\ id'[h] = NoID /\ ~alone'[h] /\ ~held'[h] /\ NoID # i
  BY <1>0, <1>1, Returned, NoIDFresh
<1> QED
  BY <1>2, <1>3, <1>4, <1>5, <1>6, <1>7, ServingStep

----------------------------------------------------------------------------
\* A call that is under way is on an ID.
LEMMA Serving ==
  ASSUME IInv, NEW h \in Handlers, pc[h] # "idle"
  PROVE  /\ TypeOK /\ Calls /\ Agreement /\ id[h] \in IDs /\ Serially(id[h])
         /\ serial[id[h]] => \A g \in Handlers : id[g] = id[h] => g = h
BY DEF IInv, TypeOK, Calls, Serially

\* What a call finds while it has not come to its own update of the map, or
\* has done it: Consul and the map as Agreement and Serially say.
LEMMA Found ==
  ASSUME IInv, NEW h \in Handlers, pc[h] # "idle"
  PROVE  LET i == id[h]
         IN  /\ /\ clean[i] /\ Tracked(i) /\ check[i] # "absent" /\ pc[h] \notin Midway
                /\ \A g \in Handlers \ {h} : id[g] = i => pc[g] \notin Midway
                => Agrees(i)
             /\ serial[i] /\ Tracked(i) /\ pc[h] \notin Publishing => Follows(i)
<1>1. /\ Agreement /\ id[h] \in IDs /\ Serially(id[h])
      /\ serial[id[h]] => \A g \in Handlers : id[g] = id[h] => g = h
  BY Serving
<1> QED
  BY <1>1 DEF Agreement, Serially

LEMMA RegisterSteps ==
  ASSUME IInv, NEW h \in Handlers, ServiceRegister(h) \/ PassInitialTTL(h) \/ TrackRegistered(h)
  PROVE  IInv'
<1>i. PICK i \in IDs : i = id[h]
  BY Serving DEF ServiceRegister, PassInitialTTL, TrackRegistered
<1>0. /\ pc[h] \in {"register", "pass", "trackNew"}
      /\ TypeOK /\ Calls /\ Agreement /\ Serially(i) /\ i # NoID /\ id[h] = i
  <2>1. pc[h] \in {"register", "pass", "trackNew"}
    BY DEF ServiceRegister, PassInitialTTL, TrackRegistered
  <2> QED
    BY <1>i, <2>1, Serving, NoIDFresh
<1>1. CASE ServiceRegister(h)
  <2>1. CASE Refused(h, [check EXCEPT ![i] = "critical"])
    BY <1>0, <1>1, <2>1, RefusedStep, Zenon DEF ServiceRegister, CheckStatus, Publishing
  <2>2. CASE /\ check' = [check EXCEPT ![i] = "critical"] \/ UNCHANGED check
             /\ Goto(h, "pass") /\ UNCHANGED <<locals, clean>>
    <3>1. UNCHANGED <<tracking, channel, heard, serial>> /\ pc[h] = "register"
      BY <1>1 DEF ServiceRegister
    <3>2. /\ check' \in [IDs -> CheckStatus \cup {"absent"}]
          /\ \A j \in IDs \ {i} : check'[j] = check[j]
          /\ pc'[h] = "pass" /\ \A g \in Handlers \ {h} : pc'[g] = pc[g]
      BY <1>0, <2>2 DEF TypeOK, CheckStatus, Goto
    <3>3. TypeOK'
      BY <1>0, <2>2, <3>1, <3>2 DEF TypeOK, Goto, locals
    <3>4. Frame(h, i)
      BY <2>2, <3>1, <3>2 DEF Frame, locals
    <3>5. serial[i] /\ Tracked(i) => Follows(i)
      BY <1>0, <3>1, Found DEF Publishing
    <3>6. (Tracked(i)' <=> Tracked(i)) /\ (Follows(i)' <=> Follows(i)) /\ id' = id
          /\ alone' = alone /\ held' = held /\ ~held[h]
      BY <1>0, <2>2, <3>1 DEF Tracked, Follows, locals, Calls
    <3> QED
      BY <1>0, <3>1, <3>2, <3>3, <3>4, <3>5, <3>6, ServingStep DEF Midway, Publishing
  <2> QED
    BY <1>0, <1>1, <2>1, <2>2 DEF ServiceRegister
<1>2. CASE PassInitialTTL(h)
  <2>1. /\ pc[h] = "pass" /\ pc' = [pc EXCEPT ![h] = "trackNew"] /\ ~held[h]
        /\ UNCHANGED <<tracking, channel, heard, id, newStatus, prev, alone, clean, serial>>
    BY <1>0, <1>2 DEF PassInitialTTL, Goto, Calls
  <2>2. \/ check' = [check EXCEPT ![i] = "passing"] /\ held' = [held EXCEPT ![h] = TRUE]
        \/ (UNCHANGED check \/ check' = [check EXCEPT ![i] = "passing"]) /\ UNCHANGED held
    BY <1>0, <1>2 DEF PassInitialTTL
  <2>3. /\ check' \in [IDs -> CheckStatus \cup {"absent"}] /\ held' \in [Handlers -> BOOLEAN]
        /\ \A j \in IDs \ {i} : check'[j] = check[j]
        /\ \A g \in Handlers \ {h} : held'[g] = held[g] /\ pc'[g] = pc[g]
        /\ pc'[h] = "trackNew"
        /\ held'[h] => check'[i] = "passing"
    <3>0. /\ check \in [IDs -> CheckStatus \cup {"absent"}] /\ held \in [Handlers -> BOOLEAN]
          /\ i \in IDs /\ "passing" \in CheckStatus
      BY <1>0 DEF TypeOK, CheckStatus
    <3>1. pc'[h] = "trackNew" /\ \A g \in Handlers \ {h} : pc'[g] = pc[g]
      BY <1>0, <2>1 DEF TypeOK
    <3>2. /\ check' \in [IDs -> CheckStatus \cup {"absent"}]
          /\ \A j \in IDs \ {i} : check'[j] = check[j]
      BY <2>2, <3>0
    <3>3. held' \in [Handlers -> BOOLEAN] /\ \A g \in Handlers \ {h} : held'[g] = held[g]
      BY <2>2, <3>0, Zenon
    <3>4. held'[h] => check'[i] = "passing"
      BY <2>1, <2>2, <3>0
    <3> QED
      BY <3>1, <3>2, <3>3, <3>4
  <2>4. TypeOK'
    BY <1>0, <2>1, <2>3, Zenon DEF TypeOK
  <2>5. Frame(h, i)
    BY <2>1, <2>3 DEF Frame
  <2>6. serial[i] /\ Tracked(i) => Follows(i)
    BY <1>0, <2>1, Found DEF Publishing
  <2>7. (Tracked(i)' <=> Tracked(i)) /\ (Follows(i)' <=> Follows(i))
    BY <2>1 DEF Tracked, Follows
  <2> QED
    BY <1>0, <2>1, <2>3, <2>4, <2>5, <2>6, <2>7, ServingStep DEF Midway, Publishing
<1>3. CASE TrackRegistered(h)
  <2>1. /\ pc[h] = "trackNew" /\ pc' = [pc EXCEPT ![h] = "publishNew"]
        /\ tracking' = [tracking EXCEPT ![i] = [status |-> "Healthy", deregistered |-> FALSE]]
        /\ clean' = [clean EXCEPT ![i] = alone[h] /\ held[h]]
        /\ serial' = [serial EXCEPT ![i] = alone[h]]
        /\ UNCHANGED <<check, channel, heard, locals>>
    BY <1>0, <1>3 DEF TrackRegistered, Goto
  <2>2. /\ tracking'[i] = [status |-> "Healthy", deregistered |-> FALSE]
        /\ (clean'[i] <=> alone[h] /\ held[h]) /\ (serial'[i] <=> alone[h])
        /\ \A j \in IDs \ {i} : /\ tracking'[j] = tracking[j]
                                /\ clean'[j] = clean[j] /\ serial'[j] = serial[j]
        /\ pc'[h] = "publishNew" /\ \A g \in Handlers \ {h} : pc'[g] = pc[g]
    BY <1>0, <2>1 DEF TypeOK
  <2>3. TypeOK'
    <3>1. tracking' \in [IDs -> {Untracked} \cup [status : Status, deregistered : BOOLEAN]]
      BY <1>0, <2>1 DEF TypeOK, Status
    <3>2. clean' \in [IDs -> BOOLEAN] /\ serial' \in [IDs -> BOOLEAN]
      BY <1>0, <2>1 DEF TypeOK
    <3> QED
      BY <1>0, <2>1, <3>1, <3>2 DEF TypeOK, locals
  <2>4. Frame(h, i)
    BY <2>1, <2>2 DEF Frame, locals
  <2>5. tracking'[i].status = "Healthy"
    BY <2>2
  <2>6. clean'[i] => Agrees(i)'
    <3>1. clean'[i] => check[i] = "passing" /\ check' = check
      BY <1>0, <2>1, <2>2 DEF Agreement
    <3>2. mapHealthStatus({"passing"}) = "Healthy"
      <4>1. "Healthy" \in Status /\ TTLStatus("Healthy") = "passing"
        BY DEF Status, TTLStatus
      <4> QED
        BY <4>1, RoundTrip
    <3> QED
      BY <2>5, <3>1, <3>2 DEF Agrees
  <2>7. id' = id /\ alone' = alone
    BY <2>1 DEF locals
  <2> QED
    BY <1>0, <2>2, <2>3, <2>4, <2>5, <2>6, <2>7, ServingStep DEF Publishing
<1> QED
  BY <1>1, <1>2, <1>3

\* Publishing comes last in each handler.
LEMMA PublishStep ==
  ASSUME IInv, NEW h \in Handlers, NEW i \in IDs, id[h] = i, pc[h] \in Publishing,
         NEW e \in Status \cup {"deregistered"}, Publish(i, e), Returns(h),
         UNCHANGED <<check, tracking, clean, serial>>,
         serial[i] /\ Tracked(i) =>
           e = tracking[i].status \/ (e = "deregistered" /\ tracking[i].deregistered)
  PROVE  IInv'
<1>0. TypeOK /\ pc[h] # "idle" /\ pc[h] \notin Midway /\ NoID # i
  BY NoIDFresh DEF IInv, Publishing, Midway
<1>1. /\ heard' \in [IDs -> Status \cup {"none", "lost", "deregistered"}]
      /\ channel' \in {"open", "closed"}
      /\ heard'[i] \in {e, "lost"}
      /\ \A j \in IDs \ {i} : heard'[j] = heard[j]
  BY <1>0 DEF Publish, TypeOK
<1>2. TypeOK'
  <2>1. /\ check' \in [IDs -> CheckStatus \cup {"absent"}]
        /\ tracking' \in [IDs -> {Untracked} \cup [status : Status, deregistered : BOOLEAN]]
        /\ clean' \in [IDs -> BOOLEAN] /\ serial' \in [IDs -> BOOLEAN]
    BY <1>0 DEF TypeOK
  <2>2. /\ pc' \in [Handlers -> {"idle", "register", "pass", "trackNew", "publishNew",
             "deregister", "mark", "publishGone", "previous", "update", "track", "publish"}]
        /\ id' \in [Handlers -> IDs \cup {NoID}]
        /\ newStatus' \in [Handlers -> Status \cup {"none"}]
        /\ prev' \in [Handlers -> Status \cup {"none"}]
        /\ alone' \in [Handlers -> BOOLEAN] /\ held' \in [Handlers -> BOOLEAN]
    BY <1>0, Returned
  <2> QED
    BY <1>1, <2>1, <2>2 DEF TypeOK
<1>3. Frame(h, i)
  BY <1>0, <1>1, Returned DEF Frame
<1>4. /\ clean'[i] = clean[i] /\ check'[i] = check[i] /\ serial'[i] = serial[i]
      /\ (Tracked(i)' <=> Tracked(i)) /\ (Agrees(i)' <=> Agrees(i))
  BY DEF Tracked, Agrees
<1>5. /\ clean[i] /\ Tracked(i) /\ check[i] # "absent"
      /\ \A g \in Handlers \ {h} : id[g] = i => pc[g] \notin Midway
      => Agrees(i)
  BY <1>0, Found
<1>6. serial[i] /\ Tracked(i) => Follows(i)'
  BY <1>1 DEF Follows
<1>7. pc'[h] = "idle" /\ id'[h] = NoID /\ ~alone'[h] /\ ~held'[h]
  BY <1>0, Returned
<1> QED
  BY <1>0, <1>2, <1>3, <1>4, <1>5, <1>6, <1>7, ServingStep

LEMMA PublishSteps ==
  ASSUME IInv, NEW h \in Handlers,
         PublishRegistered(h) \/ PublishDeregistered(h) \/ PublishHealthChanged(h)
  PROVE  IInv'
<1>i. PICK i \in IDs : i = id[h]
  BY Serving DEF PublishRegistered, PublishDeregistered, PublishHealthChanged
<1>0. Serially(i) /\ Calls
  BY <1>i DEF IInv
<1>1. CASE PublishRegistered(h)
  <2>1. serial[i] /\ Tracked(i) => "Healthy" = tracking[i].status
    BY <1>i, <1>0, <1>1 DEF Serially, PublishRegistered
  <2>2. /\ pc[h] \in Publishing /\ Publish(i, "Healthy") /\ Returns(h)
        /\ UNCHANGED <<check, tracking, clean, serial>>
    BY <1>i, <1>1 DEF PublishRegistered, Publishing
  <2>3. "Healthy" \in Status
    BY DEF Status
  <2> QED
    BY <1>i, <2>1, <2>2, <2>3, PublishStep
<1>2. CASE PublishDeregistered(h)
  <2>1. serial[i] /\ Tracked(i) => tracking[i].deregistered
    BY <1>i, <1>0, <1>2 DEF Serially, PublishDeregistered
  <2>2. /\ pc[h] \in Publishing /\ Publish(i, "deregistered") /\ Returns(h)
        /\ UNCHANGED <<check, tracking, clean, serial>>
    BY <1>i, <1>2 DEF PublishDeregistered, Publishing
  <2> QED
    BY <1>i, <2>1, <2>2, PublishStep
<1>3. CASE PublishHealthChanged(h)
  <2>1. serial[i] /\ Tracked(i) => newStatus[h] = tracking[i].status
    BY <1>i, <1>0, <1>3 DEF Serially, PublishHealthChanged
  <2>2. /\ pc[h] \in Publishing /\ Publish(i, newStatus[h]) /\ Returns(h)
        /\ UNCHANGED <<check, tracking, clean, serial>>
    BY <1>i, <1>3 DEF PublishHealthChanged, Publishing
  <2>3. newStatus[h] \in Status
    BY <1>0, <1>3 DEF Calls, PublishHealthChanged
  <2>4. PICK e \in Status : e = newStatus[h]
    BY <2>3
  <2> QED
    BY <1>i, <2>1, <2>2, <2>4, PublishStep
<1> QED
  BY <1>1, <1>2, <1>3

LEMMA DeregisterSteps ==
  ASSUME IInv, NEW h \in Handlers, ServiceDeregister(h) \/ MarkDeregistered(h)
  PROVE  IInv'
<1>i. PICK i \in IDs : i = id[h]
  BY Serving DEF ServiceDeregister, MarkDeregistered
<1>0. /\ TypeOK /\ Calls /\ Agreement /\ Serially(i) /\ i # NoID /\ id[h] = i
      /\ pc[h] \in {"deregister", "mark"} /\ ~held[h]
  <2>1. pc[h] \in {"deregister", "mark"}
    BY DEF ServiceDeregister, MarkDeregistered
  <2> QED
    BY <1>i, <2>1, NoIDFresh DEF IInv, Calls
<1>1. CASE ServiceDeregister(h)
  <2>1. CASE Refused(h, [check EXCEPT ![i] = "absent"])
    BY <1>0, <1>1, <2>1, RefusedStep DEF ServiceDeregister, Publishing
  <2>2. CASE check' = [check EXCEPT ![i] = "absent"] /\ Goto(h, "mark") /\ UNCHANGED <<locals, clean>>
    <3>1. UNCHANGED <<tracking, channel, heard, serial>> /\ pc[h] = "deregister"
      BY <1>1 DEF ServiceDeregister
    <3>2. /\ check' \in [IDs -> CheckStatus \cup {"absent"}] /\ check'[i] = "absent"
          /\ \A j \in IDs \ {i} : check'[j] = check[j]
          /\ pc'[h] = "mark" /\ \A g \in Handlers \ {h} : pc'[g] = pc[g]
      BY <1>0, <2>2 DEF TypeOK, Goto
    <3>3. TypeOK'
      BY <1>0, <2>2, <3>1, <3>2 DEF TypeOK, Goto, locals
    <3>4. Frame(h, i)
      BY <2>2, <3>1, <3>2 DEF Frame, locals
    <3>5. serial[i] /\ Tracked(i) => Follows(i)
      BY <1>0, <3>1, Found DEF Publishing
    <3>6. (Tracked(i)' <=> Tracked(i)) /\ (Follows(i)' <=> Follows(i)) /\ id' = id
          /\ alone' = alone /\ held' = held
      BY <2>2, <3>1 DEF Tracked, Follows, locals
    <3> QED
      BY <1>0, <3>1, <3>2, <3>3, <3>4, <3>5, <3>6, ServingStep, Zenon DEF Midway, Publishing
  <2> QED
    BY <1>0, <1>1, <2>1, <2>2 DEF ServiceDeregister
<1>2. CASE MarkDeregistered(h)
  <2>1. /\ pc[h] = "mark" /\ pc' = [pc EXCEPT ![h] = "publishGone"]
        /\ clean' = [clean EXCEPT ![i] = alone[h]]
        /\ UNCHANGED <<check, channel, heard, locals, serial>>
        /\ tracking' = IF Tracked(i)
                       THEN [tracking EXCEPT ![i] = [tracking[i] EXCEPT !.deregistered = TRUE]]
                       ELSE tracking
    BY <1>0, <1>2 DEF MarkDeregistered, Goto, TypeOK
  <2>2. Tracked(i) => /\ tracking[i] \in [status : Status, deregistered : BOOLEAN]
                      /\ [tracking[i] EXCEPT !.deregistered = TRUE]
                           \in [status : Status, deregistered : BOOLEAN]
    BY <1>0, TrackedStatus, Zenon
  <2>3. /\ tracking' \in [IDs -> {Untracked} \cup [status : Status, deregistered : BOOLEAN]]
        /\ \A j \in IDs \ {i} : tracking'[j] = tracking[j] /\ clean'[j] = clean[j]
        /\ pc'[h] = "publishGone" /\ \A g \in Handlers \ {h} : pc'[g] = pc[g]
    BY <1>0, <2>1, <2>2 DEF TypeOK
  <2>4. Tracked(i)' => tracking'[i].deregistered
    <3>1. CASE Tracked(i)
      <4>1. tracking'[i] = [tracking[i] EXCEPT !.deregistered = TRUE]
        BY <1>0, <2>1, <3>1 DEF TypeOK
      <4> QED
        BY <2>2, <3>1, <4>1
    <3>2. CASE ~Tracked(i)
      BY <2>1, <3>2 DEF Tracked
    <3> QED
      BY <3>1, <3>2
  <2>5. TypeOK'
    <3>1. clean' \in [IDs -> BOOLEAN]
      BY <1>0, <2>1 DEF TypeOK
    <3> QED
      BY <1>0, <2>1, <2>3, <3>1 DEF TypeOK, locals
  <2>6. Frame(h, i)
    BY <2>1, <2>3 DEF Frame, locals
  <2>7. clean'[i] => check'[i] = "absent"
    <3>1. clean'[i] = alone[h]
      BY <1>0, <2>1 DEF TypeOK
    <3>2. alone[h] => check[i] = "absent"
      BY <1>0, <2>1 DEF Agreement
    <3> QED
      BY <2>1, <3>1, <3>2
  <2>8. id' = id /\ alone' = alone /\ held' = held /\ serial' = serial
    BY <2>1 DEF locals
  <2> QED
    BY <1>0, <2>3, <2>4, <2>5, <2>6, <2>7, <2>8, ServingStep DEF Publishing
<1> QED
  BY <1>1, <1>2

LEMMA ReportSteps ==
  ASSUME IInv, NEW h \in Handlers, ReadPrevious(h) \/ UpdateHealth(h) \/ TrackHealth(h)
  PROVE  IInv'
<1>i. PICK i \in IDs : i = id[h]
  BY Serving DEF ReadPrevious, UpdateHealth, TrackHealth
<1>0. /\ TypeOK /\ Calls /\ Agreement /\ Serially(i) /\ i # NoID /\ id[h] = i
      /\ pc[h] \in {"previous", "update", "track"} /\ newStatus[h] \in Status
  <2>1. pc[h] \in {"previous", "update", "track"}
    BY DEF ReadPrevious, UpdateHealth, TrackHealth
  <2> QED
    BY <1>i, <2>1, NoIDFresh DEF IInv, Calls
<1>s. PICK s \in Status : s = newStatus[h]
  BY <1>0
<1>1. CASE ReadPrevious(h)
  <2>1. /\ pc[h] = "previous" /\ pc' = [pc EXCEPT ![h] = "update"]
        /\ prev' = [prev EXCEPT ![h] = tracking[i].status]
        /\ UNCHANGED <<check, tracking, channel, heard, id, newStatus, alone, held, clean, serial>>
    BY <1>0, <1>1 DEF ReadPrevious, Goto
  <2>2. tracking[i].status \in Status \cup {"none"}
    BY <1>0, TrackedStatus
  <2>3. TypeOK'
    BY <1>0, <2>1, <2>2 DEF TypeOK
  <2>4. /\ pc'[h] = "update" /\ prev'[h] = tracking'[i].status
        /\ \A g \in Handlers \ {h} : pc'[g] = pc[g] /\ prev'[g] = prev[g]
    BY <1>0, <2>1 DEF TypeOK
  <2>5. Frame(h, i)
    BY <2>1, <2>4 DEF Frame
  <2>6. /\ /\ clean[i] /\ Tracked(i) /\ check[i] # "absent"
           /\ \A g \in Handlers \ {h} : id[g] = i => pc[g] \notin Midway
           => Agrees(i)
        /\ serial[i] /\ Tracked(i) => Follows(i)
    BY <1>0, <2>1, Found DEF Midway, Publishing
  <2>7. /\ (Tracked(i)' <=> Tracked(i)) /\ (Follows(i)' <=> Follows(i)) /\ (Agrees(i)' <=> Agrees(i))
        /\ ~held[h]
    BY <1>0, <2>1 DEF Tracked, Follows, Agrees, Calls
  <2> QED
    BY <1>0, <2>1, <2>3, <2>4, <2>5, <2>6, <2>7, ServingStep
<1>2. CASE UpdateHealth(h)
  <2> DEFINE c == IF check[i] = "absent" THEN "absent" ELSE TTLStatus(s)
             updated == [check EXCEPT ![i] = c]
  <2>1. /\ pc[h] = "update" /\ UNCHANGED <<tracking, channel, heard, serial>>
        /\ \/ /\ check[i] # "absent" /\ check' = updated /\ held' = [held EXCEPT ![h] = TRUE]
              /\ pc' = [pc EXCEPT ![h] = "track"]
              /\ UNCHANGED <<id, newStatus, prev, alone, clean>>
           \/ Refused(h, updated)
    BY <1>0, <1>2, <1>s, Zenon DEF UpdateHealth, Goto
  <2>2. c \in CheckStatus \cup {"absent"}
    BY RoundTrip, Zenon
  <2>3. PICK d \in CheckStatus \cup {"absent"} : d = c
    BY <2>2
  <2>4. CASE Refused(h, updated)
    BY <1>0, <2>1, <2>3, <2>4, RefusedStep DEF Publishing
  <2>5. CASE /\ check[i] # "absent" /\ check' = updated /\ held' = [held EXCEPT ![h] = TRUE]
             /\ pc' = [pc EXCEPT ![h] = "track"]
             /\ UNCHANGED <<id, newStatus, prev, alone, clean>>
    <3>1. /\ check' \in [IDs -> CheckStatus \cup {"absent"}] /\ check'[i] = TTLStatus(newStatus'[h])
          /\ \A j \in IDs \ {i} : check'[j] = check[j]
      BY <1>0, <1>s, <2>2, <2>5 DEF TypeOK
    <3>2. /\ pc'[h] = "track"
          /\ \A g \in Handlers \ {h} : pc'[g] = pc[g] /\ held'[g] = held[g]
      BY <1>0, <2>5 DEF TypeOK
    <3>3. TypeOK'
      BY <1>0, <2>1, <2>5, <3>1 DEF TypeOK
    <3>4. Frame(h, i)
      BY <2>1, <2>5, <3>1, <3>2, Zenon DEF Frame
    <3>5. serial[i] /\ Tracked(i) => Follows(i)
      BY <1>0, <2>1, Found, Zenon DEF Publishing
    <3>6. (Tracked(i)' <=> Tracked(i)) /\ (Follows(i)' <=> Follows(i))
      BY <2>1, Zenon DEF Tracked, Follows
    <3>7. serial'[i] => prev'[h] = tracking'[i].status
      BY <1>0, <2>1, <2>5, Zenon DEF Serially
    <3>8. id'[h] = i /\ alone' = alone /\ serial' = serial /\ newStatus'[h] \in Status
      BY <1>0, <2>1, <2>5
    <3> HIDE DEF updated
    <3> QED
      BY <1>0, <3>1, <3>2, <3>3, <3>4, <3>5, <3>6, <3>7, <3>8, ServingStep, Zenon DEF Midway
  <2> QED
    BY <2>1, <2>4, <2>5
<1>3. CASE TrackHealth(h)
  <2>1. /\ pc[h] = "track" /\ clean' = [clean EXCEPT ![i] = alone[h] /\ held[h]]
        /\ UNCHANGED <<check, channel, heard, serial>>
        /\ tracking' = IF Tracked(i)
                       THEN [tracking EXCEPT ![i] = [tracking[i] EXCEPT !.status = s]]
                       ELSE tracking
        /\ IF StatusChanged(h) THEN pc' = [pc EXCEPT ![h] = "publish"] /\ UNCHANGED locals
           ELSE Returns(h)
    BY <1>0, <1>3, <1>s DEF TrackHealth, Goto, TypeOK
  <2>2. Tracked(i) => /\ tracking[i] \in [status : Status, deregistered : BOOLEAN]
                      /\ [tracking[i] EXCEPT !.status = s]
                           \in [status : Status, deregistered : BOOLEAN]
    BY <1>0, TrackedStatus
  <2>3. /\ tracking' \in [IDs -> {Untracked} \cup [status : Status, deregistered : BOOLEAN]]
        /\ \A j \in IDs \ {i} : tracking'[j] = tracking[j] /\ clean'[j] = clean[j]
        /\ Tracked(i) => tracking'[i] = [tracking[i] EXCEPT !.status = s]
        /\ ~Tracked(i) => ~Tracked(i)'
    BY <1>0, <2>1, <2>2 DEF TypeOK, Tracked
  <2>4. Tracked(i)' => /\ Tracked(i) /\ tracking'[i].status = s
                       /\ tracking'[i].deregistered = tracking[i].deregistered
    BY <2>2, <2>3
  <2>5. clean' \in [IDs -> BOOLEAN] /\ (clean'[i] <=> alone[h] /\ held[h])
    BY <1>0, <2>1 DEF TypeOK
  <2>6. clean'[i] /\ Tracked(i)' => Agrees(i)'
    <3>1. clean'[i] => check'[i] = TTLStatus(s)
      BY <1>0, <1>s, <2>1, <2>5 DEF Agreement
    <3> QED
      BY <2>4, <3>1, RoundTrip DEF Agrees
  <2>7. CASE StatusChanged(h)
    <3>1. pc' = [pc EXCEPT ![h] = "publish"] /\ UNCHANGED locals
      BY <2>1, <2>7
    <3>2. pc'[h] = "publish" /\ \A g \in Handlers \ {h} : pc'[g] = pc[g]
      BY <1>0, <3>1 DEF TypeOK
    <3>3. TypeOK'
      BY <1>0, <2>1, <2>3, <2>5, <3>1 DEF TypeOK, locals
    <3>4. Frame(h, i)
      BY <2>1, <2>3, <3>1, <3>2 DEF Frame, locals
    <3>5. id'[h] = i /\ alone' = alone /\ serial' = serial /\ newStatus'[h] = s
      BY <1>0, <1>s, <2>1, <3>1 DEF locals
    <3> QED
      BY <1>0, <2>4, <2>6, <3>2, <3>3, <3>4, <3>5, ServingStep, Zenon DEF Publishing
  <2>8. CASE ~StatusChanged(h)
    <3>1. Returns(h)
      BY <2>1, <2>8
    <3>2. TypeOK'
      BY <1>0, <2>1, <2>3, <2>5, <3>1, Returned DEF TypeOK
    <3>3. Frame(h, i)
      BY <1>0, <2>1, <2>3, <3>1, Returned DEF Frame
    <3>4. pc'[h] = "idle" /\ id'[h] = NoID /\ ~alone'[h] /\ ~held'[h]
      BY <1>0, <3>1, Returned, Zenon
    <3>5. serial'[i] /\ Tracked(i)' => Follows(i)'
      <4>1. SUFFICES ASSUME serial[i], Tracked(i)' PROVE Follows(i)'
        BY <2>1
      <4>2. prev[h] = tracking[i].status /\ Tracked(i) /\ Follows(i)
        BY <1>0, <2>1, <2>4, <4>1, Found DEF Serially, Publishing
      <4>3. prev[h] = s
        BY <1>0, <1>s, <2>8, <4>2, TrackedStatus DEF StatusChanged
      <4>4. tracking'[i].status = tracking[i].status
            /\ tracking'[i].deregistered = tracking[i].deregistered
        BY <2>4, <4>1, <4>2, <4>3
      <4> QED
        BY <2>1, <4>2, <4>4 DEF Follows
    <3> QED
      BY <1>0, <2>1, <2>6, <3>2, <3>3, <3>4, <3>5, ServingStep
  <2> QED
    BY <2>7, <2>8
<1> QED
  BY <1>1, <1>2, <1>3

\* A call arrives: nothing is known of the overlapping ones any more.
LEMMA ArriveStep ==
  ASSUME IInv, NEW h \in Handlers, NEW i \in IDs,
         Register(h, i) \/ Deregister(h, i) \/ \E s \in Status : ReportHealth(h, i, s)
  PROVE  IInv'
<1> DEFINE others == {g \in Handlers : id[g] = i}
<1>0. TypeOK /\ Calls /\ Agreement /\ Serially(i) /\ i # NoID
  BY NoIDFresh DEF IInv
<1>1. PICK step \in {"register", "deregister", "previous"} : Arrives(h, i, step)
  BY DEF Register, Deregister, ReportHealth
<1>2. /\ UNCHANGED <<check, tracking, channel, heard, prev, held, clean>>
      /\ newStatus' \in [Handlers -> Status \cup {"none"}]
      /\ \A g \in Handlers \ {h} : newStatus'[g] = newStatus[g]
      /\ step = "previous" => newStatus'[h] \in Status
  <2>0. newStatus \in [Handlers -> Status \cup {"none"}]
        /\ pc \in [Handlers -> {"idle", "register", "pass", "trackNew", "publishNew",
             "deregister", "mark", "publishGone", "previous", "update", "track", "publish"}]
    BY <1>0 DEF TypeOK
  <2>1. CASE Register(h, i) \/ Deregister(h, i)
    <3>1. pc'[h] = step /\ pc'[h] \in {"register", "deregister"}
      BY <1>1, <2>0, <2>1 DEF Register, Deregister, Arrives
    <3> QED
      BY <2>0, <2>1, <3>1 DEF Register, Deregister
  <2>2. ASSUME NEW s \in Status, ReportHealth(h, i, s)
        PROVE  /\ UNCHANGED <<check, tracking, channel, heard, prev, held, clean>>
               /\ newStatus' \in [Handlers -> Status \cup {"none"}]
               /\ \A g \in Handlers \ {h} : newStatus'[g] = newStatus[g]
               /\ step = "previous" => newStatus'[h] \in Status
    <3>1. newStatus' = [newStatus EXCEPT ![h] = s]
      BY <2>2 DEF ReportHealth
    <3> QED
      BY <2>0, <2>2, <3>1 DEF ReportHealth
  <2> QED
    BY <2>1, <2>2
<1>3. /\ pc[h] = "idle" /\ id[h] = NoID /\ pc'[h] = step /\ id'[h] = i /\ ~held[h]
      /\ \A g \in Handlers \ {h} : pc'[g] = pc[g] /\ id'[g] = id[g]
      /\ \A g \in Handlers \ {h} : alone'[g] => alone[g] /\ g \notin others
      /\ alone'[h] => others = {}
      /\ serial'[i] => serial[i] /\ others = {}
      /\ \A j \in IDs \ {i} : serial'[j] = serial[j]
  BY <1>0, <1>1 DEF Arrives, TypeOK, Calls
<1>4. TypeOK'
  <2>1. pc' \in [Handlers -> {"idle", "register", "pass", "trackNew", "publishNew",
          "deregister", "mark", "publishGone", "previous", "update", "track", "publish"}]
    BY <1>0, <1>1 DEF Arrives, TypeOK
  <2>2. id' \in [Handlers -> IDs \cup {NoID}]
    BY <1>0, <1>1 DEF Arrives, TypeOK
  <2>3. alone' \in [Handlers -> BOOLEAN]
    BY <1>0, <1>1, Zenon DEF Arrives, TypeOK
  <2>4. serial' \in [IDs -> BOOLEAN]
    BY <1>0, <1>1 DEF Arrives, TypeOK
  <2> QED
    BY <1>0, <1>2, <2>1, <2>2, <2>3, <2>4 DEF TypeOK
<1>5. Frame(h, i)
  BY <1>2, <1>3 DEF Frame
<1>6. /\ clean'[i] /\ Tracked(i)' /\ check'[i] # "absent"
      /\ \A g \in Handlers : id'[g] = i => pc'[g] \notin Midway
      => Agrees(i)'
  <2>1. (\A g \in Handlers : id'[g] = i => pc'[g] \notin Midway)
          => \A g \in Handlers : id[g] = i => pc[g] \notin Midway
    BY <1>0, <1>3, Zenon
  <2> QED
    BY <1>0, <1>2, <2>1 DEF Agreement, Tracked, Agrees
<1>7. Serially(i)'
  <2>1. SUFFICES ASSUME serial'[i] PROVE Serially(i)'
    BY DEF Serially
  <2>2. serial[i] /\ \A g \in Handlers : id[g] # i
    BY <1>3, <2>1
  <2>3. Tracked(i) => Follows(i)
    BY <1>0, <2>2 DEF Serially
  <2>4. \A g \in Handlers : id'[g] = i => g = h
    BY <1>3, <2>2
  <2>5. (Tracked(i)' <=> Tracked(i)) /\ (Follows(i)' <=> Follows(i))
    BY <1>2 DEF Tracked, Follows
  <2> QED
    BY <1>3, <2>3, <2>4, <2>5 DEF Serially
<1>8. \A g \in Handlers \ {h} : id[g] = i => ~alone'[g] /\ ~alone'[h]
  BY <1>3
<1> HIDE DEF others
<1> QED
  BY <1>0, <1>2, <1>3, <1>4, <1>5, <1>6, <1>7, <1>8, HandlerStep, Zenon

\* Serially is about the handlers, the tracking map and the subscribers only.
LEMMA SeriallyKept ==
  ASSUME NEW j \in IDs, Serially(j),
         UNCHANGED <<tracking, heard, pc, id, newStatus, prev, serial>>
  PROVE  Serially(j)'
<1>1. (Tracked(j)' <=> Tracked(j)) /\ (Follows(j)' <=> Follows(j))
  BY DEF Tracked, Follows
<1> QED
  BY <1>1 DEF Serially

\* Consul expires or removes a check.
LEMMA ConsulStep ==
  ASSUME IInv, NEW i \in IDs, TTLExpires(i) \/ Reaped(i)
  PROVE  IInv'
<1>0. TypeOK /\ Calls /\ Agreement /\ \A j \in IDs : Serially(j)
  BY DEF IInv
<1>1. PICK c \in {"critical", "absent"} : ConsulMoves(i, c) /\ check[i] # "absent"
  BY DEF TTLExpires, Reaped
<1>2. /\ check' \in [IDs -> CheckStatus \cup {"absent"}] /\ clean' \in [IDs -> BOOLEAN]
      /\ held' \in [Handlers -> BOOLEAN]
      /\ ~clean'[i] /\ \A j \in IDs \ {i} : check'[j] = check[j] /\ clean'[j] = clean[j]
      /\ \A h \in Handlers : held'[h] => held[h] /\ id[h] # i
      /\ UNCHANGED <<tracking, channel, heard, pc, id, newStatus, prev, alone, serial>>
  BY <1>0, <1>1, Zenon DEF ConsulMoves, TypeOK, CheckStatus
<1>3. TypeOK'
  BY <1>0, <1>2 DEF TypeOK
<1>4. Calls'
  BY <1>0, <1>2, Zenon DEF Calls
<1>5. Agreement'
  <2>1. ASSUME NEW j \in IDs, clean'[j], Tracked(j)', check'[j] # "absent",
               \A h \in Handlers : id'[h] = j => pc'[h] \notin Midway
        PROVE  Agrees(j)'
    <3>1. j # i
      BY <1>2, <2>1
    <3> QED
      BY <1>0, <1>2, <2>1, <3>1 DEF Agreement, Tracked, Agrees
  <2>2. ASSUME NEW h \in Handlers, alone'[h]
        PROVE  /\ pc'[h] = "track" /\ held'[h] => check'[id'[h]] = TTLStatus(newStatus'[h])
               /\ pc'[h] = "trackNew" /\ held'[h] => check'[id'[h]] = "passing"
               /\ pc'[h] = "mark" => check'[id'[h]] = "absent"
    <3>1. pc[h] # "idle" => id[h] \in IDs
      BY <1>0 DEF Calls, TypeOK
    <3>2. pc[h] = "mark" => id[h] # i
      BY <1>0, <1>1, <1>2, <2>2, Zenon DEF Agreement
    <3> QED
      BY <1>0, <1>2, <2>2, <3>1, <3>2 DEF Agreement
  <2> QED
    BY <2>1, <2>2 DEF Agreement
<1>6. \A j \in IDs : Serially(j)'
  <2>1. UNCHANGED <<tracking, heard, pc, id, newStatus, prev, serial>>
    BY <1>2, Zenon
  <2> QED
    BY <1>0, <2>1, SeriallyKept
<1> QED
  BY <1>3, <1>4, <1>5, <1>6 DEF IInv

\* The server starts with nothing tracked and no call.
LEMMA FreshServer ==
  ASSUME TypeOK, \A h \in Handlers : pc[h] = "idle" /\ id[h] = NoID /\ ~held[h],
         \A i \in IDs : ~Tracked(i)
  PROVE  IInv
<1>1. Calls
  BY DEF Calls
<1>2. Agreement
  BY DEF Agreement
<1>3. \A i \in IDs : Serially(i)
  BY NoIDFresh DEF Serially
<1> QED
  BY <1>1, <1>2, <1>3 DEF IInv

LEMMA DiscoveryInit ==
  ASSUME Init
  PROVE  IInv
<1>1. TypeOK
  BY DEF Init, TypeOK
<1>2. (\A h \in Handlers : pc[h] = "idle" /\ id[h] = NoID /\ ~held[h]) /\ \A i \in IDs : ~Tracked(i)
  BY DEF Init, Tracked
<1> QED
  BY <1>1, <1>2, FreshServer

LEMMA DiscoveryStep ==
  ASSUME IInv, [Next]_vars
  PROVE  IInv'
<1>0. TypeOK /\ Calls /\ Agreement /\ \A j \in IDs : Serially(j)
  BY DEF IInv
<1>1. CASE Restart
  <2>1. TypeOK'
    BY <1>0, <1>1 DEF Restart, TypeOK
  <2>2. /\ \A h \in Handlers : pc'[h] = "idle" /\ id'[h] = NoID /\ ~held'[h]
        /\ \A i \in IDs : ~Tracked(i)'
    BY <1>1 DEF Restart, Tracked
  <2>3. Calls'
    BY <2>2 DEF Calls
  <2>4. Agreement'
    BY <2>2 DEF Agreement
  <2>5. \A i \in IDs : Serially(i)'
    BY <2>2, NoIDFresh DEF Serially
  <2> QED
    BY <2>1, <2>3, <2>4, <2>5 DEF IInv
<1>2. CASE ChannelCloses \/ UNCHANGED vars
  <2>1. /\ channel' \in {"open", "closed"}
        /\ UNCHANGED <<check, tracking, heard, pc, id, newStatus, prev, alone, held, clean, serial>>
    BY <1>0, <1>2 DEF ChannelCloses, vars, locals, TypeOK
  <2>2. TypeOK'
    BY <1>0, <2>1 DEF TypeOK
  <2>3. Calls'
    BY <1>0, <2>1 DEF Calls
  <2>4. Agreement'
    BY <1>0, <2>1 DEF Agreement, Tracked, Agrees
  <2>5. \A i \in IDs : Serially(i)'
    <3>1. UNCHANGED <<tracking, heard, pc, id, newStatus, prev, serial>>
      BY <2>1
    <3> QED
      BY <1>0, <3>1, SeriallyKept
  <2> QED
    BY <2>2, <2>3, <2>4, <2>5 DEF IInv
<1> QED
  BY <1>1, <1>2, ArriveStep, RegisterSteps, DeregisterSteps, ReportSteps, PublishSteps,
     ConsulStep DEF Next

LEMMA DiscoveryInvariant == Spec => []IInv
BY DiscoveryInit, DiscoveryStep, PTL DEF Spec

(***************************************************************************)
(* The variables of the discovery server keep their types; a record of the *)
(* tracking map always has a status.                                       *)
(***************************************************************************)
THEOREM DiscoveryTypeCorrect == Spec => []TypeOK
<1>1. IInv => TypeOK
  BY DEF IInv
<1> QED
  BY <1>1, DiscoveryInvariant, PTL

(***************************************************************************)
(* A Register, Deregister or ReportHealth that no call on the same ID      *)
(* overlaps, and that Consul accepts, leaves Consul and the tracking map   *)
(* in agreement, whatever the calls before it have left behind.            *)
(***************************************************************************)
THEOREM AloneAgrees == Spec => []AloneCallAgrees
<1>1. IInv => AloneCallAgrees
  BY DEF IInv, Agreement, AloneCallAgrees, Quiet, Agrees
<1> QED
  BY <1>1, DiscoveryInvariant, PTL

(***************************************************************************)
(* As long as the calls on an ID do not overlap, the last event published  *)
(* for it says what the tracking map says, unless that event was lost.     *)
(***************************************************************************)
THEOREM SerialEvents == Spec => []SerialEventsFollow
<1>1. IInv => SerialEventsFollow
  BY Zenon DEF IInv, Serially, SerialEventsFollow, Quiet, Follows
<1> QED
  BY <1>1, DiscoveryInvariant, PTL

----------------------------------------------------------------------------
(* Reports that run alone. *)

\* The status that a report has read is the tracked one while no other call on
\* its ID has overlapped it.
Current ==
  \A h \in Handlers : alone[h] /\ pc[h] \in {"update", "track"}
                        => prev[h] = tracking[id[h]].status

\* A step of h changes the record of its own ID only, which no other call has
\* to itself: it is enough to look at h.
LEMMA CurrentStep ==
  ASSUME IInv, Current, NEW h \in Handlers,
         \A g \in Handlers \ {h} :
           /\ pc'[g] = pc[g] /\ id'[g] = id[g] /\ prev'[g] = prev[g]
           /\ alone'[g] => alone[g],
         \A j \in IDs : j # id[h] => tracking'[j] = tracking[j],
         alone'[h] /\ pc'[h] \in {"update", "track"} => prev'[h] = tracking'[id'[h]].status
  PROVE  Current'
<1>1. ASSUME NEW g \in Handlers \ {h}, alone'[g], pc'[g] \in {"update", "track"}
      PROVE  prev'[g] = tracking'[id'[g]].status
  <2>1. alone[g] /\ pc[g] \in {"update", "track"} /\ id'[g] = id[g] /\ prev'[g] = prev[g]
    BY <1>1
  <2>2. id[g] \in IDs /\ id[g] # id[h]
    BY <2>1 DEF IInv, TypeOK, Calls
  <2>3. prev[g] = tracking[id[g]].status
    BY <2>1 DEF Current
  <2> QED
    BY <2>1, <2>2, <2>3
<1> QED
  BY <1>1 DEF Current

LEMMA CurrentAlways == Spec => []Current
<1>1. Init => Current
  BY DEF Init, Current
<1>2. ASSUME IInv, Current, [Next]_vars
      PROVE  Current'
  <2>0. TypeOK
    BY <1>2 DEF IInv
  <2>1. ASSUME NEW h \in Handlers, NEW i \in IDs,
               Register(h, i) \/ Deregister(h, i) \/ \E s \in Status : ReportHealth(h, i, s)
        PROVE  Current'
    <3>1. PICK step \in {"register", "deregister", "previous"} : Arrives(h, i, step)
      BY <2>1 DEF Register, Deregister, ReportHealth
    <3>2. UNCHANGED <<tracking, prev>>
      BY <2>1 DEF Register, Deregister, ReportHealth
    <3>3. pc'[h] = step
      BY <2>0, <3>1 DEF Arrives, TypeOK
    <3>4. \A g \in Handlers \ {h} :
            pc'[g] = pc[g] /\ id'[g] = id[g] /\ (alone'[g] => alone[g])
      BY <2>0, <3>1 DEF Arrives, TypeOK
    <3> QED
      BY <1>2, <3>2, <3>3, <3>4, CurrentStep
  <2>2. ASSUME NEW h \in Handlers, ServiceRegister(h) \/ PassInitialTTL(h)
                 \/ TrackRegistered(h) \/ ServiceDeregister(h) \/ MarkDeregistered(h)
        PROVE  Current'
    <3>1. /\ \A g \in Handlers \ {h} :
               pc'[g] = pc[g] /\ id'[g] = id[g] /\ prev'[g] = prev[g] /\ alone'[g] = alone[g]
          /\ pc'[h] \in {"pass", "idle", "trackNew", "publishNew", "mark", "publishGone"}
      BY <2>0, <2>2, Returned
      DEF ServiceRegister, PassInitialTTL, TrackRegistered, ServiceDeregister,
          MarkDeregistered, Refused, Goto, locals, TypeOK
    <3>2. \A j \in IDs : j # id[h] => tracking'[j] = tracking[j]
      BY <2>0, <2>2 DEF ServiceRegister, PassInitialTTL, TrackRegistered, ServiceDeregister,
          MarkDeregistered, TypeOK
    <3> QED
      BY <1>2, <3>1, <3>2, CurrentStep
  <2>3. ASSUME NEW h \in Handlers,
               PublishRegistered(h) \/ PublishDeregistered(h) \/ PublishHealthChanged(h)
        PROVE  Current'
    <3>1. Returns(h) /\ UNCHANGED tracking
      BY <2>3 DEF PublishRegistered, PublishDeregistered, PublishHealthChanged
    <3> QED
      BY <1>2, <2>0, <3>1, Returned, CurrentStep
  <2>4. ASSUME NEW h \in Handlers, ReadPrevious(h)
        PROVE  Current'
    <3>1. /\ prev'[h] = tracking[id[h]].status /\ UNCHANGED <<tracking, id, alone>>
          /\ \A g \in Handlers \ {h} : pc'[g] = pc[g] /\ prev'[g] = prev[g]
      BY <2>0, <2>4 DEF ReadPrevious, Goto, TypeOK
    <3> QED
      BY <1>2, <3>1, CurrentStep
  <2>5. ASSUME NEW h \in Handlers, UpdateHealth(h)
        PROVE  Current'
    <3>1. UNCHANGED tracking /\ pc[h] = "update"
      BY <2>5 DEF UpdateHealth
    <3>2. CASE Returns(h)
      BY <1>2, <2>0, <3>1, <3>2, Returned, CurrentStep
    <3>3. CASE Goto(h, "track") /\ UNCHANGED <<id, prev, alone>>
      <4>1. \A g \in Handlers \ {h} : pc'[g] = pc[g]
        BY <2>0, <3>3 DEF Goto, TypeOK
      <4>2. alone[h] => prev[h] = tracking[id[h]].status
        BY <1>2, <3>1 DEF Current
      <4> QED
        BY <1>2, <3>1, <3>3, <4>1, <4>2, CurrentStep
    <3> QED
      BY <2>5, <3>2, <3>3 DEF UpdateHealth, Refused
  <2>6. ASSUME NEW h \in Handlers, TrackHealth(h)
        PROVE  Current'
    <3>1. /\ \A g \in Handlers \ {h} :
               pc'[g] = pc[g] /\ id'[g] = id[g] /\ prev'[g] = prev[g] /\ alone'[g] = alone[g]
          /\ pc'[h] \in {"idle", "publish"}
      BY <2>0, <2>6, Returned DEF TrackHealth, Goto, locals, TypeOK
    <3>2. \A j \in IDs : j # id[h] => tracking'[j] = tracking[j]
      BY <2>0, <2>6 DEF TrackHealth, TypeOK
    <3> QED
      BY <1>2, <3>1, <3>2, CurrentStep
  <2>7. CASE Restart
    BY <2>7 DEF Restart, Current
  <2>8. CASE ChannelCloses \/ UNCHANGED vars
    BY <1>2, <2>8 DEF ChannelCloses, vars, locals, Current
  <2>9. ASSUME NEW i \in IDs, TTLExpires(i) \/ Reaped(i)
        PROVE  Current'
    BY <1>2, <2>9 DEF TTLExpires, Reaped, ConsulMoves, Current
  <2> QED
    BY <1>2, <2>1, <2>2, <2>3, <2>4, <2>5, <2>6, <2>7, <2>8, <2>9 DEF Next
<1> QED
  BY <1>1, <1>2, DiscoveryInvariant, PTL DEF Spec

(***************************************************************************)
(* A ReportHealth that no call on the same ID overlaps publishes an event  *)
(* exactly when it changes the tracked status, for any handlers and IDs:   *)
(* the comment in server.go holds of all calls that run alone.             *)
(***************************************************************************)
THEOREM AloneReports == Spec => AloneReportAnnounces
<1>1. ASSUME IInv, Current, NEW h \in Handlers, TrackHealth(h), Tracked(id[h]), alone[h]
      PROVE  AnnouncesChange(h)
  <2>0. TypeOK
    BY <1>1 DEF IInv
  <2>1. pc[h] = "track" /\ id[h] \in IDs
    BY <1>1, Serving DEF TrackHealth
  <2>2. prev[h] = tracking[id[h]].status /\ prev[h] # "none"
    BY <1>1, <2>0, <2>1, TrackedStatus DEF Current
  <2>3. tracking'[id[h]].status = newStatus[h]
    <3>1. tracking[id[h]] \in [status : Status, deregistered : BOOLEAN]
      BY <1>1, <2>0, <2>1, TrackedStatus
    <3>2. tracking'[id[h]] = [tracking[id[h]] EXCEPT !.status = newStatus[h]]
      BY <1>1, <2>0, <2>1 DEF TrackHealth, TypeOK
    <3> QED
      BY <3>1, <3>2
  <2>4. pc'[h] = "publish" <=> StatusChanged(h)
    BY <1>1, <2>0, Returned DEF TrackHealth, Goto, TypeOK
  <2> QED
    BY <2>2, <2>3, <2>4 DEF AnnouncesChange, StatusChanged
<1>2. IInv /\ Current =>
        [\A h \in Handlers :
           TrackHealth(h) /\ Tracked(id[h]) /\ alone[h] => AnnouncesChange(h)]_vars
  BY <1>1
<1> QED
  BY <1>2, DiscoveryInvariant, CurrentAlways, PTL DEF AloneReportAnnounces
=============================================================================
