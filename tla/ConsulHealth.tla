----------------------------- MODULE ConsulHealth -----------------------------
(***************************************************************************)
(* How internal/consul/registry.go turns the checks that Consul holds for a*)
(* service instance into one HealthStatus.                                 *)
(***************************************************************************)

\* The check statuses of the Consul API ("maintenance" only from agents).
CheckStatus == {"passing", "warning", "critical", "maintenance"}

\* mapHealthStatus, of the set of statuses among an instance's checks: the code's
\* loops depend neither on their order nor on their number.
mapHealthStatus(checks) ==
  CASE checks = {} -> "Unknown"
    [] checks \cap {"critical", "maintenance"} # {} -> "Unhealthy"
    [] checks \cap {"critical", "maintenance"} = {} /\ "warning" \in checks -> "Degraded"
    [] checks = {"passing"} -> "Healthy"
    [] OTHER -> "Unknown"
=============================================================================
