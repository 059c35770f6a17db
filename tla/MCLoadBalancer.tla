--------------------------- MODULE MCLoadBalancer ---------------------------
(* Two callers, two services that share instance "b", every strategy. *)
EXTENDS LoadBalancer, TLC

MCInstances == {"a", "b", "c"}

MCListing == ("s1" :> <<"a", "b">>) @@ ("s2" :> <<"b", "c">>)

MCWeight == ("a" :> 2) @@ ("b" :> 0) @@ ("c" :> 1)

\* All healthy; b missing; none healthy and a unknown.
MCStatuses ==
  { [i \in MCInstances |-> "Healthy"],
    ("a" :> "Healthy") @@ ("b" :> "Unhealthy") @@ ("c" :> "Healthy"),
    ("a" :> "Unknown") @@ ("b" :> "Degraded") @@ ("c" :> "Unhealthy") }

\* One tag everywhere; then one that only "b" has, so that the strategy of
\* both services changes with its health.
MCTaggings ==
  { [i \in MCInstances |-> name] :
      name \in {"", "least_connections", "weightedroundrobin", "iphash", "random"} }
    \cup {("a" :> "") @@ ("b" :> "leastconnections") @@ ("c" :> "")}

MCHash == ("k1" :> 4) @@ ("k2" :> 7)

Symmetry == Permutations(Callers)
=============================================================================
