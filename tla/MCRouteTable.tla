----------------------------- MODULE MCRouteTable -----------------------------
(* Two services, of two instances and of one, and Consul's own.                  *)
EXTENDS RouteTable, TLC

CONSTANTS web, db, consul, w1, w2, d1, c1

MCServices == {web, db, consul}
MCInstances == {w1, w2, d1, c1}
MCServiceOf == w1 :> web @@ w2 :> web @@ d1 :> db @@ c1 :> consul
=============================================================================
