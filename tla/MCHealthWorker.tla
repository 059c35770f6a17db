---------------------------- MODULE MCHealthWorker ----------------------------
(* The registrations of the runs: one ID under one service, or one ID that two   *)
(* services share, the second of them without a probe.                           *)
EXTENDS HealthWorker

CONSTANTS s1, s2, i1

Single == {<<s1, i1>>}
Shared == {<<s1, i1>>, <<s2, i1>>}
SharedProbeless == {<<s2, i1>>}
=============================================================================
