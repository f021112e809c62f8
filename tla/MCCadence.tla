----------------------------- MODULE MCCadence -----------------------------
(* Workloads for module Cadence, in units of 5 seconds with production's        *)
(* intervals of 60 and 6: two brisk ones, the first at the limit of Brisk, the  *)
(* second with scans shorter than a pass, and production's own, in which jobs   *)
(* may use up their timeouts.                                               *)
EXTENDS Cadence

Workload(s, m, r) == [j \in Jobs |-> CASE j = "scan" -> s [] j = "monitor" -> m [] j = "retry" -> r]
Workloads == {Workload(47, 2, 1), Workload(1, 1, 2), Workload(60, 7, 9)}
=============================================================================
