--------------------------- MODULE MCAnomalyAlerts --------------------------
(* Instances of AnomalyAlerts for TLC. *)
EXTENDS AnomalyAlerts, TLC

CONSTANTS k1, k2, sched, manual
=============================================================================
