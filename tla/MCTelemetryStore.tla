-------------------------- MODULE MCTelemetryStore --------------------------
(* Instances of TelemetryStore for TLC. *)
EXTENDS TelemetryStore, TLC

CONSTANTS r1, r2, r3, a, b, c, k1, k2, sched, manual

\* Two batches with the same events in opposite orders.
CrossedBatches == (r1 :> <<a, b>>) @@ (r2 :> <<b, a>>)
\* An event, its retry, and another event.
SingleAndRetry == (r1 :> <<a>>) @@ (r2 :> <<b>>) @@ (r3 :> <<a>>)

OneKey == [e \in EventIds |-> k1]
TwoKeys == [e \in EventIds |-> IF e = b THEN k2 ELSE k1]
=============================================================================
