---------------------------- MODULE MCSdkRuntime ----------------------------
\* A thread that nests frames of every kind, and one it may start.
EXTENDS SdkRuntime, TLC
CONSTANTS t1, t2
MCKinds == t1 :> AllKinds @@ t2 :> {"trace", "call"}
MCDepth == t1 :> 2 @@ t2 :> 1
MCRules == {[metric_name |-> "cost_per_call", threshold_value |-> 1, is_active |-> TRUE]}
MCIds == 1..4
=============================================================================
