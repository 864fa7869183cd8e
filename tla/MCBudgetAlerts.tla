--------------------------- MODULE MCBudgetAlerts ---------------------------
(* Instances of BudgetAlerts for TLC. *)
EXTENDS BudgetAlerts, TLC

CONSTANTS r1, r2

Plain(cost) == [cost |-> cost, tokens |-> cost, flags |-> <<>>, rules |-> <<>>]
Flagged ==
  [cost |-> 1, tokens |-> 1, flags |-> <<"pii_detected", "usage_spike">>,
   rules |-> <<[metric |-> "total_cost", severity |-> "medium"],
               [metric |-> "total_cost", severity |-> "high"]>>]

\* Two batches around 80, 90 and 100 of 10, one with a flagged event.
Mixed == (r1 :> <<Plain(1), Plain(1)>>) @@ (r2 :> <<Flagged, Plain(1)>>)

SevenTenths == [cost |-> 7, tokens |-> 7]

\* Two budgets of the project with a tier in common, monthly and daily, and one of
\* another project; two limits that fire together.
Overlapping ==
  <<[scope |-> "project", daily |-> FALSE, limit |-> 10, threshold |-> 80, elsewhere |-> 0],
    [scope |-> "project", daily |-> TRUE, limit |-> 9, threshold |-> 80, elsewhere |-> 0],
    [scope |-> "other", daily |-> FALSE, limit |-> 10, threshold |-> 80, elsewhere |-> 3]>>
Quotas == <<10, 0, 8>>
=============================================================================
