-------------------------- MODULE MCProxyPipeline --------------------------
(* Instances of ProxyPipeline and its reports for TLC. *)
EXTENDS ProxyReports, TLC

CONSTANTS r1, r2, r3, w1, w2, k1, k2, u1, u2

OneWorker == [r \in Requests |-> w1]
\* r1 and r2, with one key, on different workers; r3 beside r1.
TwoWorkers == [r \in Requests |-> IF r = r2 THEN w2 ELSE w1]
SharedKey == [r \in Requests |-> IF r = r3 THEN k2 ELSE k1]
OneRow == [r \in Requests |-> u1]
NoRow == u1 :> 0
\* r2 asks for another model.
TwoRows == [r \in Requests |-> IF r = r2 THEN u2 ELSE u1]
NoRows == u1 :> 1 @@ u2 :> 0

\* Two projects, two models, two days of one organisation.
OneOrg == [k \in Keys |-> "A"]
MCRowKey == [u \in Rows |-> IF u = u1 THEN [org |-> "A", project |-> "p", model |-> "m", day |-> 1]
                            ELSE [org |-> "A", project |-> "q", model |-> "n", day |-> 2]]
MCCost == [r \in Requests |-> IF r = r1 THEN 1 ELSE IF r = r2 THEN 2 ELSE 4]

\* An organisation's own policy before a global one, the lower of two of its own,
\* one without an audit, one that is not active and one of another organisation.
Policy(org, type, action, log, priority, active) ==
  [org |-> org, type |-> type, action |-> action, log |-> log, priority |-> priority,
   active |-> active]
MCPolicies ==
  {Policy(All, "email", "block", TRUE, 9, TRUE), Policy("A", "email", "block", TRUE, 2, TRUE),
   Policy("A", "email", "alert", TRUE, 1, TRUE), Policy("A", "email", "block", TRUE, 0, FALSE),
   Policy(All, "ssn", "block", FALSE, 5, TRUE), Policy(All, "ssn", "alert", TRUE, 4, TRUE),
   Policy("B", "ssn", "allow", TRUE, 1, TRUE)}
=============================================================================
