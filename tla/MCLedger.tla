------------------------------ MODULE MCLedger ------------------------------
\* Two organisations and one that is never created; a catalogue model, its alias,
\* a model of the provider table, and events of each way in.  One token costs less
\* than half a micro-dollar, and is stored as none; the one large event takes the
\* organisation to 99.98 % of the one budget and beyond the other.
EXTENDS LedgerReports, TLC
CONSTANT Absent

MCCatalogue == "m" :> 2 @@ "n" :> 2
MCAliases == "M" :> "m"
MCProviderPrice == <<"x", "n">> :> 3
MCToolPrice == "t" :> [model |-> "per_request", base |-> 5]

Call(model, tokens, given) ==
  [model |-> model, provider |-> "x", tokens |-> tokens, seconds |-> 1, given |-> given]
Event(org, project, call, dec, control, skew, parts) ==
  [org |-> org, project |-> project, model |-> call.model, provider |-> call.provider,
   exec |-> IF dec THEN "async" ELSE "sync", service |-> IF dec THEN "email" ELSE "chat",
   dec |-> dec, tokens |-> call.tokens, seconds |-> 1, given |-> call.given,
   control |-> control, infra |-> 1, external |-> 0, skew |-> skew, parts |-> parts]

MCSent ==
  "e1" :> Event("A", "p", Call("m", 1, Absent), FALSE, FALSE, 0, <<>>) @@
  "e2" :> Event("A", Absent, Call("M", 2, Absent), TRUE, FALSE, 1, <<>>) @@
  "e3" :> Event("B", "p", Call("n", 2, Absent), FALSE, TRUE, -1,
                <<Call("n", 1, Absent), Call("m", 1, Absent)>>) @@
  "e4" :> Event("A", "p", Call("m", 50002, Absent), FALSE, FALSE, 0, <<>>)
MCEvents == DOMAIN MCSent
MCOwner == "p" :> "A"
MCMonthOf == [d \in 0..3 |-> d \div 2]
MCBudgets ==
  {[org |-> "A", project |-> Absent, daily |-> FALSE, limit |-> 100020, threshold |-> 80],
   [org |-> "A", project |-> Absent, daily |-> FALSE, limit |-> 90000, threshold |-> 80],
   [org |-> "A", project |-> "p", daily |-> FALSE, limit |-> 2, threshold |-> 50]}
MCTokenLimit == "A" :> 50010 @@ "B" :> 0
=============================================================================
