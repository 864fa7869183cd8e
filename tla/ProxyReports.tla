----------------------------- MODULE ProxyReports -----------------------------
(***************************************************************************)
(* The proxy's report pages (app/routers/proxy.py) over the rows committed *)
(* by ProxyPipeline.  All but one read the rows of the calls; the page by  *)
(* project and model reads project_model_usage.  A line is its requests    *)
(* and their cost; tokens are summed like the cost, latencies, rates,      *)
(* names and the order and limit of pages are left out.                    *)
(***************************************************************************)
EXTENDS ProxyPipeline, Folds, FiniteSetsExt

CONSTANTS
  RowKey,  \* usage row -> [org, project, model, day]
  Cost,    \* request -> total_cost of its request_cost row
  All      \* no filter

ASSUME ReportsAssumption ==
  /\ DOMAIN RowKey = Rows /\ IsFiniteSet(Rows) /\ Cost \in [Requests -> Nat]
  /\ \A r \in Requests : RowKey[RowOf[r]].org = OrgOf[KeyOf[r]]

\* Organisation, project, model and day of a request are those of its usage row.
Columns(r) == RowKey[RowOf[r]]
Matches(column, filter) == filter = All \/ column = filter

\* ai_requests, by the day they were received; request_cost joined with it.
Received(org, from) ==
  {r \in Requests : aiRequest[r] # "none" /\ Columns(r).day >= from /\ Matches(Columns(r).org, org)}
Costed(org, from) == billed \cap Received(org, from)
TotalCost(S) == MapThenSumSet(LAMBDA r : Cost[r], S)

With(S, status) == {r \in S : aiRequest[r] = status}
WithPii(S) == {r \in S : Verdict(r).pii_detected}

StatsOverview(org, from) ==
  LET S == Received(org, from)
  IN  [requests |-> Cardinality(S), cost |-> TotalCost(Costed(org, from)),
       completed |-> Cardinality(With(S, "completed")),
       blocked |-> Cardinality(With(S, "blocked")), pii |-> Cardinality(WithPii(S))]

\* The lines of the requests of S, one for each value of key.
Lines(S, key) ==
  [k \in {key[r] : r \in S} |->
     LET group == {r \in S : key[r] = k}
     IN  [requests |-> Cardinality(group), cost |-> TotalCost(group \cap billed),
          pii |-> Cardinality(WithPii(group))]]

StatsTrends(org, from) == Lines(Received(org, from), [r \in Requests |-> Columns(r).day])
StatsByProject(org, from) ==
  Lines(Received(org, from), [r \in Requests |-> <<Columns(r).org, Columns(r).project>>])
StatsByModel(org, project, from) ==
  Lines({r \in Costed(org, from) : Matches(Columns(r).project, project)},
        [r \in Requests |-> Columns(r).model])

RequestList(org, project, status, piiOnly) ==
  {[request |-> r, status |-> aiRequest[r], cost |-> IF r \in billed THEN Cost[r] ELSE 0] :
     r \in {q \in Received(org, 0) : /\ Matches(Columns(q).project, project)
                                     /\ Matches(aiRequest[q], status)
                                     /\ piiOnly => Verdict(q).pii_detected}}

ProjectModel(u) == <<RowKey[u].org, RowKey[u].project, RowKey[u].model>>
StatsByProjectModel(org, from) ==
  LET S == {u \in Rows : usage[u] > 0 /\ RowKey[u].day >= from /\ Matches(RowKey[u].org, org)}
  IN  [k \in {ProjectModel(u) : u \in S} |->
         MapThenSumSet(LAMBDA u : usage[u], {u \in S : ProjectModel(u) = k})]

PiiSummary(org, from) ==
  LET S == WithPii(Received(org, from))
  IN  [requests |-> Cardinality(S), blocked |-> Cardinality(With(Received(org, from), "blocked")),
       types |-> [t \in UNION {found[r] : r \in S} |-> Cardinality({r \in S : t \in found[r]})],
       actions |-> [a \in {Verdict(r).action_taken : r \in S} |->
                      Cardinality({r \in S : Verdict(r).action_taken = a})]]

-----------------------------------------------------------------------------
(* Properties *)

Requested(report) == MapThenSumSet(LAMBDA k : report[k].requests, DOMAIN report)
Spent(report) == MapThenSumSet(LAMBDA k : report[k].cost, DOMAIN report)
ListCost(list) == MapThenSumSet(LAMBDA i : i.cost, list)
Counted(page) == FoldFunction(+, 0, page)
CountedBefore(rows) == MapThenSumSet(LAMBDA u : InitialUsage[u], rows)

\* The page by project and model shows the calls that the pages over the calls
\* show, and those of before the first request.
UsageMatchesPages(org, from) ==
  LET before == {u \in Rows : RowKey[u].day >= from /\ Matches(RowKey[u].org, org)}
  IN  Counted(StatsByProjectModel(org, from))
        = CountedBefore(before) + Requested(StatsByModel(org, All, from))

\* The usage rows are counted up by read and write without a lock of their own,
\* and still, within one worker, count the billed calls exactly and show them on
\* their page.  And whatever committed when, the other pages of one scope show the
\* same calls: those that cost are the completed ones; models, days, projects and
\* the list cost the same; what is blocked is what the policies said to block.
PagesAgree ==
  /\ UsageMatchesCosts
  /\ \A org \in {OrgOf[k] : k \in Keys} \cup {All} :
       LET list == RequestList(org, All, "completed", FALSE)
       IN  /\ ListCost(list) = StatsOverview(org, 0).cost
           /\ Cardinality(RequestList(org, All, All, TRUE)) = StatsOverview(org, 0).pii
  /\ \A org \in {OrgOf[k] : k \in Keys} \cup {All}, from \in {RowKey[u].day : u \in Rows} :
       LET overview == StatsOverview(org, from)
           byModel == StatsByModel(org, All, from)
           pii == PiiSummary(org, from)
       IN  /\ UsageMatchesPages(org, from)
           /\ Requested(byModel) = overview.completed /\ Spent(byModel) = overview.cost
           /\ Spent(StatsTrends(org, from)) = overview.cost
           /\ Requested(StatsByProject(org, from)) = overview.requests
           /\ Spent(StatsByProject(org, from)) = overview.cost
           /\ pii.requests = overview.pii
           /\ pii.blocked = IF "block" \in DOMAIN pii.actions THEN pii.actions["block"] ELSE 0
=============================================================================
