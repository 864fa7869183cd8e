---------------------------- MODULE LedgerReports ----------------------------
(***************************************************************************)
(* The reports of both services over the tables of Ledger: costs, summary, *)
(* the super-admin pages of telemetry, quota and traces of the control     *)
(* plane, tool usage.  A report is a function from its groups to           *)
(* [events, tokens, cost], or one such record; averages, rates, names and  *)
(* the order and limit of pages are left out.                              *)
(*                                                                         *)
(* The service prices the tokens of a group again from the catalogue, and  *)
(* rounds where it prices; the older copy (names in "Old") sums the costs  *)
(* stored with the rows, and never leaves out what belongs to no           *)
(* organisation.                                                           *)
(***************************************************************************)
EXTENDS Ledger, Functions

CONSTANTS
  Budgets,    \* set of [org, project, daily, limit, threshold]; without limit, left out
  TokenLimit  \* organisation -> max_tokens_per_day, 0 where there is no limit

ASSUME ReportsAssumption ==
  /\ \A b \in Budgets : /\ b.org \in Orgs /\ b.project \in Projects \cup {None}
                       /\ b.limit \in Nat \ {0} /\ b.threshold \in Nat
                       /\ b.daily \in BOOLEAN
  /\ TokenLimit \in [Orgs -> Nat]

-----------------------------------------------------------------------------
(* Scopes: rows of any table with org and project *)

Given(S, org, project) ==
  {r \in S : (org = None \/ r.org = org) /\ (project = None \/ r.project = project)}

\* Mutant: organisations that do not exist are left in.
ScopeOfAll(S, org, project) == Given(S, org, project)

\* Without an organisation, only those that still exist (active_orgs_subq).
Scope(S, org, project) == {r \in Given(S, org, project) : org # None \/ r.org \in orgs}

Named(S) == {r \in S : r.model # None}
From(day) == {s \in daily : s.day >= day}
MonthToDate == {s \in daily : MonthOf[s.day] >= MonthOf[today]}

\* The tokens of each model, priced together; of events and of summary rows.
Shown(S) ==
  Total({r.model : r \in S}, LAMBDA m : CalculateTokenCost(m, Tokens({r \in S : r.model = m})))
ShownRows(S) ==
  Total({s.tool : s \in S}, LAMBDA m : CalculateTokenCost(m, Tokens({s \in S : s.tool = m})))

\* Each event, or each summary row, priced for itself.
ShownEach(S) == Total(S, LAMBDA r : CalculateTokenCost(r.model, r.tokens))
ShownEachRow(S) == Total(S, LAMBDA s : CalculateTokenCost(s.tool, s.tokens))
ShownByOrg(S) == Total({r.org : r \in S}, LAMBDA o : Shown({r \in S : r.org = o}))
Stored(S) == TotalCost(S)

\* A cost to four decimals, a share in tenths of a percent.
Cents(cost) == RoundedTo(100 * Scale, cost)
Tenths(part, whole) == HalfEven(1000 * part, whole)

\* One line of a report: over events, and over summary rows.
Line(S, Cost(_)) == [events |-> Cardinality(S), tokens |-> Tokens(S), cost |-> Cost(S)]
DayLine(S, Cost(_)) == [events |-> Count(S), tokens |-> Tokens(S), cost |-> Cost(S)]

\* A line for each value of Key.
By(S, Key(_), Cost(_)) ==
  [k \in {Key(r) : r \in S} |-> Line({r \in S : Key(r) = k}, Cost)]
DayBy(S, Key(_), Cost(_)) ==
  [k \in {Key(r) : r \in S} |-> DayLine({r \in S : Key(r) = k}, Cost)]

Sum(report) == MapThenSumSet(LAMBDA k : report[k].cost, DOMAIN report)
SumEvents(report) == MapThenSumSet(LAMBDA k : report[k].events, DOMAIN report)

-----------------------------------------------------------------------------
(* Costs *)

ModelProvider(r) == <<r.model, r.provider>>
Tool(r) == r.model
Provider(r) == r.provider
Exec(r) == r.exec
Service(r) == r.service
DayTool(s) == <<s.day, s.tool>>
Day(s) == s.day

CostByModel(org, project) == By(Named(Scope(store, org, project)), ModelProvider, Shown)

\* Mutant: the scope is forgotten.
UnscopedByTool(org, project) == By(Named(store), Tool, Shown)
CostByTool(org, project) == By(Named(Scope(store, org, project)), Tool, Shown)

CostByProvider(org, project) == By(Scope(store, org, project), Provider, Shown)
CostByExecutionType(org, project) == By(Scope(store, org, project), Exec, Shown)
CostByServiceType(org, project) == By(Scope(store, org, project), Service, Shown)

CostBreakdownSummary(org, project) ==
  LET S == Scope(store, org, project)
  IN  [events |-> Cardinality(S), tokens |-> Tokens(S), llm |-> Shown(S), infra |-> 0,
       external |-> ExternalCost(S), cost |-> Shown(S) + ExternalCost(S)]

\* The rows are those of the project table with the organisation: their events
\* count whatever their own organisation, their cost only if it is the same.
CostByProject(org) ==
  [p \in {q \in DOMAIN projects : org = None \/ projects[q] = org} |->
     [Line(Given(store, None, p), Shown) EXCEPT !.cost = Shown(Given(store, org, p))]]

ProjectCostBreakdown(p, org) == Line(Given(store, org, p), Shown)

Decorated(S) == {r \in S : r.dec}
CostByOrg == [o \in orgs |-> Line(Decorated(Given(store, o, None)), Shown)]

\* Over all rows, organisations that do not exist included.
CostDaily(from, org, project) == DayBy(Given(From(from), org, project), DayTool, ShownRows)
\* Mutant: rows that belong to no organisation are left out of months.
CostMonthlyActive(org, project) == DayBy(Scope(monthly, org, project), DayTool, ShownRows)
CostMonthly(org, project) == DayBy(Given(monthly, org, project), DayTool, ShownRows)
IsEmail(r) == "email" \in {r.service, r.model}
CostPerToolDaily(from, org, project) ==
  LET Email == {r \in Given(store, org, project) : r.created >= from /\ IsEmail(r)}
      report == CostDaily(from, org, project)
  IN  [k \in DOMAIN report |->
         [line |-> report[k], emails |-> Cardinality({r \in Email : <<r.created, r.model>> = k})]]

CostTotals ==
  [today |-> DayLine({s \in daily : s.day = today}, ShownRows),
   month |-> DayLine(MonthToDate, ShownRows), all |-> Line(store, Shown)]

\* A budget of a month takes the days of later months with it.
BudgetRows(b) ==
  {s \in Given(daily, b.org, b.project) :
     IF b.daily THEN s.day = today ELSE MonthOf[s.day] >= MonthOf[today]}

\* The share is rounded before it is compared.
Status(used, b) ==
  CASE used >= 1000 -> "exceeded"
    [] used >= 900 /\ used < 1000 -> "critical"
    [] used >= 10 * b.threshold /\ used < 900 -> "warning"
    [] OTHER -> "ok"

SpendCapStatus(b) ==
  LET spent == ShownRows(BudgetRows(b))
  IN  [spent |-> Cents(spent), status |-> Status(Tenths(spent, b.limit), b),
       remaining |-> IF spent < b.limit THEN Cents(b.limit - spent) ELSE 0]

-----------------------------------------------------------------------------
(* Summary *)

BuildDailyResponse(s) ==
  [org |-> s.org, project |-> s.project, tool |-> s.tool, day |-> s.day, events |-> s.events,
   tokens |-> s.tokens, cost |-> CalculateTokenCost(s.tool, s.tokens), infra |-> 0,
   external |-> s.external]
BuildMonthlyResponse(s) == BuildDailyResponse(s)

TodaySummary == DayLine(Scope({s \in daily : s.day = today}, None, None), ShownEachRow)
DailySummary(start, end, org, project) ==
  {BuildDailyResponse(s) : s \in Scope({s \in daily : s.day \in start..end}, org, project)}
MonthlySummary(org, project) == {BuildMonthlyResponse(s) : s \in Scope(monthly, org, project)}
UsageTrends(org, from) == DayBy(Scope(From(from), org, None), Day, ShownRows)

\* Headline figures from the summary, recent events from the table of events.
GovernanceOverview(org, from) ==
  LET rows == Scope(From(from), org, None)
  IN  [line |-> DayLine(rows, ShownEachRow),
       byType |-> [llm |-> ShownEachRow(rows), infra |-> 0, external |-> ExternalCost(rows)],
       recent |-> {r \in Scope(store, org, None) : r.created >= from}]

HealthMetrics(org, from) == Cardinality({r \in Scope(store, org, None) : r.created >= from})

-----------------------------------------------------------------------------
(* Telemetry: logs and the super-admin pages *)

ListLogs(org, tool) == {r \in Scope(store, org, None) : tool = None \/ r.model = tool}
AdminLogs(org, tool) == By(ListLogs(org, tool), LAMBDA r : r.event, ShownEach)

OrgBudgets(org) == {b \in Budgets : b.org = org /\ b.project = None}

\* By organisation and model; the budget is any one of the organisation's own.
AdminAggregate(org) == By(Given(store, org, None), LAMBDA r : <<r.org, r.model>>, Shown)
RemainingBudget(o, model, b) ==
  LET Two(cost) == RoundedTo(10000 * Scale, cost)
  IN  Two(Two(b.limit) - AdminAggregate(o)[<<o, model>>].cost)

\* Registered tools, used or not, and the tools that were never registered.
RegisteredTools(org) ==
  LET used == Named(Given(store, org, None))
      names == DOMAIN ToolPrice \cup {r.model : r \in used}
  IN  [t \in names |-> Line({r \in used : r.model = t}, ShownByOrg)]

\* A tool's catalogue price beside the costs its events are stored with.
InsightsToolCosts(org) ==
  LET used == Named(Given(store, org, None))
      InAll(k, Cost(_)) == Cents(Cost({r \in used : ModelProvider(r) = k}))
      lines == By(used, ModelProvider, Shown)
  IN  [k \in DOMAIN lines |->
         [events |-> lines[k].events, tokens |-> lines[k].tokens, cost |-> lines[k].cost,
          llm |-> InAll(k, LlmCost), infra |-> InAll(k, InfraCost),
          external |-> InAll(k, ExternalCost), total |-> InAll(k, TotalCost)]]

\* Tokens of all time against a limit for a day: used up exactly, near it rounded.
TokenStatus(tokens, limit) ==
  IF limit = 0 THEN "no_limit"
  ELSE IF tokens >= limit THEN "exhausted"
  ELSE IF Tenths(tokens, limit) >= 900 THEN "critical"
  ELSE IF Tenths(tokens, limit) >= 750 THEN "warning"
  ELSE "ok"
InsightsModelUsage(org) ==
  LET lines == By(Named(Given(store, org, None)),
                  LAMBDA r : <<r.model, r.provider, r.org>>, Shown)
  IN  [k \in DOMAIN lines |->
         [line |-> lines[k], status |-> TokenStatus(lines[k].tokens, TokenLimit[k[3]])]]

\* The cause a single event is shown with: rounded in every case.
TokenCause(tokens, limit) ==
  IF limit = 0 \/ Tenths(tokens, limit) < 750 THEN "none"
  ELSE IF Tenths(tokens, limit) >= 1000 THEN "exhausted"
  ELSE IF Tenths(tokens, limit) >= 900 THEN "critical"
  ELSE "elevated"

\* Mutant: the events of the logger alone are summed.
NotifyDecorated(b) ==
  IF Shown(Decorated(Named(Given(store, b.org, None)))) >= b.limit THEN "exceeded" ELSE "none"

\* Costs of all time against budgets, whatever their period: exceeded is compared
\* exactly, approaching after rounding.
Notification(spent, b) ==
  IF spent >= b.limit THEN "exceeded"
  ELSE IF Tenths(spent, b.limit) >= 10 * b.threshold THEN "approaching"
  ELSE "none"
BudgetNotification(b) == Notification(Shown(Named(Given(store, b.org, None))), b)

EventTrace(e) == {r \in store : r.event = e}
PiiDetail(e) ==
  {[cost |-> Shown({r}), known |-> r.project \in DOMAIN projects,
    tokens |-> TokenCause(r.tokens, TokenLimit[r.org])] : r \in EventTrace(e)}

-----------------------------------------------------------------------------
(* Control plane and tools *)

QuotaRows(org, project, from) ==
  {s \in Given(daily, org, project) : s.day >= from /\ s.day <= today}

QuotaStatus(org, project) ==
  LET month == {s \in QuotaRows(org, project, 0) : MonthOf[s.day] = MonthOf[today]}
      budgets == {b \in Budgets : b.org = org /\ b.project = project}
      Spent(S) == Cents(ShownRows(S))
  IN  [month |-> DayLine(month, Spent), today |-> DayLine(QuotaRows(org, project, today), Spent),
       budgets |-> budgets]

ToolOrUnknown(r) == ToolName(r.model)
ProjectTrace(p, org) == By(Given(store, org, p), ToolOrUnknown, ShownEach)

\* Inner joins: only events of an organisation and a project that exist.
ControlCostBreakdown(org, project) ==
  By({r \in Decorated(Given(store, org, project)) :
        r.org \in orgs /\ r.project \in DOMAIN projects},
     LAMBDA r : <<r.org, r.project, r.model, r.provider>>, Shown)

ToolUsage == By(store, Tool, Stored)

-----------------------------------------------------------------------------
(* The older service *)

OldCostByModel(org, project) == By(Named(Given(store, org, project)), ModelProvider, Stored)
OldCostByTool(org, project) == By(Named(Given(store, org, project)), Tool, Stored)
OldCostByProvider(org, project) == By(Given(store, org, project), Provider, Stored)
OldCostByExecutionType(org, project) == By(Given(store, org, project), Exec, Stored)
OldCostByServiceType(org, project) == By(Given(store, org, project), Service, Stored)
OldCostBreakdownSummary(org, project) == Line(Given(store, org, project), Stored)
OldCostByProject(org) ==
  [p \in {q \in DOMAIN projects : org = None \/ projects[q] = org} |->
     Line(Decorated(Given(store, None, p)), Stored)]
OldProjectCostBreakdown(p, org) == Line(Given(store, org, p), Stored)
OldCostByOrg == [o \in orgs |-> Line(Decorated(Given(store, o, None)), Stored)]
OldCostDaily(from, org, project) == DayBy(Given(From(from), org, project), DayTool, Stored)
OldCostMonthly(org, project) == DayBy(Given(monthly, org, project), DayTool, Stored)
OldCostTotals ==
  [today |-> DayLine({s \in daily : s.day = today}, Stored),
   month |-> DayLine(MonthToDate, Stored), all |-> Line(store, Stored)]
OldCostPerToolDaily(from, org, project) == OldCostDaily(from, org, project)
OldSpendCapStatus(b) == Status(Tenths(Stored(BudgetRows(b)), b.limit), b)
OldTodaySummary == DayLine({s \in daily : s.day = today}, Stored)
OldDailySummary(start, end, org, project) ==
  {s \in Given(daily, org, project) : s.day \in start..end}
OldMonthlySummary(org, project) == Given(monthly, org, project)
OldUsageTrends(org, from) == DayBy(Given(From(from), org, None), Day, Stored)
OldGovernanceOverview(org, from) == DayLine(Given(From(from), org, None), Stored)
OldListLogs(org, tool) == {r \in Given(store, org, None) : tool = None \/ r.model = tool}
OldAdminLogs(org, tool) == By(OldListLogs(org, tool), LAMBDA r : r.event, Stored)
Stored4(S) == Cents(Stored(S))
OldAdminAggregate(org) == By(Given(store, org, None), LAMBDA r : <<r.org, r.model>>, Stored4)
OldRegisteredTools(org) ==
  LET used == Named(Given(store, org, None))
      names == DOMAIN ToolPrice \cup {r.model : r \in used}
  IN  [t \in names |-> Line({r \in used : r.model = t}, Stored)]
OldInsightsToolCosts(org) == By(Named(Given(store, org, None)), ModelProvider, Stored4)
OldBudgetNotification(b) == Notification(Stored(Given(store, b.org, None)), b)
OldQuotaStatus(org, project) ==
  DayLine({s \in QuotaRows(org, project, 0) : MonthOf[s.day] = MonthOf[today]}, Stored)
OldProjectTrace(p, org) == By(Given(store, org, p), ToolOrUnknown, Stored)
OldControlCostBreakdown(org, project) ==
  By({r \in Decorated(Given(store, org, project)) :
        r.org \in orgs /\ r.project \in DOMAIN projects},
     LAMBDA r : <<r.org, r.project, r.model, r.provider>>, Stored)
OldToolUsage == ToolUsage

-----------------------------------------------------------------------------
(* Properties *)

Scopes == (Orgs \cup {None}) \X (Projects \cup {None})
Skewed(S) == {r \in S : r.created # r.completed}

\* What the tokens of events, or of summary rows, cost before any rounding.
Exact(S) == Total(S, LAMBDA r : r.tokens * Rate(r.model))
ExactRows(S) == Total(S, LAMBDA s : s.tokens * Rate(s.tool))

\* A cost that differs from it by the roundings alone: a micro-dollar an event, or a row.
Near(cost, S) == Within(cost, Exact(S), Scale * Cardinality(S))
NearRows(cost, S) == Within(cost, ExactRows(S), Scale * Cardinality(S))

\* The page of a trace prices the event, all tokens under its first model, and
\* each model apart; where the models have one rate the two are the same, but
\* for a micro-dollar each.
TracePartsAgree ==
  \A r \in store :
    LET parts == Sent[r.event].parts
    IN  /\ parts # <<>> /\ r.model \notin edited
        /\ \A i, j \in DOMAIN parts :
             Rate(parts[i].model) = Rate(parts[j].model)
        => Within(Shown({r}), TracePartsShown(parts), Scale * (Cardinality(DOMAIN parts) + 1))

\* A line of the insights page carries the catalogue's price of its tokens and what
\* was stored: the stored total is the stored costs, but for the roundings, and
\* the one the older page has; the stored token cost is the catalogue's where every
\* event of the line was priced from it and none edited.
InsightsAgree(o) ==
  LET lines == InsightsToolCosts(o)
      At(k) == {r \in Given(store, o, None) : ModelProvider(r) = k}
  IN  \A k \in DOMAIN lines :
        /\ Within(lines[k].total, lines[k].llm + lines[k].infra + lines[k].external,
                  Scale * (2 * lines[k].events + 200))
        /\ lines[k].total = OldInsightsToolCosts(o)[k].cost
        /\ (\A r \in At(k) : CataloguePriced(Sent[r.event]) /\ r.model \notin edited)
             => Within(lines[k].llm, lines[k].cost, Scale * (lines[k].events + 51))

\* However a cost is cut - by model, tool, provider, execution type, service
\* type, in all; on the cost pages, the super-admin pages or in a project's
\* trace - the parts add up to what the tokens of the scope cost, a micro-dollar an
\* event apart at most, whatever was edited or deleted and however often a page
\* rounds; no event is lost by a grouping, a trace of one rate costs what its
\* models cost apart, and the insights page's costs agree.
CostViewsAgree ==
  /\ TracePartsAgree
  /\ \A s \in Scopes :
       LET S == Scope(store, s[1], s[2])
           summary == CostBreakdownSummary(s[1], s[2])
           Whole(report) == Near(Sum(report), S) /\ SumEvents(report) = summary.events
       IN  /\ Near(summary.llm, S)
           /\ Near(Sum(CostByModel(s[1], s[2])), S) /\ Near(Sum(CostByTool(s[1], s[2])), S)
           /\ Whole(CostByProvider(s[1], s[2])) /\ Whole(CostByServiceType(s[1], s[2]))
           /\ Whole(CostByExecutionType(s[1], s[2]))
           /\ s[1] # None /\ s[2] # None => Near(Sum(ProjectTrace(s[2], s[1])), S)
  /\ \A o \in Orgs \cup {None} :
       LET S == Given(store, o, None)
       IN  /\ Near(Sum(AdminAggregate(o)), S)
           /\ Near(Sum(InsightsToolCosts(o)), S) /\ Near(Sum(RegisteredTools(o)), S)
           /\ InsightsAgree(o)
  /\ Near(CostTotals.all.cost, store)

\* The pages over the summary and the pages over the events: with no edit
\* waiting for a rebuild, the overview of an organisation shows no event and no
\* cost that its events do not, but for what is dated on two days and may be
\* counted on both, and for a micro-dollar each row.
OverviewWithinEvents ==
  dirty = {} => \A o \in orgs :
    LET overview == GovernanceOverview(o, 0).line
        events == Given(store, o, None)
        rows == Cardinality(Given(daily, o, None))
    IN  /\ overview.events <= Cardinality(events) + Cardinality(Skewed(events))
        /\ overview.cost <= Exact(events) + Exact(Skewed(events)) + Scale * rows

\* The spend-cap page has no last day and the quota endpoint has: the first
\* shows more only for rows dated after today; either shows four decimals.
SpendCapIsQuotaAndFuture ==
  \A b \in Budgets : ~b.daily =>
    LET future == {s \in BudgetRows(b) : s.day > today}
        quota == QuotaStatus(b.org, b.project).month.cost
    IN  Within(SpendCapStatus(b).spent, quota + ExactRows(future),
               Scale * (2 * Cardinality(BudgetRows(b)) + 100))

\* One scope by days: days, trends, rows and headline figures add up to the same
\* events and, a micro-dollar a row apart at most, the same cost; the rows of
\* unknown organisations apart.
DaysAgree(o, d) ==
  LET pages == DailySummary(d, LastDay + 1, o, None)
      all == Given(From(d), o, None)
      hidden == {s \in all : o = None /\ s.org \notin orgs}
      overview == GovernanceOverview(o, d).line
      events == overview.events + Count(hidden)
      trends == UsageTrends(o, d)
      days == CostDaily(d, o, None)
      old == OldGovernanceOverview(o, d)
  IN  /\ NearRows(overview.cost, all \ hidden)
      /\ NearRows(Sum(trends), all \ hidden) /\ SumEvents(trends) = overview.events
      /\ NearRows(Total(pages, LAMBDA x : x.cost), all \ hidden)
      /\ Count(pages) = overview.events
      /\ NearRows(Sum(days), all) /\ SumEvents(days) = events
      /\ old.events = events /\ SumEvents(OldUsageTrends(o, d)) = events
      /\ SumEvents(OldCostDaily(d, o, None)) = events
      /\ Count(OldDailySummary(d, LastDay + 1, o, None)) = events
      /\ Sum(OldCostPerToolDaily(d, o, None)) = old.cost

\* One scope by months: the monthly rows and the monthly costs add up.
MonthsAgree(o, p) ==
  LET rows == Given(monthly, o, p)
      hidden == {x \in rows : o = None /\ x.org \notin orgs}
      costs == CostMonthly(o, p)
  IN  /\ Count(MonthlySummary(o, p)) + Count(hidden) = SumEvents(costs)
      /\ Count(OldMonthlySummary(o, p)) = SumEvents(OldCostMonthly(o, p))
      /\ NearRows(Sum(costs), rows)

\* Today's and this month's figures on the summary and the cost page.
TotalsAgree ==
  LET rows == {s \in daily : s.day = today}
  IN
  /\ NearRows(CostTotals.today.cost, rows)
  /\ NearRows(TodaySummary.cost, {s \in rows : s.org \in orgs})
  /\ CostTotals.today.events = OldTodaySummary.events
  /\ CostTotals.month.events = OldCostTotals.month.events

\* The pages over the summary, in both services: days, trends, rows and headline
\* figures of one scope add up to the same events and, but for the roundings, to
\* what the tokens of its rows cost; over all
\* organisations the cost pages and the older service show more by exactly the
\* rows of organisations that do not exist, the summary pages hide them.  And the
\* two pages on budgets agree, and the overview shows nothing the events do not.
SummaryViewsAgree ==
  /\ SpendCapIsQuotaAndFuture /\ OverviewWithinEvents
  /\ \A o \in Orgs \cup {None}, d \in {0, today} : DaysAgree(o, d)
  /\ \A s \in Scopes : MonthsAgree(s[1], s[2])
  /\ TotalsAgree

\* A budget cannot be spent on the spend-cap page (this month, from the summary)
\* and quiet in the super-admin's notifications (all time, from the events),
\* unless an edit is waiting or events are dated on two days.  The page calls a
\* budget exceeded from 99.95 % on, the notification from 100 %: past the limit
\* by the roundings the notification says exceeded, and wherever the page does, it
\* says at least that the budget is approached.
ExceededIsNotified ==
  dirty = {} => \A b \in Budgets :
    LET events == Given(store, b.org, None)
        slack == Scale * (Cardinality(BudgetRows(b)) + Cardinality(events) + 50)
        page == SpendCapStatus(b)
    IN  b.project = None /\ Skewed(events) = {} =>
          /\ page.spent >= b.limit + slack => BudgetNotification(b) = "exceeded"
          /\ (page.status = "exceeded" /\ b.threshold <= 99 /\ 1000 * slack <= 9 * b.limit)
               => BudgetNotification(b) # "none"

\* The two services over one database: for an organisation that exists they
\* report the same groups with the same events; over all of them the older one
\* adds exactly what belongs to none; and where every event is priced from the
\* catalogue and unedited their token costs are the same, but for the micro-dollar
\* each of them rounds an event or a group by.
ServicesAgree ==
  \A p \in Projects \cup {None} :
    /\ \A o \in orgs :
         /\ SumEvents(CostByTool(o, p)) = SumEvents(OldCostByTool(o, p))
         /\ SumEvents(CostByModel(o, p)) = SumEvents(OldCostByModel(o, p))
         /\ SumEvents(CostByProvider(o, p)) = SumEvents(OldCostByProvider(o, p))
         /\ LET S == Given(store, o, p)
            IN  (\A r \in S : CataloguePriced(Sent[r.event]) /\ r.model \notin edited)
                  => Within(Sum(CostByTool(o, p)), LlmCost(Named(S)),
                            2 * Scale * Cardinality(Named(S)))
         /\ QuotaStatus(o, p).month.tokens = OldQuotaStatus(o, p).tokens
         /\ CostByOrg[o].events = OldCostByOrg[o].events
         /\ SumEvents(AdminAggregate(o)) = SumEvents(OldAdminAggregate(o))
         /\ SumEvents(InsightsToolCosts(o)) = SumEvents(OldInsightsToolCosts(o))
         /\ SumEvents(RegisteredTools(o)) = SumEvents(OldRegisteredTools(o))
         /\ ListLogs(o, None) = OldListLogs(o, None)
         /\ SumEvents(ControlCostBreakdown(o, p)) = SumEvents(OldControlCostBreakdown(o, p))
         /\ \A q \in DOMAIN OldCostByProject(o) :
              OldCostByProject(o)[q].events <= CostByProject(o)[q].events
    /\ Sum(ToolUsage) = OldCostTotals.all.cost
    /\ OldCostBreakdownSummary(None, p).events =
         CostBreakdownSummary(None, p).events
           + Cardinality({r \in Given(store, None, p) : r.org \notin orgs})
=============================================================================
