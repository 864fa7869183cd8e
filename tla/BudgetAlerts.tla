---------------------------- MODULE BudgetAlerts ----------------------------
(***************************************************************************)
(* The alerts an ingest request raises (app/services/alert_engine.py, as   *)
(* _ingest_event calls it).                                                *)
(*                                                                         *)
(* For each event the request adds to the daily summary row in its session,*)
(* evaluates security flags, every budget and every rate limit of the      *)
(* organisation, and its custom rules, and flushes.  The session has       *)
(* autoflush off, so the evaluation reads the summary and the alerts as    *)
(* they were at the last flush.  Requests run concurrently, in READ        *)
(* COMMITTED transactions; operators resolve alerts.                       *)
(*                                                                         *)
(* One organisation, project and tool, on one day whose summary row exists;*)
(* costs, tokens and percentages are whole.  An alert carries, beyond its  *)
(* columns, the event and the budget, limit or rule it was raised for.     *)
(***************************************************************************)
EXTENDS Integers, Sequences, FiniteSets, SequencesExt

CONSTANTS
  Requests,
  Events,        \* request -> its events
  InitialSpend,  \* the summary row before the first request
  Budgets,       \* the budgets of the organisation, in the order of the query
  Mid,           \* alert percentage between a budget's own threshold and 100
  RateLimits,    \* max_tokens_per_day of its rate limits, 0 = none
  TokensElsewhere,  \* of today in the organisation's other summary rows
  QuotaWarning,  \* percentage at which token_quota fires
  DaysElapsed, DaysRemaining,  \* of the month, today included in the first
  NoOne,
  MaxFaults

Spend == [cost : Nat, tokens : Nat]
Flags == {"pii_detected", "misuse_pattern", "data_out_violation", "usage_spike"}
Distinct(seq) == \A i, j \in DOMAIN seq : seq[i] = seq[j] => i = j

\* scope: project_id of the budget, this project's, none or another's; limit:
\* limit_amount, 0 = none; elsewhere: cost of the other rows its sum takes.
Budget ==
  [scope : {"project", "organisation", "other"}, daily : BOOLEAN, limit : Nat,
   threshold : Nat, elsewhere : Nat]
TiersOf(b) == {b.threshold, Mid, 100}

\* rules: the rules of the organisation that the metrics of the event match.
EventShape ==
  [cost : Nat, tokens : Nat, flags : Seq(Flags),
   rules : Seq([metric : STRING, severity : STRING])]

ASSUME AlertAssumption ==
  /\ NoOne \notin Requests
  /\ \A r \in Requests : Events[r] \in Seq(EventShape) /\ Events[r] # <<>>
  /\ \A r \in Requests : \A k \in 1..Len(Events[r]) : Distinct(Events[r][k].flags)
  /\ InitialSpend \in Spend
  /\ Budgets \in Seq(Budget) /\ RateLimits \in Seq(Nat)
  /\ Mid \in Nat /\ TokensElsewhere \in Nat /\ QuotaWarning \in Nat
  /\ DaysElapsed \in Nat \ {0} /\ DaysRemaining \in Nat
  /\ MaxFaults \in Nat

VARIABLES
  summary,      \* committed row: [cost, tokens]
  rowLock,      \* the request with an uncommitted write of the row
  alerts,       \* committed alert rows
  notified,     \* notifications handed to the channels
  pc, pos, stage,
  row,          \* request -> the row object in its session, <<>> before it is loaded
  flushed,      \* request -> the row as it last flushed it
  due,          \* request -> alerts still to be created in this stage
  added,        \* request -> alerts it has added to its session, in order
  written,      \* request -> how many of them are flushed
  began,        \* history: request -> committed cost when it began
  undisturbed,  \* history: request -> no other request has committed since
  charged,      \* history: request -> cost of the events it has added so far
  posted,       \* history: cost of all committed events
  faults

session == <<pc, pos, stage, row, flushed, due, added, written>>
history == <<began, undisturbed, charged, posted>>
vars == <<summary, rowLock, alerts, notified, session, history, faults>>

\* The stages of an evaluation: security, each budget, each limit, rules.
LastStage == 2 + Len(Budgets) + Len(RateLimits)
Event(r) == Events[r][pos[r]]

Init ==
  /\ summary = InitialSpend /\ rowLock = NoOne
  /\ alerts = {} /\ notified = {}
  /\ pc = [r \in Requests |-> "begin"] /\ pos = [r \in Requests |-> 1]
  /\ stage = [r \in Requests |-> 1]
  /\ row = [r \in Requests |-> <<>>] /\ flushed = [r \in Requests |-> <<>>]
  /\ due = [r \in Requests |-> <<>>] /\ added = [r \in Requests |-> <<>>]
  /\ written = [r \in Requests |-> 0]
  /\ began = [r \in Requests |-> 0] /\ undisturbed = [r \in Requests |-> TRUE]
  /\ charged = [r \in Requests |-> 0] /\ posted = InitialSpend.cost /\ faults = 0

-----------------------------------------------------------------------------
(* Percentages, to one decimal as quantize(Decimal("0.1")) rounds them.     *)

Tenths(x, whole) ==
  LET q == (1000 * x) \div whole
      rest == 2 * ((1000 * x) % whole)
  IN  IF rest > whole \/ (rest = whole /\ q % 2 = 1) THEN q + 1 ELSE q

\* What the budget's sum of the summary is when the row holds the cost.
SpentOn(b, cost) == b.elsewhere + IF b.scope = "other" THEN 0 ELSE cost

Crossed(b, cost, pct) == b.limit > 0 /\ Tenths(SpentOn(b, cost), b.limit) >= 10 * pct

\* spent + velocity * days_remaining, in units of 1 / DaysElapsed.
Forecast(spent) == spent * (DaysElapsed + DaysRemaining)

Raise(r, type, severity, source) ==
  [type |-> type, severity |-> severity, event |-> pos[r], source |-> source]

\* What the session's SELECT of the summary sees: its own last flush, or what
\* is committed.  The row object it has changed since is not flushed.
VisibleRow(r) == IF rowLock = r THEN flushed[r] ELSE summary

SecurityDue(r) ==
  [i \in DOMAIN Event(r).flags |->
     Raise(r, <<Event(r).flags[i]>>,
           IF Event(r).flags[i] \in {"pii_detected", "misuse_pattern"} THEN "critical"
           ELSE "high", 0)]

\* sorted(): SortSeq, of which the provers know no definition.
Ascending(S) ==
  CHOOSE s \in [1..Cardinality(S) -> S] : \A i, j \in DOMAIN s : i < j => s[i] < s[j]

BudgetDue(r, i) ==
  LET b == Budgets[i]
      cost == VisibleRow(r).cost
      crossed == Ascending({t \in TiersOf(b) : Crossed(b, cost, t)})
      tiers == [k \in DOMAIN crossed |->
                  Raise(r, <<"budget", b.scope, crossed[k]>>,
                        IF crossed[k] >= 100 THEN "critical" ELSE "high", i)]
      overrun == /\ b.limit > 0 /\ ~b.daily /\ ~Crossed(b, cost, 100)
                 /\ Tenths(Forecast(SpentOn(b, cost)), b.limit * DaysElapsed) >= 1000
  IN  tiers \o (IF overrun
                THEN <<Raise(r, <<"budget_forecast_overrun", b.scope>>, "high", i)>>
                ELSE <<>>)

QuotaDue(r, i) ==
  LET used == VisibleRow(r).tokens + TokensElsewhere
      quota == RateLimits[i]
  IN  IF quota > 0 /\ Tenths(used, quota) >= 10 * QuotaWarning
      THEN <<Raise(r, <<"token_quota">>,
                   IF Tenths(used, quota) >= 1000 THEN "critical" ELSE "high", i)>>
      ELSE <<>>

\* The rules the event's own metrics match, with the severity of the rule.
RulesDue(r) ==
  [i \in DOMAIN Event(r).rules |->
     Raise(r, <<"rule", Event(r).rules[i].metric>>, Event(r).rules[i].severity, i)]

DueIn(r) ==
  LET k == stage[r] - 1
  IN  CASE k = 0 -> SecurityDue(r)
        [] k \in 1..Len(Budgets) -> BudgetDue(r, k)
        [] k - Len(Budgets) \in 1..Len(RateLimits) -> QuotaDue(r, k - Len(Budgets))
        [] OTHER -> RulesDue(r)

-----------------------------------------------------------------------------
Goto(r, step) == pc' = [pc EXCEPT ![r] = step]

Begin(r) ==
  /\ pc[r] = "begin"
  /\ Goto(r, "upsert")
  /\ began' = [began EXCEPT ![r] = summary.cost]
  /\ undisturbed' = [undisturbed EXCEPT ![r] = TRUE]
  /\ UNCHANGED <<summary, rowLock, alerts, notified, pos, stage, row, flushed, due, added,
                 written, charged, posted, faults>>

UpsertDailySummary(r) ==
  /\ pc[r] = "upsert"
  /\ LET base == IF row[r] = <<>> THEN summary ELSE row[r]
     IN  row' = [row EXCEPT ![r] = [cost |-> base.cost + Event(r).cost,
                                    tokens |-> base.tokens + Event(r).tokens]]
  /\ charged' = [charged EXCEPT ![r] = @ + Event(r).cost]
  /\ stage' = [stage EXCEPT ![r] = 1]
  /\ Goto(r, "evaluate")
  /\ UNCHANGED <<summary, rowLock, alerts, notified, pos, flushed, due, added, written,
                 began, undisturbed, posted, faults>>

Evaluate(r) ==
  /\ pc[r] = "evaluate" /\ stage[r] <= LastStage
  /\ due' = [due EXCEPT ![r] = DueIn(r)]
  /\ stage' = [stage EXCEPT ![r] = @ + 1]
  /\ Goto(r, IF DueIn(r) = <<>> THEN "evaluate" ELSE "create")
  /\ UNCHANGED <<summary, rowLock, alerts, notified, pos, row, flushed, added, written,
                 history, faults>>

\* Mutant: any active alert of the scope suppresses, whatever its type.
AnyDuplicate(r, type) ==
  \/ \E a \in alerts : a.status = "active"
  \/ written[r] > 0
\* Mutant: the lookup sees only committed alerts, as from a session of its own.
CommittedDuplicate(r, type) == \E a \in alerts : a.alert.type = type /\ a.status = "active"
Duplicate(r, type) ==
  \/ \E a \in alerts : a.alert.type = type /\ a.status = "active"
  \/ \E i \in 1..written[r] : added[r][i].type = type

\* _create_alert: an active alert with the same key suppresses the new one;
\* otherwise it is added to the session and the channels are notified.
CreateAlert(r) ==
  /\ pc[r] = "create"
  /\ LET a == Head(due[r])
     IN  IF Duplicate(r, a.type)
         THEN UNCHANGED <<added, notified>>
         ELSE /\ added' = [added EXCEPT ![r] = Append(@, a)]
              /\ notified' = IF a.severity \in {"critical", "high"}
                             THEN notified \cup {<<r, Len(added[r]) + 1>>} ELSE notified
  /\ due' = [due EXCEPT ![r] = Tail(@)]
  /\ Goto(r, IF Len(due[r]) = 1 THEN "evaluate" ELSE "create")
  /\ UNCHANGED <<summary, rowLock, alerts, pos, stage, row, flushed, written, history, faults>>

\* The flush at the end of evaluate: the alerts and the summary row.
FlushSession(r) ==
  /\ pc[r] = "evaluate" /\ stage[r] > LastStage
  /\ rowLock \in {NoOne, r}
  /\ rowLock' = r
  /\ flushed' = [flushed EXCEPT ![r] = row[r]]
  /\ written' = [written EXCEPT ![r] = Len(added[r])]
  /\ pos' = [pos EXCEPT ![r] = @ + 1]
  /\ Goto(r, IF pos[r] = Len(Events[r]) THEN "commit" ELSE "upsert")
  /\ UNCHANGED <<summary, alerts, notified, stage, row, due, added, history, faults>>

Stored(r) ==
  {[alert |-> added[r][i], status |-> "active", by |-> r, n |-> i] : i \in 1..written[r]}

CommitRequest(r) ==
  /\ pc[r] = "commit"
  /\ summary' = flushed[r]
  /\ alerts' = alerts \cup Stored(r)
  /\ rowLock' = NoOne
  /\ posted' = posted + charged[r]
  /\ undisturbed' = [q \in Requests |-> undisturbed[q] /\ q = r]
  /\ Goto(r, "created")
  /\ UNCHANGED <<notified, pos, stage, row, flushed, due, added, written, began, charged,
                 faults>>

\* Mutant: the alerts are committed in a transaction of their own.
KeepAlerts(r) ==
  /\ pc[r] \in {"upsert", "evaluate", "create", "commit"} /\ faults < MaxFaults
  /\ faults' = faults + 1
  /\ alerts' = alerts \cup Stored(r)
  /\ rowLock' = IF rowLock = r THEN NoOne ELSE rowLock
  /\ Goto(r, "error")
  /\ UNCHANGED <<summary, notified, pos, stage, row, flushed, due, added, written, history>>

\* An exception rolls the request back; a sent notification is not recalled.
FailRequest(r) ==
  /\ pc[r] \in {"upsert", "evaluate", "create", "commit"} /\ faults < MaxFaults
  /\ faults' = faults + 1
  /\ rowLock' = IF rowLock = r THEN NoOne ELSE rowLock
  /\ Goto(r, "error")
  /\ UNCHANGED <<summary, alerts, notified, pos, stage, row, flushed, due, added, written,
                 history>>

ResolveAlert(a) ==
  /\ a \in alerts /\ a.status = "active"
  /\ alerts' = (alerts \ {a}) \cup {[a EXCEPT !.status = "resolved"]}
  /\ UNCHANGED <<summary, rowLock, notified, session, history, faults>>

Serve(r) ==
  \/ Begin(r) \/ UpsertDailySummary(r) \/ Evaluate(r) \/ CreateAlert(r)
  \/ FlushSession(r) \/ CommitRequest(r)

Done == \A r \in Requests : pc[r] \in {"created", "error"}

Next ==
  \/ \E r \in Requests : Serve(r) \/ FailRequest(r)
  \/ \E a \in alerts : ResolveAlert(a)
  \/ Done /\ UNCHANGED vars

Spec == Init /\ [][Next]_vars

-----------------------------------------------------------------------------
(* Properties *)

TypeOK ==
  /\ summary \in Spend
  /\ rowLock \in Requests \cup {NoOne}
  /\ \A a \in alerts : a.by \in Requests /\ a.status \in {"active", "resolved"}
  /\ pc \in [Requests -> {"begin", "upsert", "evaluate", "create", "commit", "created", "error"}]
  /\ \A r \in Requests :
       /\ pos[r] \in 1..Len(Events[r]) + 1
       /\ pc[r] = "create" => due[r] # <<>>
       /\ written[r] \in 0..Len(added[r])
       /\ pc[r] = "commit" => rowLock = r /\ written[r] = Len(added[r])

\* A stored budget alert is true: with the events committed so far its budget has
\* that part spent, although requests read, lose and roll back each other's totals.
BudgetAlertsAreTrue ==
  /\ TypeOK
  /\ \A a \in alerts :
       a.alert.type[1] = "budget" =>
         Crossed(Budgets[a.alert.source], posted, a.alert.type[3])

\* A request, however many events it carries, stores an alert of a kind once for a
\* budget, limit or rule: two are of one event, and of two that raise the kind.
OneAlertPerSource ==
  \A a, b \in alerts :
    a.by = b.by /\ a.alert.type = b.alert.type /\ a # b =>
      a.alert.event = b.alert.event /\ a.alert.source # b.alert.source

\* What the next request catches: a request no other commits across leaves an
\* alert stored for every tier of every budget crossed before it began.
NextRequestAlerts ==
  \A r \in Requests : pc[r] = "created" /\ undisturbed[r] =>
    \A i \in 1..Len(Budgets) : \A t \in TiersOf(Budgets[i]) :
      Crossed(Budgets[i], began[r], t) =>
        \E a \in alerts : a.alert.type = <<"budget", Budgets[i].scope, t>>

-----------------------------------------------------------------------------
(* Properties the code does not have *)

\* app/services/alert_engine.py:9: alerts fire at threshold%, 90% and 100%: with
\* all requests answered, a tier the committed spend is at has its alert.
TierReachedIsAlerted ==
  Done => \A i \in 1..Len(Budgets) : \A t \in TiersOf(Budgets[i]) :
    Crossed(Budgets[i], summary.cost, t) =>
      \E a \in alerts : a.alert.type = <<"budget", Budgets[i].scope, t>>
=============================================================================
