# A verification project for aigovernance_backend

The service collects telemetry of AI calls (a FastAPI application over
PostgreSQL, with an APScheduler in the same process), prices and screens it,
raises alerts, aggregates it, and proxies calls to an AI provider. An SDK runs
in the applications that make the calls. This directory holds TLA+ models of
the parts whose correctness depends on the order of things and of the reports
over its tables, TLC runs over small instances of them, and TLAPS proofs that the
safety properties of the runs hold for every value of the constants.

Paths below are relative to the repository. `app/` is the current service and
`sdk/` the current SDK; `backend/` is an earlier copy of the service over the
same tables, with a decorator service of its own. Of `backend/` its reports,
price engine, deletions and decorator service are modelled.

## Inventory

| component | state | operations | what makes it correct |
|---|---|---|---|
| telemetry ingest, `app/routers/telemetry.py` | `telemetry_events`, child rows, `daily_org_summary` | create, track, batch, update, delete | an event id is stored once; a batch is all or nothing; the summary does not count what is not there |
| daily and monthly aggregation, `app/workers/tasks.py` | the same summary tables | select, delete, insert, commit | repairs the summary; harmless beside ingestion and beside itself |
| alert engine, `app/services/alert_engine.py` | `alerts`, `budgets`, `rate_limits`, `governance_rules` | evaluate per event, scan anomalies; operators resolve | a reached tier is alerted, once |
| anomaly detection, `app/workers/tasks.py` | `usage_anomalies` | detect | what is detected is alerted |
| notifications, `notification_service.py` | none | e-mail, WhatsApp, Teams | one per alert, within bounded time |
| control plane, `app/routers/control.py`, `control_ingest.py` | as ingest, unified traces | single, batch and trace ingest, quota, resolve | its report is true |
| vendor ingestion, `app/routers/ingestion.py`, `services/ingestion/` | `tool_connectors` | webhook, upload, pull; one adapter per vendor | what is delivered is stored |
| connector poll, `tasks.py`, `app/routers/tools.py` | `tool_connectors`, `connector_sync_logs` | scheduled poll, manual trigger | events are stored once, the status is true |
| proxy, `app/routers/proxy.py` | `ai_requests`, `ai_responses`, `route_executions`, `token_usage`, `request_cost`, `project_model_usage` | forward a call; reports; provider configuration | a forwarded call is answered, recorded whole or not at all, and billed once |
| governance keys, `governance_key_service.py` | `api_keys` | create, verify, revoke, list | a revoked key admits nothing |
| PII engine, `pii_engine.py` | `pii_policies` (read) | scan and mask | the organisation's policy decides |
| audit log, `audit_service.py` | `audit_logs` | append | a failure of it is harmless; what happened is in it |
| scheduler, `app/scheduler.py` | jobs, a pool of two threads | five interval jobs | each job recurs; one instance at a time |
| cost engine and pricing, security engine, token counter | price lists (read) | pure functions | precedence of sources, rounding |
| SDK delivery, `batch.py`, `client.py` | a buffer, a lock, a timer | add, flush, post with retries | no event lost, repeated or reordered by the buffer |
| SDK policy cache, `policy.py` | cached rules and budget | refresh each 60 s, evaluate | decisions are at most a refresh old |
| SDK capture, `decorator.py`, `interceptors/`, `tracer.py`, `context.py` | context variables | wrap calls, build events | traces nest |
| registries, `organizations.py`, `projects.py` of both services | `organizations`, `projects` and all that names them | create, change, delete | what is deleted does not come back |
| reports, `costs.py`, `summary.py`, the super-admin pages of `telemetry.py`, quota and traces of `control.py`, in both services | none | some sixty queries | pages that show the same thing show the same |
| decorator service, `backend/decorator/router.py` | `tool_api_inventory`, `decorator_registrations`, `project_model_usage`, `request_response_logs` | ingest, upsert, lists | a call is stored whole or not at all; counters follow the calls |
| logger package, `governance_logger/` and `backend/app/decorators/telemetry.py` | none | wrap a function, post its call | - |
| Langfuse mirror, budgets and models administration, API-key checks, migrations | single rows, or none | CRUD, DDL | - |

How they interact. The ingest calls cost engine, security engine and alert
engine inside one session (`autoflush=False`) and one transaction. The jobs and
the operators' endpoints of `app/routers/workers.py` run the same functions on
sessions of their own. Control plane, vendor ingestion and the connector poll
are loops around the ingest. The alert engine reads the summary that ingest and
rebuild write. The SDK posts to the control plane. The proxy shares the tables
of keys, policies and audit rows, and the pool of connections of its worker. The
decorator service hands each call to the older ingest inside its own
transaction. The SDK's policy cache pulls the quota and the rules of the server.

What is hard: READ COMMITTED transactions that read, compute in Python and
write back; waits on row locks and on the unique index, and deadlocks; loops
that swallow the failure of an item, with and without a rollback; a coroutine
that uses a blocking session; posts that time out and are executed all the
same. `PROJECT.json` lists these hazards at their lines.

## Modules

* `EventLog` - what the telemetry API promises: a set of ids, requests accepted
  or rejected as a whole, deletions.
* `TelemetryStore` - ingestion and the daily rebuild, one action per statement.
  It implements `EventLog` (`log <- StoredIds`, `outcome <- Outcome`).
* `TelemetryStore_proofs` - its theorems.
* `BudgetAlerts` - an ingest request as the alert engine sees it: its row
  object, what it has flushed, the stages of `evaluate` (security, each budget,
  each rate limit, rules), `_create_alert`.
* `AnomalyAlerts` - detection, the alert scan and resolution over days.
* `Alerts_proofs` - the theorems of both. It extends both, for which AnomalyAlerts
  calls its parts `ScanInit`, `ScanNext`, `ScanSpec`.
* `VendorIngest` - the three loops that put a list of events through one session.
* `VendorIngest_proofs` - its theorems.
* `PiiEngine` - the choice of an organisation's PII policies and the verdict of a
  scan: pure operators.
* `ProxyPipeline` (extends `PiiEngine`) - the proxy's handler on the event loops
  of several workers.
* `ProxyReports` (extends `ProxyPipeline`) - the proxy's report pages over the rows
  it has committed.
* `ProxyPipeline_proofs` - the theorems of both.
* `SdkDelivery` - the SDK's buffer and its posts, with the network and the server.
* `SdkRuntime` - the trace context of nested calls in threads and tasks, and the
  policy cache that gates them.
* `Sdk_proofs` - the theorems of both; the parts of SdkRuntime are `RuntimeInit`,
  `RuntimeNext`, `RuntimeSpec`.
* `Pricing` - what a call costs, where it is stored and where it is shown: pure
  operators.
* `Ledger` (extends `Pricing`) - the tables the reports read, with everything
  that writes them, a transaction at a time.
* `LedgerReports` (extends `Ledger`) - the reports of both services as functions
  of those tables, and what they owe each other.
* `Ledger_proofs` - the theorems of both.
* `DecoratorService` - decorated calls in the transactions of the decorator
  service, with its unique keys and swallowed exceptions.
* `DecoratorService_proofs` - its theorems.
* `Sums` - lemmas on sums over finite sets, for the proofs of Ledger, the alerts,
  the proxy and the decorator service.
* `MC...` - the values of the constants.

### TelemetryStore

`stored`, `summary` are the committed rows, `lock` the row locks of summary
rows; `uncommitted`, `mem`, `fresh`, `gone` are a request's session: event rows
flushed, totals of loaded summary objects, which of these are to be inserted,
which of the loaded rows a rebuild has deleted since. `pc` runs through
`SelectExisting` (telemetry.py:856), `FlushEvent` (927), `UpsertDailySummary`
(932), `FlushSession` (the flush in `evaluate`), and `CommitRequest`. A rebuild
is `AggregateEvents`, `StartDelete`, `DeleteRow`, `InsertRow`, `CommitRebuild`
(tasks.py:29-94 with the commit of its caller). An UPDATE that finds no row
raises StaleDataError, an INSERT of a present key IntegrityError: `RowLost` and
`Occupied`. `posted` is a history variable. Of a summary row only
`total_events` is kept, since all columns are written by one statement.

### BudgetAlerts

`row` is the summary object as changed in memory and `flushed` what the
database has of it; `VisibleRow` is what the engine's SUM sees. `due` holds the
alerts a stage has still to create, `added` and `written` the alerts of the
session and how many of them are flushed. Each budget and each rate limit is a
stage, since the code queries the summary again for each; a budget may be of this
project, of another or of none, daily or monthly, and its sum takes other rows
too (`elsewhere`). Costs and thresholds are integers, percentages of the limit are
rounded to one decimal as `quantize` rounds them (half to even). The event and the
budget, limit or rule an alert is raised for are kept with it.

### AnomalyAlerts

Alerts are counted by kind (the key of the deduplication) and day of creation.
A scan's own alerts are pending until its commit: neither it nor another scan
sees them, as the code flushes once at its end.

### VendorIngest

`own` is what a session has flushed since its last rollback. `Refuse` is the
rollback of the first two loops; the connector loop has none, and `failed` says
that its session is in the state in which every use raises. The swapped
arguments of `CostEngine().calculate(db, row)` make each stored item of that
loop end in the swallowed exception.

### ProxyPipeline

`loop` holds the request that the worker's event loop executes; an action needs
the loop free or its own, `GoOn` keeps it, `Await` gives it up. So a request
that waits for a row lock (`TouchKey`, `FlushRecord`) or for a connection
(`PoolTimeout`) keeps the loop. `InTransaction` steps hold a connection.
`keyLock` is taken by the flush of `last_used_at` and lasts until the request's
transaction ends. A failed flush inside `log_event` is `Poison`; any other exception
that the handler does not catch, from the update of the key to the last commit, is
`BreakOff`: no one guards what comes after the provider's answer (`proxy.py`:460-660),
so that `"usage": null` or a failing flush rolls back a call that was sent. It may
happen at any step of any request, as often as it likes. A text is the set
of PII types whose patterns match, chosen at the scan and kept in `found`; whether
the request is blocked and audited follows from the policies (`Verdicts`). Of an
`ai_requests` row the pages need no more than its status, its usage row's key
(`RowKey`) and, when it is billed, its cost.

### SdkDelivery

`maxSize` is the configured batch size; with 1 there is no buffer. A sender is a
thread or the timer. `lock` and `buffer` are the BatchBuffer's;
`attempt` counts the posts of a batch; `wire` holds requests that may still
reach the server, `reply` the answer to the current attempt. What the server
stores of a batch (what follows the last item it refuses) is VendorIngest's
`ReportedSinceLastErrorStored`.

### SdkRuntime

`stack` holds a thread's frames, `context` its context variable: `Open` is
`push_context`, `saved` what it found, `Close` the end of a frame by itself or
by an exception, with `Restore` (context.py:34-38). `Start` begins a task with a
copy of the context, or a thread without one. A patched call goes through
`EvaluatePreCall` (policy.py:83-123), the provider and `EvaluatePostCall`
(127-161). `cache` is what the refresh thread has pulled: `PullRules` and
`PullBudget` may each fail and leave it (42-69). Rules are records with the
fields the server sends, so that `Get` is `dict.get` on them.

### Pricing, Ledger and LedgerReports

A price is one rate for input and output; amounts are integers, of which `Scale`
make a micro-dollar. `EngineCost` is the engine of the ingest, `ControlCost` what
the control plane decides before it, `OldEngineCost` the older service's,
`CalculateTokenCost` the catalogue that every page asks again. Each rounds where
the code does: an event's costs and total apart when it is stored (`CostSummary`), a
page's for each group it prices (`Shown`, `ShownEach`), to four decimals where a
page shows four (`Cents`), a share to a tenth of a percent (`Tenths`). One rounding
stands for the two of input and output; the bounds of the properties, a
micro-dollar (not a half) for each event, row and group, leave room for both.

`store` are the events: `created` is the day of storing (created_at), `completed`
the sender's (completed_at), `skew` between them -1, 0 or 1. `UpsertDailySummary`
counts on the second, `RebuildDaily` on the first; `RebuildMonthly` sums the
daily rows of the current month. `daily` and `monthly` have one row per key; two
rows without a project that overlapping requests insert are outside this module,
where each transaction is a step. `OldSweep` is the older service's deletion: it
rolls the session back at each table that refuses, so that the events always
stay and the summaries may. `dirty`, `edited` and `erased` are history: the days
an edit leaves behind, models with edited events, what was deleted.

Each operator of LedgerReports is a handler, with its filters, its scope and its
grouping; names in `Old` are the older service's. `Scope` is
`core/visibility.py`: without an organisation, the organisations that exist.
Averages, rates, order and limits of a page are left out.

### DecoratorService

A request gets a connection or gives up (`Receive`, `PoolTimeout`; `Others` is
what the other endpoints hold), reads a row of the inventory, the registrations
and the usage (`plan`), flushes with the event (`FlushIngest`), reads the day's
summary row (`ReadSummary`: `daily`), flushes it with the first alert query
(`Link`) and holds what it wrote until `Commit`. `FlushUpsert` is the SDK's upsert
and has no event. `Clash` and `ClashDaily` are an INSERT of a key that was stored
meanwhile, or an UPDATE of a summary row that `Rebuild` has replaced; the
exception is swallowed (router.py:656) and the session can only `Raise` at its
commit. `FailEarly` and `FailLate` are exceptions of the pipeline before and after
the flush of its event, `Restart` the end of the process. `disturbed` is history:
calls that met another, or a rebuild, on their summary row, or a full pool.

The unique keys of the four tables depend on who made them, and the repository
has several answers. `create_all` at the start of the service (`backend/app/main.py`:95)
makes only what `models.py` declares, no key on registrations; `newdbtable.sql` keys
registrations by organisation, function and module (288-289) and the inventory
by organisation and function; `003_decorator_framework.sql` (54-56) and
`004_consolidated_schema.sql` (298-299) do as well, and count NULL as a project in
the key of usage. Migration 005 would take the key of the inventory off
`newdbtable.sql`'s tables; its DROP CONSTRAINT names no index of 003 or 004.
`Schemas` are these sets, `keys` the one at hand: with the key of the
inventory a function belongs to the project that called it first, and calls from
others are refused (`Foreign`).

## Runs

Passing runs:

| run | what it shows | distinct states |
|---|---|---|
| `TelemetryStore_batches` | crossed batches, the hourly rebuild, deletions, a failure: ids unique, no row counts too much, `EventLog` implemented, every request answered, the summary exact in the end | 9.6k |
| `TelemetryStore_rebuilds` | an event, its retry and another, against the scheduled and the manual rebuild at once: the summary never counts too much | 243k |
| `BudgetAlerts_concurrent` | alerts state true spends; one alert of a kind per request and budget, limit or rule; the next request alerts what the last one reached | 448k |
| `AnomalyAlerts_scans` | active alerts of a kind and a day are bounded by scans and their limit; the kinds among the newest anomalies are alerted again and again | 827k |
| `VendorIngest_all` | three routes at once: ids unique; a report is true after its last error; what a connector keeps returning is stored in the end | 116k |
| `ProxyPipeline_requests` | two requests with one key on two workers and a third beside them: calls with one key are never with the provider together, usage counts billed calls exactly and every report page shows the same calls, a call is recorded whole or not at all wherever it breaks off, a forwarded call is answered | 108k |
| `SdkDelivery_delivery` | the buffer is a queue; copies are bounded by attempts; every captured event is settled or given up | 230k |
| `SdkRuntime_policy` | events name the trace they were made in; in the end calls follow the server's budget | 840k |
| `Ledger_reports` | the summary stays within the events across midnight, the enforced cost is the shown one but for roundings, deletions are final, closed months are closed, the current day heals; costs cut in any way, pages over the summary, budgets and notifications, and the two services agree | 101k |
| `DecoratorService_ingest` | with the service's tables and with those of the SQL files: counters never run ahead of the calls and are exact without overlap; a call is in all tables or none; registrations are bounded by the pool, or keyed; only overlap, a rebuild, a full pool, another project's function or a fault refuses a call; each call is answered | 260k |

`TypeOK` of a module is an invariant of its run, or the first conjunct of one
(`BudgetAlertsAreTrue`, `DuplicatesBounded`, `OneRowPerEvent` of VendorIngest,
`OneCallPerKey`, `BufferIsFifo`, `CallsAreLinked`).

Runs that show a disagreement between the code and what the repository says of
it (`findings` in `PROJECT.json` has the quotations):

| run | what the code does |
|---|---|
| `ProxyPipeline_stuck` | two requests with one key stop a worker |
| `SdkRuntime_rules` | a rule of the server is never applied: the SDK reads `metric` and `action`, the server sends `metric_name` |

Each of five more is stated in its module, under "Properties the code does not
have", and was found violated; no run keeps it: `TierReachedIsAlerted` (the event
that reaches a tier raises no alert, the next one does), `DeliveredIsStored` (a
new event before a known one is never stored), `AuditFailuresAreHarmless` (a
failed audit write makes the request fail), `SentIsRecorded` (what raises after the
provider's answer rolls back the row of a call that was sent), `PipelineFailureIsHarmless` (a
pipeline failure refuses the decorated call).

The models have more behaviours of this kind, which no run of the project states
as a property:

* a duplicate that overlaps the first request passes the SELECT and is answered
  500 by the unique index, not 409 (`telemetry.py`:856, `FlushEvent`);
* concurrent requests lose increments of the summary (`telemetry.py`:1071) and,
  across workers, of `project_model_usage` (`proxy.py`:584); the summary is
  repaired by the rebuild (`RebuildConverges`), the usage row is not;
* an event around midnight is counted under two dates (`UpsertKey` # `AggKey`,
  `Skewed`); an edit of a day that is over never reaches its summary (`EditsHeal`
  is about the current day), nor one of a month that is over the monthly page;
* the spend cap of a month counts rows of the next month that are dated already,
  the quota does not (`SpendCapIsQuotaAndFuture`); the notifications compare all
  time with the budget of a month (`BudgetNotification`), so that one hardly used
  this month may be exceeded there;
* from 99.95 % on the spend-cap page says exceeded, since it rounds the share first
  (`costs.py`:945), and the notification only approaching (`telemetry.py`:581), or
  nothing where the threshold is above 99 (`ExceededIsNotified`);
* a call that costs less than half a micro-dollar is stored, and enforced, as
  none; many of them show a cost on every page (`EngineCost`, `Shown`);
* the insights page returns a catalogue price beside the stored costs: they differ
  for what was priced by the sender, the provider's table or the tool's, and
  `total_cost` may lack what `total_token_cost` has (`InsightsToolCosts`);
* two budgets of a project that are both at a tier, two rate limits, or two rules
  on one metric give two alerts of one kind in one event, since the second lookup
  does not see the first alert; once one of them is stored and active, the kind
  is suppressed for the other budget as well (`OneAlertPerSource`, `Duplicate`);
* cost totals, days and months show organisations that are deleted or were never
  created, the other pages do not (`SummaryViewsAgree`, `hidden`);
* a trace of models with different rates costs on its page what its first model
  would (`TracePartsAgree`); a logger event of a catalogue model is enforced at
  the older engine's price (`CataloguePriced`);
* an ingest counts an event without a model under no name, the rebuild of its day
  under "unknown"; of one dated on another day both rows stay, and the monthly
  job, which gives both one name, fails on its unique key to the end of the month
  (`Collide`);
* overlapping decorated calls lose counts, and a function can have several
  registrations in tables made by `create_all` (`CountersFollowCalls`,
  `RegistrationsBounded`); in those of 003 and 004 a function that two projects
  share is refused to the second (`Foreign`); what
  `backend/app/decorators/telemetry.py` posts is refused with 401 (`Receive`);
* of two PII policies an organisation has for one type, the one of lower priority
  is used, and of the global ones the one of higher (`LoadPolicies`);
* two workers that record the first call of a project and model on a day collide
  and one call leaves no row (`Poison` in `FlushRecord`);
* overlapping requests, and two anomalies of one kind in one scan, raise the same
  alert twice (`Duplicate`, `Suppressed`);
* anomalies older than the newest `BatchLimit` are never alerted (`Newest`);
* items that a batch reports as ingested are rolled back by a later one
  (`Refuse`); a poll that stores its events reports `no_data` (`Finish`);
* a timed-out call's route row says `proxying` for ever (`CommitStatus`), and the
  audit row of a detection is lost with a 400 (`NoProviderKey`);
* an event logged as dropped may be stored (`Retry`), and what is buffered when
  the application ends, or when a post raises what is no failure of the request
  (`batch.py`:38), is lost (`Exit`, `Abandon`).

### Bounds

* Requests, sources, threads: two or three. Two suffice for a lost update, a
  duplicate and a deadlock; the third is a retry or a bystander that the others
  must not disturb.
* Events: two per batch, in opposite orders, so that both orders of every
  conflict occur; two keys, one shared.
* `MaxFaults` bounds spontaneous failures (lost connections, timeouts, 5xx). One
  suffices to roll a transaction back at each of its points; the SDK needs as
  many as attempts. Failures that the code itself causes are not bounded.
* Batch sizes of the SDK: 1, its default, without a buffer, and 2.
* `LastDay`, `MaxAnomalies`: enough for an alert to leave the window of one day,
  and for one more anomaly than the limit.
* Amounts of BudgetAlerts are around the tiers of 80, 90 and 100 of limits of 10 and 9.
* `PoolSize` is 2 with three requests, so that the third finds no connection. Two
  PII types under seven policies give a text each verdict: allowed, audited,
  blocked, blocked without an audit.
* Ledger: four events, of every way in (direct, logger, control plane, unified
  trace), of three spellings of two catalogue models, on either side of midnight
  and of the end of a month (`MonthOf` splits day 1 from day 2); `MaxAdmin` 2 lets
  one edit, or a deletion and a re-creation, meet every order of the rest; an edit
  gives an event another catalogue model or none (`Renames`). `Scale` is 5 with a
  rate of 2, so that one token is stored as none and two are rounded up; one large
  event reaches 99.98 % of one budget and passes another.
* DecoratorService: five calls of two functions, with and without a project, from
  the three clients, the second function's summary row being the first one's; two
  at a time suffice for every conflict. The two schemas are the one without and the
  one with all three keys; the proofs are for any.
* SdkRuntime: depth two on one thread and one on another; `Ids` are used again.

Deadlock is checked except in `ProxyPipeline_stuck`, which shows one, and in
`Ledger_reports` and `DecoratorService_ingest`, whose behaviours end when the
days are over or the calls served. Another run that ends does so by a stuttering step guarded by `Done` or `Quiet`.

### Fairness

* TelemetryStore: request threads and job threads run (weak fairness);
  PostgreSQL queues lock waiters (strong fairness of the waiting statements) and
  breaks deadlocks; the hourly job recurs. Deletions and faults have none. In
  the run with liveness there is one rebuilder: two that start again at once,
  which an hour between runs excludes, could be each other's victim for ever.
* AnomalyAlerts: scans recur and end.
* VendorIngest: polls and deliveries recur; a wait at an item is granted when it
  is over again and again.
* ProxyPipeline: the loop serves what is ready in order, a provider answers or
  the client gives up after 120 s: strong fairness per request.
* Ledger: the hourly job recurs within a day. DecoratorService: a request that is
  received is served. SdkRuntime: the refresh thread runs (weak fairness) and a
  pull succeeds again and again (strong fairness of `PullBudget`): with a server
  that never answers the cache keeps its last state, as the code says.
* SdkDelivery: threads run, the timer ticks, the server answers what reaches it.
  The strong fairness of `Add` and of the timer's flush says that
  `threading.Lock` does not pass a waiter over for ever; Python does not
  guarantee it and its implementation on Linux behaves so under this load.

## Proofs

`TelemetryStore_proofs` proves, for any sets of requests, rebuilders, events and
keys, any batches and any bound on faults that satisfy `StoreAssumption`:

* `TypeCorrect`: `Spec => []TypeOK`. The invariant adds `PosOK`: an active
  request that is not at its commit is at an item of its batch. Without it the
  function applications of the actions have no value.
* `StoredOnce`: `Spec => []OneRowPerEvent`. Not inductive: `CommitRequest` adds
  all of `uncommitted`. `IdInv` adds that the ids of open transactions are
  disjoint from each other and from `stored` (`IdsDisjoint`), which `FlushEvent`
  establishes by its two guards, and, for the refinement, that what is
  uncommitted is the flushed prefix of the batch (`PrefixFlushed`) and that an
  id at its INSERT is not in its own session (`LookedUp`).
* `Refinement`: `Spec => ImplementsEventLog`. `CommitRequest` is `Accept`: by
  `PrefixFlushed` and `IdsDisjoint` the batch has distinct ids none of which is
  in the log; the ends with 409 or 500 are `Reject`, `DeleteEvent` is `Delete`,
  every other step stutters.
* `SummaryBounded`: `ASSUME UpsertKey = AggKey PROVE Spec => []NeverOvercounts`.
  `CountInv` bounds by `posted` whatever may become a total: a rebuild's result,
  a stored row, and an object in a session less the events of that session that
  are flushed and in it. The assumption is needed: an event that completed
  before midnight and is received after it is counted by the rebuild under a
  date for which none was posted.

`Alerts_proofs`, for any requests with any events, budgets and rate limits that
satisfy `AlertAssumption` (costs and tokens are naturals: the schema does
not refuse a negative one, and with it no spend would be monotone):

* `AlertsAreTrue`: `Spec => []BudgetAlertsAreTrue`. A tier crossed once stays
  crossed, since the percentage, a division rounded half to even, grows with the
  spend (`QuotientGrows`). `MoneyInv` says that no total a request reads, holds or
  has flushed exceeds the committed costs and its own.
* `OneOfAKind`: `Spec => []OneAlertPerSource`. The lookup of `_create_alert` sees
  only what is flushed. `KindInv` adds why no more than this is duplicated: what a
  request has added and not flushed comes from earlier stages of the same event,
  and two stages raise one kind for two budgets or two limits only
  (`StagesApart`).
* `NextCatchesUp`: `Spec => []NextRequestAlerts`. `NextInv` follows a request across
  which no other commits: its totals cover the spend it began with, and once past
  the stage of a budget in its first event it has, for every tier crossed then, an
  alert stored, added or due.

and for any scanners, kinds, batch limit and window that satisfy `ScanAssumption`:

* `DuplicatesStayBounded`: `ScanSpec => []DuplicatesBounded`. A scan raises what it
  does not see, so its own pending alerts count as well: what is stored of a kind
  and a day and what open scans have added stay within a batch for each scanner
  (`AddedInv`). Where the window is the current day alone (`ALERT_DEDUP_DAYS` 0) that
  fails: a scan that lasts past midnight looks at the new day, no longer sees the
  alerts of the day it dates its own with, and raises them again. `LoadInv` bounds a
  day that is over by what its scans have still to handle, another batch each. The
  bound of the property doubles in that case for this reason.

`VendorIngest_proofs`, for any sources, lists of events and bound on faults that
satisfy `SourceAssumption`:

* `StoredOnce`: `Spec => []OneRowPerEvent`. As in the store, `IdInv` adds that what
  open transactions have flushed is in one of them only and not committed.
* `ReportsAreTrueSinceLastError`: `Spec => []ReportedSinceLastErrorStored`. Before the
  end of a list nothing is stored; `Reported` says that what was reported since
  the last error is in the transaction, because a rollback and its error come
  together and the other failures take nothing back.

`Sdk_proofs`, for any threads, calls, batch sizes, attempts and bound on
faults that satisfy `DeliveryAssumption` (each call is an event of its own):

* `BufferIsAQueue`: `Spec => []BufferIsFifo`, with `SenderInv`: the lock belongs to
  the sender of a batch, so that nobody appends while a batch is cut.
* `CopiesWithinAttempts`: `Spec => []CopiesBounded`. A count of rows alone is not
  inductive: a message of an attempt given up may still arrive. `CopyInv` counts
  rows and messages on the wire together against the posts made, which needs
  `PlaceInv`: an event is ahead, in the buffer or in one batch, never in two.

and for any threads and tasks, kinds of frames, depths and ids that satisfy
`RuntimeAssumption`:

* `CallsStayLinked`: `RuntimeSpec => []CallsAreLinked`. `Nested` says of the whole stack what
  the property says of its top: each frame has saved the id pushed last below it.
  Without it nothing would be known of the trace that `Restore` brings back.
  `IdInv` adds that no two open frames have one id.

`Ledger_proofs`, for any organisations, projects, events, prices, calendar and
bound on edits that satisfy `PricingAssumption` and `LedgerAssumption`. The latter
ask of the constants what the code's types give: prices of the catalogue are
naturals, other prices and costs that a sender gives are integers (a cost may be
negative), the registries of models and tools are finite and have no entry
without a name or called "unknown", a trace has a first call if it has any,
months follow the order of days. The sums of the reports are folds, which add in
an order of their own; by induction over the subsets of a finite set
(`SmallerFirst` of `Sums`) that order does not matter, a sum splits along any
partition, and grouping by a function loses nothing (`SumGroups`).

* `DeletionsAreFinal`: `Spec => []ErasedStaysErased`. Not inductive:
  `DeleteOrganization(o)` adds `o` to what no row may name, and a row of another
  organisation could name it as its project. `ErasedInv` adds `RowsPlaced`, that
  the columns of a row come from the two disjoint sets (`LedgerAssumption`: ids
  of organisations and projects are never equal). Every step but an ingest makes
  its rows of rows that are there (`MadeOfRows`); an ingest takes the names of
  its event out of `erased`.
* `MonthsStayClosed`: `Spec => ClosedMonthsFrozen`, with `TodayInv`: today is a
  day of the calendar, so that it has a month. Only the monthly rebuild adds
  monthly rows, and they carry the month of today.
* `TablesAreTyped`: `Spec => []TypeOK`, in which keys are unique. `TypeInv` adds
  that the tables are finite and of which names their rows are; a rebuild has one
  row per key since it makes one per group, and the monthly one since it is not
  run on groups that collide.
* `SummaryIsWithinEvents`: `Spec => []SummaryWithinEvents`. `CountInv` is the property
  for all days that are not `dirty`. On such a day a step leaves rows and events
  of a pair of names alone, empties both, rebuilds the day, or ingests
  (`CleanSteps`); only the last two need counting.
* `CostIsEnforcedAsShown`: `Spec => []EnforcedAsShown`. `EnforcedInv` adds that an
  event not edited is stored with the model, tokens and cost that it was priced
  with (`StoredAsPriced`), from which a rebuild sums; that an event's total is the
  sum of its costs but for their roundings (`SplitInv`); and that a row's cost is
  what its tokens cost before rounding, three micro-dollars an event apart at most
  (`EnforcedRow`), which adding a row and summing rows preserve.
* `ExceededBudgetsAreNotified`: `Spec => []ExceededIsNotified`. `CostInv` is `CountInv`
  for costs: the tokens of the rows of a clean day cost, before rounding, at most
  those of the events dated on it. Days and projects are then summed (`TwiceBound`):
  each event is counted at most once for each of its two dates. The page and the
  notification are each as near as their roundings (`ShownNear`, `CentsNear`,
  `TenthsNear`).
* `CostViewsAddUp`, `BothServicesAgree` and `SummaryPagesAgree`: `Spec => []CostViewsAgree`,
  `[]ServicesAgree`, `[]SummaryViewsAgree`. Given finite tables each page is a
  partition of its scope, so that these are facts about sums: a rounded group is a
  micro-dollar from the exact one, and the groups together no more than one an event
  (`NearGroups` of `Sums`); with `CountInv` and `CostInv` for the overview, with
  `NumbersInv` (stored costs are numbers), and with `StoredAsPriced` for what is
  stored beside what is shown (`StoredLlmNear`).

`ProxyPipeline_proofs`, for any requests, workers, keys, usage rows, policies,
pool and bound on faults that satisfy `ProxyAssumption`:

* `KeyIsMutex`: `Spec => []OneCallPerKey`. `LockInv` says that a request between
  the flush of its key and the end of its transaction has the lock of the key,
  and that locks belong to open transactions only; without the latter the end of
  one request could leave another's lock behind. `DataTypes` is the rest of the
  module's `TypeOK`.
* `UsageIsExact`: `ASSUME OneLoopPerRow PROVE Spec => []UsageMatchesCosts`.
  `UsageInv` adds that from its SELECT of the usage row to its commit a request
  keeps its event loop and what it has read is still the row's count. The
  assumption is needed: two workers that serve calls of one project and model
  under two keys read the same count and one increment is lost
  (`proxy.py`:584). The run's requests satisfy it: the two that count on one row
  are on one worker.
* `RecordsAreWhole`: `Spec => []RecordIsWhole`. `RecordInv` adds that a request has
  no rows before its end and is sent only past the scan: without it an exception
  could leave rows behind, or a call that is answered 400 could have been sent.
* `PagesFollowUsage`: `Spec => [](UsageMatchesCosts => PagesAgree)`, where
  `ReportsAssumption` asks for finitely many usage rows, and for costs that are naturals. Each page is a
  partition of the received requests by day, model or project, so that its cells
  add up to its list (`Sums`). Costs are of completed calls only, by `RecordInv`; that the
  page of blocked calls is what the policies blocked is `VerdictInv`: past the scan
  is only what was not to be blocked, and a row says "blocked" exactly when the
  verdict does, since "block" is the strongest action (`BlockIsStrongest`). The page by
  project and model reads the usage rows: only a lost count can part it from the rest.
* `ReportsAgree`: `ASSUME OneLoopPerRow PROVE Spec => []PagesAgree`, with
  `UsageIsExact`: none is lost then.

`DecoratorService_proofs`, for any calls, pool and bound on faults that satisfy
`DecoratorAssumption` (finitely many calls; no row is `None`; the SDK's upsert, which
has no model, names none). One invariant, `ServiceInv`, serves all:

* `RowsAreTyped`: `Spec => []TypeOK`. A function has one inventory row in a project
  although lookup and INSERT are apart: `HolderInv` says that a request that has
  flushed holds its unique keys to its commit, and that none of them is taken
  behind it.
* `TrailIsKept`: `Spec => []AuditTrail`, with `TrailInv`, which says of each stored
  call and of each log row what belongs to it, and `IdInv`, whose row is whose.
* `DuplicatesWithinPool`: `Spec => []RegistrationsBounded`. Not inductive: requests that
  have looked and not inserted count too. `PoolInv` bounds them together: they
  looked before the first row was there and are in flight at once. That a keyed
  registration is alone is `HolderInv` again.
* `RefusalsHaveReasons`: `Spec => []RefusedOnlyOnOverlap`. `OverlapInv`: a row that
  appears behind a request was inserted by one it overlapped, or is another
  project's. `DailyInv` says the same of the summary row: behind a request that
  met no other and no rebuild on it, it neither appears nor goes. `RefusedInv` adds
  that a request with a session that can only roll back has its reason already.
* `CountersNeverAhead`: `Spec => []RowsNeverAhead`: no row counts more calls,
  successes or failures than are stored. `CountInv` says it of the rows and of the
  values read from them that requests are about to write back.
* `CountersAreKept`: `Spec => []CountersFollowCalls`, on the totals that the pages show,
  which add the rows of a key. That no row is ahead does not bound the sum of
  several registrations: `ShareInv` says that the stored calls can be attributed to
  rows of their key, each to one, so that no row, nor what was read of it, counts
  more than its share. `ExactInv` is the other half: where no two calls of a function,
  or of a usage, have overlapped, there is one row, its count is that of the stored
  calls, and a request in flight has read it as it is.

Only model-checked: what needs fairness (answers, deliveries and polls that come
in the end, `RebuildConverges`, `EditsHeal`, `ScannedStaysAlerted`) is out of the
prover's reach, as is ENABLED. Every invariant of a passing run is a theorem;
`UsageMatchesCosts` and `PagesAgree` under `OneLoopPerRow`, `NeverOvercounts` under
`UpsertKey = AggKey`. In the runs both hypotheses hold.

## Not modelled

In DecoratorService, the deletion of log rows (with the events of an organisation
or of a key) and the proxy's writes of `project_model_usage`, which takes the same
rows by the same key. Overlapping requests whose events have no project, groups of
names that differ by blanks (both would need the session level of TelemetryStore
with names as data); child rows of an event; the contents of messages, prompts and
payloads; PII patterns and masked texts; token estimates; the cost model custom;
file parsing and vendor adapters; streams of the SDK; the pages on alerts,
security and chat; single-row CRUD; checks of API keys; Langfuse. The older
service's alert engine, workers and ingest, of which the modelled ones are the
later state.

PostgreSQL, asyncio and HTTP are modelled from how the code uses them and are
marked external in the map: row locks last to the end of the transaction, a
waiting statement sees the newest committed version, an INSERT waits for an
uncommitted duplicate, one transaction of a cycle of waits fails.

## Plan

Done, in this order: TelemetryStore with EventLog and its proofs; BudgetAlerts;
AnomalyAlerts; VendorIngest; PiiEngine, ProxyPipeline and ProxyReports;
SdkDelivery; Pricing, Ledger and LedgerReports; DecoratorService; SdkRuntime; the
proofs of Ledger, ProxyPipeline, VendorIngest, SdkDelivery, SdkRuntime, BudgetAlerts,
DecoratorService, AnomalyAlerts and ProxyReports.

To model next: overlapping first events without a project (`models.py`:388); a
notification as a step of the ingest transaction, with the pool
(`notification_service.py`:89); the two threads, coalescing and misfires of the five jobs.

To prove next: `UsageMatchesCosts` where the requests of a usage row share a key
instead of a loop, from `LockInv`; and the invariants of what is modelled next.
