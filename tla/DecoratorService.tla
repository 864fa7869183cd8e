-------------------------- MODULE DecoratorService --------------------------
(***************************************************************************)
(* Calls of decorated functions on their way into the older service        *)
(* (backend/decorator/router.py), sent by                                  *)
(*   "package"  the governance_logger package, which posts the call to     *)
(*              /decorator/ingest with its key in X-API-Key;               *)
(*   "module"   the copy of it in backend/app/decorators/telemetry.py,     *)
(*              whose key goes in Authorization, where nobody looks;       *)
(*   "sdk"      GovernanceDecorator, which posts /tools/inventory/upsert.  *)
(* Nobody repeats a post, nobody sees its answer.                          *)
(*                                                                         *)
(* A request is one transaction over four tables and the telemetry event.  *)
(* It reads a row of three of them, computes the new counters, and flushes *)
(* them when the event is flushed (the session does not flush by itself);  *)
(* from then on it holds its rows, or the unique keys it inserts, up to    *)
(* the commit.  The pipeline then reads the day's summary row of the       *)
(* model, or of the tool when no model is named, and flushes a second      *)
(* time.  An exception of the pipeline is swallowed, but a database error  *)
(* leaves a session that can only roll back.                               *)
(*                                                                         *)
(* Which unique keys the tables have depends on who created them, the      *)
(* service when it starts or one of the SQL files (decorator/__init__.py   *)
(* names both).                                                            *)
(*                                                                         *)
(* One organisation, one day; tokens, costs and latencies move with the    *)
(* call counters.                                                          *)
(***************************************************************************)
EXTENDS Naturals, FiniteSets, FiniteSetsExt

CONSTANTS
  Calls,
  Of,         \* call -> [by, project, tool, fn, path, model, status]; fn is the tool with
              \* the function, path the module the function is in
  Schemas,    \* unique keys the tables may have beside those of every schema:
              \* "registration", of an organisation, function and module (each SQL file);
              \* "function", of the inventory without its project (003, 004, newdbtable);
              \* "no_project", of usage, in which NULL is a project (003, 004)
  PoolSize,   \* DB_POOL_SIZE, no overflow
  Others,     \* connections the other endpoints of the service may hold
  None,
  MaxFaults   \* lost posts, exceptions and restarts

Projects == {Of[c].project : c \in Calls}
Functions == {Of[c].fn : c \in Calls}
Models == {Of[c].model : c \in Calls}
InventoryRow ==
  [id : Calls, project : Projects, fn : Functions, total : Nat, ok : Nat, err : Nat]
RegistrationRow == [id : Calls, fn : Functions, count : Nat]
UsageRow == [id : Calls, project : Projects, model : Models, count : Nat]

ASSUME DecoratorAssumption ==
  /\ \A c \in Calls : Of[c].by \in {"package", "module", "sdk"}
  /\ \A c \in Calls : Of[c].status \in {"success", "error"}
  /\ \A c \in Calls : Of[c].by = "sdk" => Of[c].model = None \* an upsert names no model
  /\ PoolSize \in Nat \ {0} /\ Others \in Nat /\ MaxFaults \in Nat /\ IsFiniteSet(Calls)
  /\ Schemas \subseteq SUBSET {"registration", "function", "no_project"}
  /\ None \notin InventoryRow \cup RegistrationRow \cup UsageRow \cup {200, 401, 500}

VARIABLES
  pc, answer,     \* call -> where it is, the HTTP status
  plan,           \* call -> the rows its request has read
  event,          \* call -> "none", "flushed" or "linked" to the log
  inventory,      \* tool_api_inventory: [id, project, fn, total, ok, err]
  registrations,  \* decorator_registrations: [id, fn, count]
  usage,          \* project_model_usage: [id, project, model, count]
  logs,           \* request_response_logs: [call, linked]
  events,         \* telemetry events of calls
  keys,           \* the unique keys of this database, one of Schemas
  summaries,      \* keys that have a row in daily_org_summary
  daily,          \* call -> what its pipeline knows of its summary row: "unread",
                  \* "none", "row", or "gone", replaced by a rebuild since
  overlap,        \* history: calls in flight with another of a common row
  disturbed,      \* history: calls not stored that met a full pool, or with their
                  \* summary row another call in flight or a rebuild
  faulted, faults

tables == <<inventory, registrations, usage, logs, events>>
day == <<keys, summaries, daily, disturbed>>
vars == <<pc, answer, plan, event, tables, day, overlap, faulted, faults>>

InFlight == {c \in Calls : pc[c] \in {"inventory", "registration", "usage", "flush", "rest",
                                      "alerts", "commit", "poisoned"}}
NoPlan == [inv |-> None, reg |-> None, use |-> None]
Ingests(c) == Of[c].by # "sdk"

Init ==
  /\ pc = [c \in Calls |-> "sent"]
  /\ answer = [c \in Calls |-> None] /\ plan = [c \in Calls |-> NoPlan]
  /\ event = [c \in Calls |-> "none"]
  /\ inventory = {} /\ registrations = {} /\ usage = {} /\ logs = {} /\ events = {}
  /\ keys \in Schemas /\ summaries = {} /\ daily = [c \in Calls |-> "unread"]
  /\ overlap = {} /\ disturbed = {} /\ faulted = {} /\ faults = 0

Goto(c, step) == pc' = [pc EXCEPT ![c] = step]
Fault(c) == faults < MaxFaults /\ faults' = faults + 1 /\ faulted' = faulted \cup {c}

-----------------------------------------------------------------------------
(* The host *)

\* The post is never made or never arrives: the result, read in a finally clause,
\* has a count that is no number; the network; the time limit; the end of the host.
Lose(c) ==
  /\ pc[c] = "sent" /\ Fault(c)
  /\ Goto(c, "done")
  /\ UNCHANGED <<answer, plan, event, tables, day, overlap>>

-----------------------------------------------------------------------------
(* The request *)

Finished(c, code) ==
  /\ Goto(c, "done") /\ answer' = [answer EXCEPT ![c] = code]
  /\ plan' = [plan EXCEPT ![c] = NoPlan] /\ event' = [event EXCEPT ![c] = "none"]
  /\ daily' = [daily EXCEPT ![c] = "unread"]

SameFunction(c, d) == Of[c].fn = Of[d].fn
SameInventory(c, d) == SameFunction(c, d) /\ Of[c].project = Of[d].project
SameUsage(c, d) ==
  /\ Of[c].model = Of[d].model /\ Of[c].model # None /\ Of[c].project = Of[d].project
  /\ Ingests(c) /\ Ingests(d)

\* _ingest_event names the event, and its summary row, after the tool without a model.
SummaryKey(c) == <<Of[c].project, IF Of[c].model # None THEN Of[c].model ELSE Of[c].tool>>
SameSummary(c, d) == Ingests(c) /\ Ingests(d) /\ SummaryKey(c) = SummaryKey(d)

\* S, and when it is not empty what it is beside.
With(c, S) == IF S = {} THEN {} ELSE S \cup {c}

\* require_api_key reads X-API-Key only, before it asks the database.
Receive(c) ==
  /\ pc[c] = "sent"
  /\ IF Of[c].by = "module"
     THEN Finished(c, 401) /\ UNCHANGED <<overlap, disturbed>>
     ELSE /\ Cardinality(InFlight) < PoolSize
          /\ Goto(c, "inventory") /\ UNCHANGED <<answer, plan, event, daily>>
          /\ overlap' =
               overlap \cup With(c, {d \in InFlight : SameFunction(c, d) \/ SameUsage(c, d)})
          /\ disturbed' = disturbed \cup With(c, {d \in InFlight : SameSummary(c, d)})
  /\ UNCHANGED <<tables, keys, summaries, faulted, faults>>

\* DB_POOL_TIMEOUT: the checkout gives up after ten seconds, and the request with it.
PoolTimeout(c) ==
  /\ pc[c] = "sent" /\ Of[c].by # "module" /\ Cardinality(InFlight) + Others >= PoolSize
  /\ Finished(c, 500)
  /\ disturbed' = disturbed \cup {c}
  /\ UNCHANGED <<tables, keys, summaries, overlap, faulted, faults>>

\* .first(): any of the rows, None without one.
First(S) == IF S = {} THEN {None} ELSE S

ReadInventory(c) ==
  /\ pc[c] = "inventory"
  /\ \E r \in First({i \in inventory : i.fn = Of[c].fn /\ i.project = Of[c].project}) :
       plan' = [plan EXCEPT ![c].inv = r]
  /\ Goto(c, "registration")
  /\ UNCHANGED <<answer, event, tables, day, overlap, faulted, faults>>

\* Mutant: the registration is looked up with its project, as the inventory is.
ReadOwnRegistration(c) ==
  /\ pc[c] = "registration"
  /\ \E r \in First({g \in registrations : g.id = c}) : plan' = [plan EXCEPT ![c].reg = r]
  /\ Goto(c, IF Ingests(c) /\ Of[c].model # None THEN "usage" ELSE "flush")
  /\ UNCHANGED <<answer, event, tables, day, overlap, faulted, faults>>

ReadRegistration(c) ==
  /\ pc[c] = "registration"
  /\ \E r \in First({g \in registrations : g.fn = Of[c].fn}) : plan' = [plan EXCEPT ![c].reg = r]
  /\ Goto(c, IF Ingests(c) /\ Of[c].model # None THEN "usage" ELSE "flush")
  /\ UNCHANGED <<answer, event, tables, day, overlap, faulted, faults>>

ReadUsage(c) ==
  /\ pc[c] = "usage"
  /\ \E r \in First({u \in usage : u.project = Of[c].project /\ u.model = Of[c].model}) :
       plan' = [plan EXCEPT ![c].use = r]
  /\ Goto(c, "flush")
  /\ UNCHANGED <<answer, event, tables, day, overlap, faulted, faults>>

\* Whether a unique key keeps c from inserting a row beside one of its function
\* with that project, one of its function and model, one of its function by d.
KeyedInventory(c, project) ==
  "function" \in keys \/ (Of[c].project = project /\ project # None)
KeyedUsage(c) == "no_project" \in keys \/ Of[c].project # None
KeyedRegistration(c, d) == "registration" \in keys /\ Of[c].path = Of[d].path

\* Two flushes that write one row, or insert one unique key, wait for each other.
Waits(c, d) ==
  \/ /\ SameFunction(c, d)
     /\ IF plan[c].reg = None THEN plan[d].reg = None /\ KeyedRegistration(c, d)
        ELSE plan[d].reg # None /\ plan[c].reg.id = plan[d].reg.id
  \/ /\ SameFunction(c, d)
     /\ IF plan[c].inv = None THEN plan[d].inv = None /\ KeyedInventory(c, Of[d].project)
        ELSE plan[d].inv # None /\ plan[d].inv.id = plan[c].inv.id
  \/ /\ SameUsage(c, d)
     /\ IF plan[c].use = None THEN plan[d].use = None /\ KeyedUsage(c)
        ELSE plan[d].use # None /\ plan[d].use.id = plan[c].use.id
Holding(d) == pc[d] \in {"rest", "alerts", "commit"}

\* Mutant: no unique constraint.
NeverClash(c) == FALSE /\ c \in Calls
\* Mutant: a row is inserted although there is one.
InsertAlways(c) ==
  /\ Of[c].project # None
  /\ \E i \in inventory : i.fn = Of[c].fn /\ i.project = Of[c].project
Clash(c) ==
  \/ /\ plan[c].inv = None
     /\ \E i \in inventory : i.fn = Of[c].fn /\ KeyedInventory(c, i.project)
  \/ /\ plan[c].reg = None
     /\ \E g \in registrations : g.fn = Of[c].fn /\ KeyedRegistration(c, g.id)
  \/ /\ Ingests(c) /\ Of[c].model # None /\ plan[c].use = None /\ KeyedUsage(c)
     /\ \E u \in usage : u.project = Of[c].project /\ u.model = Of[c].model

\* "whole": the flush of the event; otherwise that of the commit, with no event.
Flush(c, whole) ==
  /\ pc[c] = "flush" /\ \A d \in Calls \ {c} : Holding(d) => ~Waits(c, d)
  /\ IF Clash(c)
     THEN Goto(c, "poisoned") /\ UNCHANGED event
     ELSE /\ Goto(c, IF whole THEN "rest" ELSE "commit")
          /\ event' = IF whole THEN [event EXCEPT ![c] = "flushed"] ELSE event
  /\ UNCHANGED <<answer, plan, tables, day, overlap>>

FlushIngest(c) == Ingests(c) /\ Flush(c, TRUE) /\ UNCHANGED <<faulted, faults>>
FlushUpsert(c) == ~Ingests(c) /\ Flush(c, FALSE) /\ UNCHANGED <<faulted, faults>>

\* The pipeline raises before its flush: the commit flushes.
FailEarly(c) == Ingests(c) /\ Fault(c) /\ Flush(c, FALSE)

-----------------------------------------------------------------------------
(* The summary row and the second flush *)

ReadSummary(c) ==
  /\ pc[c] = "rest"
  /\ daily' = [daily EXCEPT ![c] = IF SummaryKey(c) \in summaries THEN "row" ELSE "none"]
  /\ Goto(c, "alerts")
  /\ UNCHANGED <<answer, plan, event, tables, keys, summaries, disturbed, overlap, faulted,
                 faults>>

\* The second flush waits for one that writes the row or inserts the key.  In each
\* schema the key of the summary has its project, and NULL is none.
WaitsDaily(c, d) ==
  /\ pc[d] = "commit" /\ SameSummary(c, d)
  /\ \/ daily[c] = "none" /\ daily[d] = "none" /\ Of[c].project # None
     \/ daily[c] = "row" /\ daily[d] = "row"
\* The UPDATE of a row that is gone finds none: StaleDataError.
ClashDaily(c) ==
  \/ daily[c] = "gone"
  \/ daily[c] = "none" /\ Of[c].project # None /\ SummaryKey(c) \in summaries

\* Breakdown, security log, summary, alerts; then the log names its event.
Link(c) ==
  /\ pc[c] = "alerts" /\ \A d \in Calls \ {c} : ~WaitsDaily(c, d)
  /\ IF ClashDaily(c)
     THEN Goto(c, "poisoned") /\ UNCHANGED event
     ELSE Goto(c, "commit") /\ event' = [event EXCEPT ![c] = "linked"]
  /\ UNCHANGED <<answer, plan, tables, day, overlap, faulted, faults>>

\* An exception of the code after the flush of the event, which leaves the summary
\* to the flush of the commit; or of the database.
FailLate(c) ==
  /\ pc[c] \in {"rest", "alerts"} /\ Fault(c)
  /\ \/ /\ ~ClashDaily(c) /\ \A d \in Calls \ {c} : ~WaitsDaily(c, d)
        /\ Goto(c, "commit")
     \/ Goto(c, "poisoned")
  /\ UNCHANGED <<answer, plan, event, tables, day, overlap>>

\* The hourly job deletes the day's rows and inserts those of the events there are.
Rebuild ==
  /\ events # {}
  /\ \A c \in Calls : pc[c] = "commit" => daily[c] = "unread"
  /\ summaries' = {SummaryKey(c) : c \in events}
  /\ daily' = [c \in Calls |-> IF daily[c] = "row" THEN "gone" ELSE daily[c]]
  /\ disturbed' = disturbed \cup {c \in Calls : daily[c] # "unread"}
  /\ UNCHANGED <<pc, answer, plan, event, tables, keys, overlap, faulted, faults>>

-----------------------------------------------------------------------------
One(c, s) == IF Of[c].status = s THEN 1 ELSE 0
Written(S, seen, new, Updated(_)) ==
  IF seen = None THEN S \cup {new}
  ELSE {IF r.id = seen.id THEN Updated(r) ELSE r : r \in S}

\* Mutant: the counter is incremented in the row as well as in the plan.
CountedTwice(c) ==
  Written(inventory, plan[c].inv,
          [id |-> c, project |-> Of[c].project, fn |-> Of[c].fn, total |-> 1,
           ok |-> One(c, "success"), err |-> One(c, "error")],
          LAMBDA r : [r EXCEPT !.total = @ + plan[c].inv.total + 1])

\* The UPDATE sets the columns that changed, to values computed from the read.
CountedInventory(c) ==
  Written(inventory, plan[c].inv,
          [id |-> c, project |-> Of[c].project, fn |-> Of[c].fn, total |-> 1,
           ok |-> One(c, "success"), err |-> One(c, "error")],
          LAMBDA r : [r EXCEPT !.total = plan[c].inv.total + 1,
                               !.ok = IF Of[c].status = "success" THEN plan[c].inv.ok + 1 ELSE @,
                               !.err = IF Of[c].status = "error" THEN plan[c].inv.err + 1 ELSE @])
CountedRegistration(c) ==
  Written(registrations, plan[c].reg, [id |-> c, fn |-> Of[c].fn, count |-> 1],
          LAMBDA r : [r EXCEPT !.count = plan[c].reg.count + 1])
CountedUsage(c) ==
  IF ~Ingests(c) \/ Of[c].model = None THEN usage
  ELSE Written(usage, plan[c].use,
               [id |-> c, project |-> Of[c].project, model |-> Of[c].model, count |-> 1],
               LAMBDA r : [r EXCEPT !.count = plan[c].use.count + 1])

\* Mutant: the log is written when its event is linked only.
CommitLinked(c) ==
  /\ pc[c] = "commit"
  /\ inventory' = CountedInventory(c) /\ registrations' = CountedRegistration(c)
  /\ usage' = CountedUsage(c)
  /\ logs' = IF event[c] = "linked" THEN logs \cup {[call |-> c, linked |-> TRUE]} ELSE logs
  /\ events' = IF event[c] = "none" THEN events ELSE events \cup {c}
  /\ summaries' = IF daily[c] = "none" THEN summaries \cup {SummaryKey(c)} ELSE summaries
  /\ Finished(c, 200) /\ disturbed' = disturbed \ {c}
  /\ UNCHANGED <<keys, overlap, faulted, faults>>

Commit(c) ==
  /\ pc[c] = "commit"
  /\ inventory' = CountedInventory(c) /\ registrations' = CountedRegistration(c)
  /\ usage' = CountedUsage(c)
  /\ logs' = IF Ingests(c) THEN logs \cup {[call |-> c, linked |-> event[c] = "linked"]} ELSE logs
  /\ events' = IF event[c] = "none" THEN events ELSE events \cup {c}
  /\ summaries' = IF daily[c] = "none" THEN summaries \cup {SummaryKey(c)} ELSE summaries
  /\ Finished(c, 200) /\ disturbed' = disturbed \ {c}
  /\ UNCHANGED <<keys, overlap, faulted, faults>>

\* Mutant: the poisoned session is left open.
NeverRaise(c) == FALSE /\ UNCHANGED vars
\* The commit of a poisoned session raises; get_db rolls back.
Raise(c) ==
  /\ pc[c] = "poisoned"
  /\ Finished(c, 500)
  /\ UNCHANGED <<tables, keys, summaries, disturbed, overlap, faulted, faults>>

\* The service stops and starts: what is in flight is rolled back, unanswered.
Restart ==
  /\ InFlight # {} /\ faults < MaxFaults
  /\ faults' = faults + 1 /\ faulted' = faulted \cup InFlight
  /\ pc' = [c \in Calls |-> IF c \in InFlight THEN "done" ELSE pc[c]]
  /\ plan' = [c \in Calls |-> IF c \in InFlight THEN NoPlan ELSE plan[c]]
  /\ event' = [c \in Calls |-> IF c \in InFlight THEN "none" ELSE event[c]]
  /\ daily' = [c \in Calls |-> IF c \in InFlight THEN "unread" ELSE daily[c]]
  /\ UNCHANGED <<answer, tables, keys, summaries, disturbed, overlap>>

Serve(c) ==
  \/ Receive(c) \/ PoolTimeout(c)
  \/ ReadInventory(c) \/ ReadRegistration(c) \/ ReadUsage(c)
  \/ FlushIngest(c) \/ FlushUpsert(c) \/ ReadSummary(c) \/ Link(c) \/ Commit(c) \/ Raise(c)

Next ==
  \/ \E c \in Calls : Lose(c) \/ Serve(c) \/ FailEarly(c) \/ FailLate(c)
  \/ Restart \/ Rebuild

Spec == Init /\ [][Next]_vars

\* A request the service has received is served; PostgreSQL grants a lock that is free.
FairSpec == Spec /\ \A c \in Calls : WF_vars(Serve(c))

-----------------------------------------------------------------------------
(* The pages *)

ListRegistrations(fn) == {g \in registrations : g.fn = fn}
ListInventory(project, fn) == {i \in inventory : i.project = project /\ i.fn = fn}
ListProjectModelUsage(project, model) ==
  {u \in usage : u.project = project /\ u.model = model}
\* The log knows its project by its event only.
ListRequestResponseLogs(project) ==
  {l \in logs : l.linked /\ l.call \in events /\ Of[l.call].project = project}
DecoratorStats ==
  [functions |-> Cardinality(registrations), inventory |-> Cardinality(inventory),
   usage |-> Cardinality(usage), audit |-> Cardinality(logs)]

-----------------------------------------------------------------------------
(* Properties *)

TypeOK ==
  /\ \A c \in Calls : answer[c] \in {None, 200, 401, 500} /\ (answer[c] # None => pc[c] = "done")
  /\ \A i \in inventory : i.id \in Calls /\ i.total \in 1..Cardinality(Calls)
  /\ \A g \in registrations : g.id \in Calls /\ g.count \in 1..Cardinality(Calls)
  /\ \A i, j \in inventory : i.id = j.id => i = j
  /\ \A i, j \in inventory : i.project = j.project /\ i.fn = j.fn /\ i.project # None => i = j
  /\ keys \in Schemas /\ \A c \in Calls : daily[c] \in {"unread", "none", "row", "gone"}
  /\ Cardinality(InFlight) <= PoolSize /\ faults \in 0..MaxFaults

Stored == {c \in Calls : answer[c] = 200}
SumOf(f) == MapThenSumSet(LAMBDA x : f[x], DOMAIN f)

\* The counters of a function never run ahead of its stored calls, whatever
\* requests overlap; and when none of its calls overlapped another they are
\* exact, in the inventory, the registration and the usage of its model.
CountersFollowCalls ==
  \A c \in Calls :
    LET of == {d \in Stored : SameInventory(c, d)}
        used == {d \in Stored : SameUsage(c, d)}
        items == ListInventory(Of[c].project, Of[c].fn)
        total == SumOf([i \in items |-> i.total])
        ok == SumOf([i \in items |-> i.ok])
        err == SumOf([i \in items |-> i.err])
        count == SumOf([g \in ListRegistrations(Of[c].fn) |-> g.count])
        calls == SumOf([u \in ListProjectModelUsage(Of[c].project, Of[c].model) |-> u.count])
    IN  /\ total <= Cardinality(of) /\ ok + err <= Cardinality(of)
        /\ count <= Cardinality({d \in Stored : SameFunction(c, d)})
        /\ Of[c].model # None => calls <= Cardinality(used)
        /\ {d \in Calls : SameFunction(c, d) \/ SameUsage(c, d)} \cap overlap = {} =>
             /\ total = Cardinality(of) /\ ok + err = total
             /\ count = Cardinality({d \in Stored : SameFunction(c, d)})
             /\ Ingests(c) /\ Of[c].model # None => calls = Cardinality(used)

\* A call is answered 200 exactly when it is in the tables, all of them: its
\* log, unless it is an upsert, and its counters; one that is not has left no
\* row.  Its event has its log, and without a fault the log is listed with the
\* project of the call.
AuditTrail ==
  /\ \A c \in Calls : Ingests(c) => (c \in Stored <=> \E l \in logs : l.call = c)
  /\ \A r \in inventory \cup registrations \cup usage : r.id \in Stored
  /\ events \subseteq {l.call : l \in logs}
  /\ {l.call : l \in {k \in logs : k.linked}} \subseteq events
  /\ \A c \in Stored : Ingests(c) /\ c \notin faulted =>
       \E l \in ListRequestResponseLogs(Of[c].project) : l.call = c
  /\ DecoratorStats.audit = Cardinality({c \in Stored : Ingests(c)})

\* Where the tables were created by the service nothing keeps the registration of
\* a function unique, but only requests that overlap its first can add one beside
\* it: never more than the pool lets in.  Where an SQL file created them no two are
\* of one function and module.
RegistrationsBounded ==
  \A c \in Calls :
    LET rows == ListRegistrations(Of[c].fn)
    IN  /\ Cardinality(rows) <= PoolSize
        /\ "registration" \in keys =>
             \A g, h \in rows : Of[g.id].path = Of[h.id].path => g = h

\* Functions that other projects call too have one inventory row in the schemas
\* that key it without the project, and belong to the project that called first.
Foreign(c) ==
  /\ "function" \in keys
  /\ \E d \in Stored : SameFunction(c, d) /\ Of[d].project # Of[c].project

\* What reaches the service with a key is refused only if the database failed it,
\* if it overlapped another call of its function or model, if it met a full pool,
\* or a call or rebuild of its summary row, or if its function belongs to another
\* project.
RefusedOnlyOnOverlap ==
  \A c \in Calls : answer[c] = 500 => c \in overlap \cup disturbed \cup faulted \/ Foreign(c)

\* No request waits for ever for the rows of others, or for a connection: there comes
\* a time when all that were sent are served, refused or lost.
SentIsServed == <>(\A c \in Calls : pc[c] = "done")

-----------------------------------------------------------------------------
(* Properties the code does not have *)

\* backend/decorator/router.py:656: never let governance pipeline failure break
\* decorator ingest.
PipelineFailureIsHarmless == \A c \in Calls : event[c] = "flushed" => pc[c] # "poisoned"
=============================================================================
