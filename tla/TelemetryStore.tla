--------------------------- MODULE TelemetryStore ---------------------------
(***************************************************************************)
(* Telemetry ingestion and the daily aggregation job over one PostgreSQL   *)
(* database (app/routers/telemetry.py, app/workers/tasks.py).              *)
(*                                                                         *)
(* A request is one POST of a single event or of a batch.  It runs in one  *)
(* session (autoflush off) and one READ COMMITTED transaction: for each    *)
(* event it selects the event id, flushes the event row, reads the daily   *)
(* summary row of the event's key and adds to it in memory, flushes again, *)
(* and commits at the end of the batch.  A rebuild of the daily summary    *)
(* selects the counts, deletes the day's rows, inserts the new ones and    *)
(* commits; the scheduler runs it, and so does an operator's endpoint.     *)
(* Only total_events of a summary row is kept: every other column is       *)
(* accumulated in the same statement.                                      *)
(*                                                                         *)
(* Each database statement is one action.  Row locks, unique indexes and   *)
(* what a waiting statement sees when it resumes are PostgreSQL's.         *)
(* Projects are set (a NULL project escapes the unique constraint of the   *)
(* summary and is left out here).                                          *)
(***************************************************************************)
EXTENDS Integers, Sequences, FiniteSets, Functions

CONSTANTS
  Requests, EventIds, Keys,  \* a key is (org, project, tool, date)
  Rebuilders,                \* sessions that may run the rebuild
  Items,                     \* request -> the event ids it carries, in order
  UpsertKey,                 \* event -> key of its tool and completed_at date
  AggKey,                    \* event -> key of its tool and created_at date
  Rebuilt,                   \* the keys of the date the rebuild is run for
  NoOne,
  MaxFaults                  \* bound on spontaneous statement failures

Procs == Requests \cup Rebuilders

ASSUME StoreAssumption ==
  /\ IsFiniteSet(EventIds) /\ IsFiniteSet(Keys)
  /\ Requests \cap Rebuilders = {} /\ NoOne \notin Procs
  /\ Items \in [Requests -> Seq(EventIds)]
  /\ UpsertKey \in [EventIds -> Keys] /\ AggKey \in [EventIds -> Keys]
  /\ Rebuilt \subseteq Keys
  /\ MaxFaults \in Nat

VARIABLES
  stored,       \* committed telemetry_events rows
  summary,      \* committed daily_org_summary rows: key -> total_events, 0 = no row
  lock,         \* key -> the transaction with an uncommitted write of its row
  pc, pos,      \* request -> next statement, and the event it is at
  uncommitted,  \* request -> event ids it has flushed
  mem,          \* request -> key -> total_events of the row object in its session
  fresh,        \* request -> keys whose row object is to be inserted, not updated
  gone,         \* request -> keys whose loaded row a rebuild has deleted since
  job,          \* rebuilder -> next statement
  agg,          \* rebuilder -> the counts it selected
  target, deleted, inserted, \* rebuilder -> keys its DELETE will visit, and its writes
  faults,
  posted        \* history: key -> event rows ever committed under it

requestVars == <<pc, pos, uncommitted, mem, fresh, gone>>
jobVars == <<job, agg, target, deleted, inserted>>
vars == <<stored, summary, lock, requestVars, jobVars, faults, posted>>

StoredIds == {row.event_id : row \in stored}
NoCounts == [k \in Keys |-> 0]
Item(r) == Items[r][pos[r]]
Key(r) == UpsertKey[Item(r)]

Phases == {"select", "flush_event", "upsert", "flush", "commit"}
Answers == {"created", "conflict", "error"}   \* 200, 409, 500
Active(r) == pc[r] \in Phases

Init ==
  /\ stored = {} /\ summary = NoCounts /\ lock = [k \in Keys |-> NoOne]
  /\ pc = [r \in Requests |-> IF Items[r] = <<>> THEN "commit" ELSE "select"]
  /\ pos = [r \in Requests |-> 1]
  /\ uncommitted = [r \in Requests |-> {}]
  /\ mem = [r \in Requests |-> NoCounts]
  /\ fresh = [r \in Requests |-> {}] /\ gone = [r \in Requests |-> {}]
  /\ job = [w \in Rebuilders |-> "idle"]
  /\ agg = [w \in Rebuilders |-> NoCounts]
  /\ target = [w \in Rebuilders |-> {}]
  /\ deleted = [w \in Rebuilders |-> {}] /\ inserted = [w \in Rebuilders |-> {}]
  /\ faults = 0 /\ posted = NoCounts

-----------------------------------------------------------------------------
(* The ingest transaction *)

Goto(r, phase) == pc' = [pc EXCEPT ![r] = phase]
ReleaseLocks(p) == lock' = [k \in Keys |-> IF lock[k] = p THEN NoOne ELSE lock[k]]

CloseSession(r, answer) ==
  /\ Goto(r, answer)
  /\ uncommitted' = [uncommitted EXCEPT ![r] = {}]
  /\ mem' = [mem EXCEPT ![r] = NoCounts]
  /\ fresh' = [fresh EXCEPT ![r] = {}]
  /\ gone' = [gone EXCEPT ![r] = {}]
  /\ ReleaseLocks(r)

\* Mutant: get_db without the rollback, the session stays open.
LeakSession(r, answer) ==
  /\ Goto(r, answer)
  /\ UNCHANGED <<stored, summary, lock, pos, uncommitted, mem, fresh, gone, jobVars,
                 posted>>

\* Mutant: the batch keeps what was flushed when a later event is refused.
KeepFlushed(r, answer) ==
  /\ stored' = stored \cup {[event_id |-> e, by |-> r] : e \in uncommitted[r]}
  /\ CloseSession(r, answer)
  /\ UNCHANGED <<summary, pos, jobVars, posted>>

\* get_db: an exception rolls the whole transaction back, batch included.
RollbackRequest(r, answer) ==
  /\ CloseSession(r, answer)
  /\ UNCHANGED <<stored, summary, pos, jobVars, posted>>

\* The session sees committed rows and its own.
SelectExisting(r) ==
  /\ pc[r] = "select"
  /\ UNCHANGED faults
  /\ \/ /\ Item(r) \in StoredIds \cup uncommitted[r]
        /\ RollbackRequest(r, "conflict")
     \/ /\ Item(r) \notin StoredIds \cup uncommitted[r]
        /\ Goto(r, "flush_event")
        /\ UNCHANGED <<stored, summary, lock, pos, uncommitted, mem, fresh, gone,
                       jobVars, posted>>

\* The unique index on event_id: an INSERT waits for a transaction that has
\* the same id uncommitted, then fails if the id is committed.
IdHolders(r) == {q \in Requests \ {r} : Item(r) \in uncommitted[q]}

\* Mutant: no unique constraint on event_id, only the SELECT.
NeverTaken(r) == FALSE
IdTaken(r) == Item(r) \in StoredIds
FlushEvent(r) ==
  /\ pc[r] = "flush_event"
  /\ IdHolders(r) = {}
  /\ UNCHANGED faults
  /\ \/ IdTaken(r) /\ RollbackRequest(r, "error")
     \/ /\ ~IdTaken(r)
        /\ uncommitted' = [uncommitted EXCEPT ![r] = @ \cup {Item(r)}]
        /\ Goto(r, "upsert")
        /\ UNCHANGED <<stored, summary, lock, pos, mem, fresh, gone, jobVars, posted>>

\* _upsert_daily_summary: the row already in the session is used as it is;
\* else the committed row is loaded; else a new object is added.
UpsertDailySummary(r) ==
  /\ pc[r] = "upsert"
  /\ LET k == Key(r)
         before == IF mem[r][k] > 0 THEN mem[r][k] ELSE summary[k]
     IN  /\ mem' = [mem EXCEPT ![r][k] = before + 1]
         /\ fresh' = IF before = 0 THEN [fresh EXCEPT ![r] = @ \cup {k}] ELSE fresh
  /\ Goto(r, "flush")
  /\ UNCHANGED <<stored, summary, lock, pos, uncommitted, gone, jobVars, faults, posted>>

\* The flush in AlertEngine.evaluate writes the summary object.  UPDATE sets the
\* total computed in memory; it finds no row (StaleDataError) when a rebuild has
\* deleted the loaded one, and INSERT fails when the key has a row by now.
RowLost(r) ==
  \/ Key(r) \in gone[r]
  \/ Key(r) \in fresh[r] /\ lock[Key(r)] # r /\ summary[Key(r)] > 0

FlushSession(r) ==
  /\ pc[r] = "flush"
  /\ lock[Key(r)] \in {NoOne, r}
  /\ UNCHANGED faults
  /\ \/ RowLost(r) /\ RollbackRequest(r, "error")
     \/ /\ ~RowLost(r)
        /\ lock' = [lock EXCEPT ![Key(r)] = r]
        /\ pos' = [pos EXCEPT ![r] = @ + 1]
        /\ Goto(r, IF pos[r] = Len(Items[r]) THEN "commit" ELSE "select")
        /\ UNCHANGED <<stored, summary, uncommitted, mem, fresh, gone, jobVars, posted>>

FlushedAt(r, k) == {e \in uncommitted[r] : UpsertKey[e] = k}

CommitRequest(r) ==
  /\ pc[r] = "commit"
  /\ stored' = stored \cup {[event_id |-> e, by |-> r] : e \in uncommitted[r]}
  /\ summary' = [k \in Keys |-> IF lock[k] = r THEN mem[r][k] ELSE summary[k]]
  /\ posted' = [k \in Keys |-> posted[k] + Cardinality(FlushedAt(r, k))]
  /\ CloseSession(r, "created")
  /\ UNCHANGED <<pos, jobVars, faults>>

\* A lost connection, a statement timeout, any exception in the handler.
FailRequest(r) ==
  /\ Active(r) /\ faults < MaxFaults
  /\ faults' = faults + 1
  /\ RollbackRequest(r, "error")

\* Mutant: deleting an event also takes it out of the summary.
DeleteAndDecrement(e) ==
  /\ e \in StoredIds
  /\ stored' = {row \in stored : row.event_id # e}
  /\ summary' = [summary EXCEPT ![UpsertKey[e]] = @ - 1]
  /\ UNCHANGED <<lock, requestVars, jobVars, faults, posted>>

\* delete_event removes the event and its child rows; the summary stays.
DeleteEvent(e) ==
  /\ e \in StoredIds
  /\ stored' = {row \in stored : row.event_id # e}
  /\ UNCHANGED <<summary, lock, requestVars, jobVars, faults, posted>>
-----------------------------------------------------------------------------
(* The rebuild transaction *)

Count(k) == Cardinality({e \in StoredIds : AggKey[e] = k})

EndJob(w) ==
  /\ job' = [job EXCEPT ![w] = "idle"]
  /\ agg' = [agg EXCEPT ![w] = NoCounts]
  /\ deleted' = [deleted EXCEPT ![w] = {}]
  /\ inserted' = [inserted EXCEPT ![w] = {}]
  /\ ReleaseLocks(w)

RollbackJob(w) ==
  /\ EndJob(w)
  /\ target' = [target EXCEPT ![w] = {}]
  /\ UNCHANGED <<stored, summary, requestVars, posted>>

AggregateEvents(w) ==
  /\ job[w] = "idle"
  /\ job' = [job EXCEPT ![w] = "aggregated"]
  /\ agg' = [agg EXCEPT ![w] = [k \in Keys |-> IF k \in Rebuilt THEN Count(k) ELSE 0]]
  /\ UNCHANGED <<stored, summary, lock, requestVars, target, deleted, inserted,
                 faults, posted>>

\* Mutant: the DELETE is filtered on another date.
DeleteNothing(w) ==
  /\ job[w] = "aggregated"
  /\ job' = [job EXCEPT ![w] = "delete"]
  /\ UNCHANGED <<stored, summary, lock, requestVars, agg, target, deleted, inserted,
                 faults, posted>>

\* The DELETE's snapshot: rows committed when it starts.  It waits for a
\* locked row, deletes its newest version, and skips a row deleted meanwhile.
StartDelete(w) ==
  /\ job[w] = "aggregated"
  /\ job' = [job EXCEPT ![w] = "delete"]
  /\ target' = [target EXCEPT ![w] = {k \in Rebuilt : summary[k] > 0}]
  /\ UNCHANGED <<stored, summary, lock, requestVars, agg, deleted, inserted,
                 faults, posted>>

DeleteRow(w) ==
  /\ job[w] = "delete"
  /\ UNCHANGED <<stored, summary, requestVars, agg, inserted, faults, posted>>
  /\ \/ \E k \in target[w] :
          /\ lock[k] = NoOne
          /\ lock' = [lock EXCEPT ![k] = w]
          /\ target' = [target EXCEPT ![w] = @ \ {k}]
          /\ deleted' = [deleted EXCEPT ![w] = @ \cup {k}]
          /\ UNCHANGED job
     \/ /\ target[w] = {}
        /\ job' = [job EXCEPT ![w] = "insert"]
        /\ UNCHANGED <<lock, target, deleted>>

ToInsert(w) == {k \in Keys : agg[w][k] > 0} \ inserted[w]
Occupied(w, k) == summary[k] > 0 /\ k \notin deleted[w]

InsertRow(w) ==
  /\ job[w] = "insert"
  /\ \E k \in ToInsert(w) :
       /\ lock[k] \in {NoOne, w}
       /\ \/ Occupied(w, k) /\ RollbackJob(w)
          \/ /\ ~Occupied(w, k)
             /\ lock' = [lock EXCEPT ![k] = w]
             /\ inserted' = [inserted EXCEPT ![w] = @ \cup {k}]
             /\ UNCHANGED <<stored, summary, requestVars, job, agg, target, deleted,
                            posted>>
  /\ UNCHANGED faults

\* Mutant: the job adds the counts to the rows instead of replacing them.
AccumulatedTotal(w, k) == summary[k] + agg[w][k]
RebuiltTotal(w, k) ==
  IF k \in inserted[w] THEN agg[w][k] ELSE IF k \in deleted[w] THEN 0 ELSE summary[k]

CommitRebuild(w) ==
  /\ job[w] = "insert" /\ ToInsert(w) = {}
  /\ summary' = [k \in Keys |-> RebuiltTotal(w, k)]
  /\ gone' = [r \in Requests |->
                gone[r] \cup {k \in deleted[w] \ fresh[r] : mem[r][k] > 0}]
  /\ target' = [x \in Rebuilders |-> target[x] \ deleted[w]]
  /\ EndJob(w)
  /\ UNCHANGED <<stored, pc, pos, uncommitted, mem, fresh, faults, posted>>

FailJob(w) ==
  /\ job[w] # "idle" /\ faults < MaxFaults
  /\ faults' = faults + 1
  /\ RollbackJob(w)

-----------------------------------------------------------------------------
(* PostgreSQL's deadlock detector *)

Holders(S) == {lock[k] : k \in S}

WaitsFor(p) ==
  IF p \in Requests
  THEN IF pc[p] = "flush_event" THEN IdHolders(p)
       ELSE IF pc[p] = "flush" THEN Holders({Key(p)}) \ {NoOne, p} ELSE {}
  ELSE LET S == IF job[p] = "delete" THEN target[p]
                ELSE IF job[p] = "insert" THEN ToInsert(p) ELSE {}
       IN  IF Holders(S) \cap {NoOne, p} = {} THEN Holders(S) ELSE {}

\* The processes that p waits for, whoever they wait for, and so on.
Blocking(p) ==
  {x \in Procs : \A C \in SUBSET Procs :
     WaitsFor(p) \subseteq C /\ (\A q \in C : WaitsFor(q) \subseteq C) => x \in C}

\* p is part of a cycle of waits, and nobody it waits for can go on.
Deadlocked(p) == p \in Blocking(p) /\ \A q \in Blocking(p) : WaitsFor(q) # {}

BreakDeadlock ==
  /\ UNCHANGED faults
  /\ \/ \E r \in Requests : Deadlocked(r) /\ RollbackRequest(r, "error")
     \/ \E w \in Rebuilders : Deadlocked(w) /\ RollbackJob(w)

-----------------------------------------------------------------------------
Serve(r) ==
  \/ SelectExisting(r) \/ FlushEvent(r) \/ UpsertDailySummary(r)
  \/ FlushSession(r) \/ CommitRequest(r)

RunJob(w) == StartDelete(w) \/ DeleteRow(w) \/ InsertRow(w) \/ CommitRebuild(w)

Next ==
  \/ \E r \in Requests : Serve(r) \/ FailRequest(r)
  \/ \E e \in EventIds : DeleteEvent(e)
  \/ \E w \in Rebuilders : AggregateEvents(w) \/ RunJob(w) \/ FailJob(w)
  \/ BreakDeadlock

Spec == Init /\ [][Next]_vars

\* Worker threads run, PostgreSQL grants row locks in FIFO order, and the
\* scheduler starts the rebuild every hour.
Fairness ==
  /\ \A r \in Requests : WF_vars(Serve(r)) /\ SF_vars(FlushEvent(r) \/ FlushSession(r))
  /\ \A w \in Rebuilders :
       /\ WF_vars(AggregateEvents(w))
       /\ WF_vars(RunJob(w)) /\ SF_vars(DeleteRow(w) \/ InsertRow(w))
  /\ WF_vars(BreakDeadlock)

FairSpec == Spec /\ Fairness

-----------------------------------------------------------------------------
(* Properties *)

\* Every variable keeps its type; in particular a summary total, in the table,
\* in a session or in a rebuild's result, is never negative.
TypeOK ==
  /\ stored \subseteq [event_id : EventIds, by : Requests]
  /\ summary \in [Keys -> Nat] /\ posted \in [Keys -> Nat]
  /\ lock \in [Keys -> Procs \cup {NoOne}]
  /\ pc \in [Requests -> Phases \cup Answers]
  /\ pos \in [Requests -> Nat \ {0}]
  /\ \A r \in Requests : Active(r) => pos[r] <= Len(Items[r]) + 1
  /\ uncommitted \in [Requests -> SUBSET EventIds]
  /\ mem \in [Requests -> [Keys -> Nat]]
  /\ fresh \in [Requests -> SUBSET Keys] /\ gone \in [Requests -> SUBSET Keys]
  /\ job \in [Rebuilders -> {"idle", "aggregated", "delete", "insert"}]
  /\ agg \in [Rebuilders -> [Keys -> Nat]]
  /\ target \in [Rebuilders -> SUBSET Keys]
  /\ deleted \in [Rebuilders -> SUBSET Keys] /\ inserted \in [Rebuilders -> SUBSET Keys]
  /\ faults \in 0..MaxFaults

\* An event id is stored at most once, whatever requests carrying it overlap:
\* the SELECT in _ingest_event alone would let two of them through.
OneRowPerEvent ==
  \A a, b \in stored : a.event_id = b.event_id => a = b

\* The daily summary never counts more events than were ever committed under
\* the key, through lost rows, reloaded rows and overlapping rebuilds; budgets
\* are charged from it.
NeverOvercounts == \A k \in Keys : summary[k] <= posted[k]

\* Ingestion is atomic per request and exact on ids: the abstract log.
Outcome == [r \in Requests |-> IF Active(r) THEN "open"
                               ELSE IF pc[r] = "created" THEN "accepted" ELSE "rejected"]
Log == INSTANCE EventLog WITH log <- StoredIds, outcome <- Outcome
ImplementsEventLog == Log!Spec

\* Every request is answered: row locks and the waits on the unique index
\* never hold one up for ever.
EveryRequestAnswered == \A r \in Requests : <>~Active(r)

\* Counts that concurrent requests, deletions and overlapping rebuilds have
\* corrupted are repaired: once ingestion is quiet, the hourly rebuild makes the
\* summary of the day agree with the stored events, and it stays so.
Exact == \A k \in Rebuilt : summary[k] = Count(k)
RebuildConverges == <>[]Exact
=============================================================================
