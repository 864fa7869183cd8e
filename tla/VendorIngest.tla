---------------------------- MODULE VendorIngest ----------------------------
(***************************************************************************)
(* The loops that put a list of events through one session:                *)
(*   "control"    control_ingest_batch (app/routers/control.py),           *)
(*   "vendor"     IngestionNormalizer.ingest_payload, for webhooks, file   *)
(*                uploads and vendor pulls,                                *)
(*   "connector"  _run_connector_poll and trigger_connector_sync.          *)
(* Each swallows the exception of an item and goes on with the next.  The  *)
(* first two roll the session back, and so everything the list has flushed *)
(* so far; the third does not roll back, so that a failed flush leaves the *)
(* session unusable.                                                       *)
(*                                                                         *)
(* A source sends the same list again and again, as polls and client       *)
(* retries do.  What _ingest_event does for one event is reduced here to   *)
(* its SELECT and its INSERT (TelemetryStore has the rest).  A connector   *)
(* poll is for one connector.                                              *)
(***************************************************************************)
EXTENDS Integers, Sequences, FiniteSets, SequencesExt

CONSTANTS
  Sources, EventIds,
  Via,          \* source -> "control", "vendor" or "connector"
  Items,        \* source -> the event ids it sends, in order
  MaxFaults

ASSUME SourceAssumption ==
  /\ Via \in [Sources -> {"control", "vendor", "connector"}]
  /\ Items \in [Sources -> Seq(EventIds)]
  /\ MaxFaults \in Nat

VARIABLES
  stored,       \* committed events: [event_id, by]
  pc, pos,
  own,          \* source -> ids its session has flushed since the last rollback
  failed,       \* source -> a flush has failed and the session was not rolled back
  results,      \* source -> what it reports of each item so far
  sync,         \* source -> last_sync_status of its connector
  faults

vars == <<stored, pc, pos, own, failed, results, sync, faults>>

StoredIds == {row.event_id : row \in stored}
Item(s) == Items[s][pos[s]]
Counted(s) == Cardinality({i \in DOMAIN results[s] : results[s][i] = "ingested"})

Init ==
  /\ stored = {} /\ faults = 0
  /\ pc = [s \in Sources |-> "idle"] /\ pos = [s \in Sources |-> 1]
  /\ own = [s \in Sources |-> {}] /\ failed = [s \in Sources |-> FALSE]
  /\ results = [s \in Sources |-> <<>>]
  /\ sync = [s \in Sources |-> "never"]

Goto(s, step) == pc' = [pc EXCEPT ![s] = step]

\* The list arrives; a pull may also fail, and then there is nothing to ingest.
Start(s) ==
  /\ pc[s] \in {"idle", "answered", "raised"}
  /\ pos' = [pos EXCEPT ![s] = 1]
  /\ own' = [own EXCEPT ![s] = {}] /\ failed' = [failed EXCEPT ![s] = FALSE]
  /\ results' = [results EXCEPT ![s] = <<>>]
  /\ Goto(s, IF Items[s] = <<>> THEN "finish" ELSE "select")
  /\ UNCHANGED <<stored, sync, faults>>

FailPull(s) ==
  /\ Via[s] # "control" /\ pc[s] \in {"idle", "answered", "raised"} /\ faults < MaxFaults
  /\ faults' = faults + 1
  /\ sync' = IF Via[s] = "connector" THEN [sync EXCEPT ![s] = "error"] ELSE sync
  /\ UNCHANGED <<stored, pc, pos, own, failed, results>>

NextItem(s, result) ==
  /\ results' = [results EXCEPT ![s] = Append(@, result)]
  /\ pos' = [pos EXCEPT ![s] = @ + 1]
  /\ Goto(s, IF pos[s] = Len(Items[s]) THEN "finish" ELSE "select")

\* except ...: db.rollback()
Refuse(s) ==
  /\ own' = [own EXCEPT ![s] = {}]
  /\ NextItem(s, "error")
  /\ UNCHANGED failed

\* Mutant: the poll leaves it to the unique index to refuse a duplicate.
InsertDuplicate(s) ==
  /\ own' = [own EXCEPT ![s] = {}]
  /\ failed' = [failed EXCEPT ![s] = TRUE]
  /\ NextItem(s, "error")
SkipDuplicate(s) == NextItem(s, "skipped") /\ UNCHANGED <<own, failed>>

SelectExisting(s) ==
  /\ pc[s] = "select"
  /\ UNCHANGED <<stored, sync, faults>>
  /\ \/ failed[s] /\ NextItem(s, "error") /\ UNCHANGED <<own, failed>>
     \/ /\ ~failed[s] /\ Item(s) \in StoredIds \cup own[s]
        /\ IF Via[s] = "connector" THEN SkipDuplicate(s) ELSE Refuse(s)
     \/ /\ ~failed[s] /\ Item(s) \notin StoredIds \cup own[s]
        /\ Goto(s, "insert")
        /\ UNCHANGED <<pos, own, failed, results>>

Holders(s) == {q \in Sources \ {s} : Item(s) \in own[q]}

\* A flush that fails has rolled the transaction back in the database.
FailInsert(s) ==
  IF Via[s] = "connector"
  THEN /\ own' = [own EXCEPT ![s] = {}]
       /\ failed' = [failed EXCEPT ![s] = TRUE]
       /\ NextItem(s, "error")
  ELSE Refuse(s)

\* Mutant: the index does not refuse an id committed since the SELECT.
NeverTaken(s) == FALSE
IdTaken(s) == Item(s) \in StoredIds

\* The connector loop calls CostEngine.calculate with its arguments swapped: it
\* raises after the flush, the exception is swallowed and the event not counted.
FlushEvent(s) ==
  /\ pc[s] = "insert" /\ Holders(s) = {}
  /\ UNCHANGED <<stored, sync, faults>>
  /\ \/ IdTaken(s) /\ FailInsert(s)
     \/ /\ ~IdTaken(s)
        /\ own' = [own EXCEPT ![s] = @ \cup {Item(s)}]
        /\ NextItem(s, IF Via[s] = "connector" THEN "error" ELSE "ingested")
        /\ UNCHANGED failed

\* An exception before the event is flushed: a malformed record, a rate that
\* cannot be read; or an item whose cost overflows its column at the flush.
FailItem(s) ==
  /\ pc[s] = "insert" /\ faults < MaxFaults
  /\ faults' = faults + 1
  /\ \/ Via[s] = "connector" /\ NextItem(s, "error") /\ UNCHANGED <<own, failed>>
     \/ FailInsert(s)
  /\ UNCHANGED <<stored, sync>>

\* Mutant: the batch is not committed at its end.
KeepStored(s) == stored
NewStored(s) == stored \cup {[event_id |-> e, by |-> s] : e \in own[s]}

\* The control endpoint commits always, the normalizer when it counted
\* something; the poll reads its connector first, which a failed session cannot.
Finish(s) ==
  /\ pc[s] = "finish"
  /\ IF failed[s]
     THEN UNCHANGED <<stored, sync>> /\ Goto(s, "raised")
     ELSE /\ stored' = NewStored(s)
          /\ sync' = IF Via[s] = "connector"
                     THEN [sync EXCEPT ![s] = IF Counted(s) > 0 THEN "success" ELSE "no_data"]
                     ELSE sync
          /\ Goto(s, "answered")
  /\ own' = [own EXCEPT ![s] = {}]
  /\ UNCHANGED <<pos, failed, results, faults>>

WaitsFor(s) == IF pc[s] = "insert" THEN Holders(s) ELSE {}
\* s waits, through others, for itself.
Deadlocked(s) ==
  \A S \in SUBSET Sources :
    WaitsFor(s) \subseteq S /\ (\A q \in S : WaitsFor(q) \subseteq S) => s \in S

BreakDeadlock ==
  \E s \in Sources : Deadlocked(s) /\ FailInsert(s) /\ UNCHANGED <<stored, sync, faults>>

Run(s) == Start(s) \/ SelectExisting(s) \/ FlushEvent(s) \/ Finish(s)

Next ==
  \/ \E s \in Sources : Run(s) \/ FailPull(s) \/ FailItem(s)
  \/ BreakDeadlock

Spec == Init /\ [][Next]_vars

\* Polls and deliveries recur, minutes apart; an INSERT that waits for the
\* unique index resumes when the other transaction ends, before a later one can
\* bring the id again: a wait at one item that is over again and again is granted.
FairSpec ==
  /\ Spec
  /\ \A s \in Sources :
       /\ WF_vars(Run(s))
       /\ \A i \in DOMAIN Items[s] : SF_vars(pos[s] = i /\ FlushEvent(s))
  /\ WF_vars(BreakDeadlock)

-----------------------------------------------------------------------------
(* Properties *)

TypeOK ==
  /\ stored \subseteq [event_id : EventIds, by : Sources]
  /\ \A s \in Sources :
       /\ pc[s] \in {"idle", "select", "insert", "finish", "answered", "raised"}
       /\ pos[s] \in 1..Len(Items[s]) + 1
       /\ own[s] \subseteq EventIds /\ failed[s] \in BOOLEAN
       /\ pc[s] # "idle" => Len(results[s]) = pos[s] - 1
       /\ sync[s] \in {"never", "success", "no_data", "error"}
  /\ faults \in 0..MaxFaults

\* Two overlapping deliveries of an event, by whatever route, store it once.
OneRowPerEvent == TypeOK /\ \A a, b \in stored : a.event_id = b.event_id => a = b

\* What a client can rely on in the report of a batch: the items reported
\* ingested after the last error are stored.  (The earlier ones may not be.)
ReportedSinceLastErrorStored ==
  \A s \in Sources : pc[s] = "answered" =>
    \A i \in DOMAIN results[s] :
      (\A j \in i..Len(results[s]) : results[s][j] = "ingested") => Items[s][i] \in StoredIds

\* The connector poll makes progress: it skips what is stored, so that every
\* event its connector keeps returning is stored in the end, although it may
\* report none of them, and a poll that meets a conflict loses its work.
PolledIsStored ==
  \A s \in Sources : Via[s] = "connector" => <>(ToSet(Items[s]) \subseteq StoredIds)

-----------------------------------------------------------------------------
(* Properties the code does not have *)

\* app/services/ingestion/normalizer.py:28: all events of a payload are
\* forwarded: one that keeps being delivered is stored in the end.
DeliveredIsStored == \A s \in Sources : <>(ToSet(Items[s]) \subseteq StoredIds)
=============================================================================
