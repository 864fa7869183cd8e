------------------------ MODULE TelemetryStore_proofs ------------------------
(***************************************************************************)
(* Proofs about TelemetryStore for every set of requests, events, keys and *)
(* rebuilders and every number of faults.                                  *)
(***************************************************************************)
EXTENDS TelemetryStore, FiniteSetTheorems, TLAPS

\* Statements of a request that read or write the event at pos.
AtItem(r) == pc[r] \in {"select", "flush_event", "upsert", "flush"}

\* A request is at an event of its list until it has been through all of it.
PosOK ==
  \A r \in Requests :
    /\ AtItem(r) => pos[r] <= Len(Items[r])
    /\ pc[r] = "commit" => pos[r] = Len(Items[r]) + 1

TypeInv == TypeOK /\ PosOK

LEMMA ItemType ==
  ASSUME TypeInv, NEW r \in Requests, AtItem(r)
  PROVE  /\ Item(r) \in EventIds /\ Key(r) \in Keys
         /\ pos[r] \in 1..Len(Items[r])
         /\ Len(Items[r]) \in Nat
  <1>1. pos[r] \in 1..Len(Items[r]) /\ Len(Items[r]) \in Nat
    BY StoreAssumption DEF TypeInv, TypeOK, PosOK
  <1>2. Items[r] \in Seq(EventIds)
    BY StoreAssumption
  <1>3. Item(r) \in EventIds
    BY <1>1, <1>2 DEF Item
  <1>4. QED
    BY <1>1, <1>3, StoreAssumption DEF Key

LEMMA CountType ==
  ASSUME TypeOK, NEW k \in Keys
  PROVE  Count(k) \in Nat
  <1>1. {e \in StoredIds : AggKey[e] = k} \subseteq EventIds
    BY DEF TypeOK, StoredIds
  <1>2. QED
    BY <1>1, StoreAssumption, FS_Subset, FS_CardinalityType DEF Count

LEMMA CountTypeNext ==
  ASSUME TypeOK', NEW k \in Keys
  PROVE  Count(k)' \in Nat
  <1> DEFINE ids == {e \in StoredIds' : AggKey[e] = k}
  <1>1. ids \subseteq EventIds
    BY DEF TypeOK, StoredIds
  <1>2. Cardinality(ids) \in Nat
    BY <1>1, StoreAssumption, FS_Subset, FS_CardinalityType
  <1>3. Count(k)' = Cardinality(ids)
    BY DEF Count
  <1>4. QED
    <2> HIDE DEF ids
    <2>1. QED
      BY <1>2, <1>3

LEMMA FlushedType ==
  ASSUME TypeOK, NEW r \in Requests, NEW k \in Keys
  PROVE  /\ Cardinality(FlushedAt(r, k)) \in Nat
         /\ IsFiniteSet(FlushedAt(r, k))
  <1>1. FlushedAt(r, k) \subseteq EventIds
    BY DEF TypeOK, FlushedAt
  <1>2. QED
    BY <1>1, StoreAssumption, FS_Subset, FS_CardinalityType

\* What closing a session does to the variables of TypeInv.
LEMMA CloseType ==
  ASSUME TypeInv, NEW r \in Requests, NEW answer \in Answers,
         CloseSession(r, answer), UNCHANGED pos
  PROVE  /\ pc' \in [Requests -> Phases \cup Answers]
         /\ uncommitted' \in [Requests -> SUBSET EventIds]
         /\ mem' \in [Requests -> [Keys -> Nat]]
         /\ fresh' \in [Requests -> SUBSET Keys] /\ gone' \in [Requests -> SUBSET Keys]
         /\ lock' \in [Keys -> Procs \cup {NoOne}]
         /\ \A q \in Requests : Active(q)' => pos'[q] <= Len(Items[q]) + 1
         /\ PosOK'
  BY DEF TypeInv, TypeOK, PosOK, CloseSession, Goto, ReleaseLocks, NoCounts, Active,
         Phases, Answers, AtItem

LEMMA RollbackRequestType ==
  ASSUME TypeInv, NEW r \in Requests, NEW answer \in Answers,
         RollbackRequest(r, answer), faults' \in 0..MaxFaults
  PROVE  TypeInv'
  <1>1. CloseSession(r, answer) /\ UNCHANGED pos
    BY DEF RollbackRequest
  <1>2. QED
    BY <1>1, CloseType DEF RollbackRequest, TypeInv, TypeOK, jobVars

LEMMA RollbackJobType ==
  ASSUME TypeInv, NEW w \in Rebuilders, RollbackJob(w), faults' \in 0..MaxFaults
  PROVE  TypeInv'
  BY DEF RollbackJob, EndJob, ReleaseLocks, TypeInv, TypeOK, PosOK, requestVars,
         NoCounts, Active, AtItem

LEMMA InitType == Init => TypeInv
  <1> SUFFICES ASSUME Init PROVE TypeInv
    OBVIOUS
  <1>1. \A r \in Requests : Len(Items[r]) \in Nat /\ (Items[r] = <<>> <=> Len(Items[r]) = 0)
    BY StoreAssumption
  <1>2. QED
    BY <1>1, StoreAssumption DEF Init, TypeInv, TypeOK, PosOK, NoCounts, Active, AtItem,
       Phases, Answers

LEMMA RequestType ==
  ASSUME TypeInv, NEW r \in Requests, Serve(r) \/ FailRequest(r)
  PROVE  TypeInv'
  <1> USE DEF Answers, Phases
  <1>0. faults \in 0..MaxFaults
    BY DEF TypeInv, TypeOK
  <1>1. CASE SelectExisting(r)
    <2>1. CASE RollbackRequest(r, "conflict")
      BY <1>0, <1>1, <2>1, RollbackRequestType DEF SelectExisting
    <2>2. CASE Goto(r, "flush_event") /\ UNCHANGED <<stored, summary, lock, pos, uncommitted,
                 mem, fresh, gone, jobVars, posted>>
      BY <1>1, <2>2 DEF SelectExisting, Goto, TypeInv, TypeOK, PosOK, AtItem, Active, jobVars
    <2>3. QED
      BY <1>1, <2>1, <2>2 DEF SelectExisting
  <1>2. CASE FlushEvent(r)
    <2>1. CASE RollbackRequest(r, "error")
      BY <1>0, <1>2, <2>1, RollbackRequestType DEF FlushEvent
    <2>2. CASE /\ uncommitted' = [uncommitted EXCEPT ![r] = @ \cup {Item(r)}]
               /\ Goto(r, "upsert")
               /\ UNCHANGED <<stored, summary, lock, pos, mem, fresh, gone, jobVars, posted>>
      <3>1. AtItem(r)
        BY <1>2 DEF FlushEvent, AtItem
      <3>2. Item(r) \in EventIds
        BY <3>1, ItemType
      <3>3. QED
        BY <1>2, <2>2, <3>2 DEF FlushEvent, Goto, TypeInv, TypeOK, PosOK, AtItem, Active, jobVars
    <2>3. QED
      BY <1>2, <2>1, <2>2 DEF FlushEvent
  <1>3. CASE UpsertDailySummary(r)
    <2>1. AtItem(r)
      BY <1>3 DEF UpsertDailySummary, AtItem
    <2>2. Key(r) \in Keys
      BY <2>1, ItemType
    <2> DEFINE before == IF mem[r][Key(r)] > 0 THEN mem[r][Key(r)] ELSE summary[Key(r)]
    <2>3. before \in Nat
      BY <2>2 DEF TypeInv, TypeOK
    <2>4. mem' = [mem EXCEPT ![r][Key(r)] = before + 1]
      BY <1>3 DEF UpsertDailySummary
    <2>5. mem' \in [Requests -> [Keys -> Nat]]
      BY <2>2, <2>3, <2>4 DEF TypeInv, TypeOK
    <2>6. fresh' \in [Requests -> SUBSET Keys]
      BY <1>3, <2>2 DEF UpsertDailySummary, TypeInv, TypeOK
    <2>7. QED
      BY <1>3, <2>5, <2>6 DEF UpsertDailySummary, Goto, TypeInv, TypeOK, PosOK, AtItem,
         Active, jobVars
  <1>4. CASE FlushSession(r)
    <2>1. CASE RollbackRequest(r, "error")
      BY <1>0, <1>4, <2>1, RollbackRequestType DEF FlushSession
    <2>2. CASE /\ lock' = [lock EXCEPT ![Key(r)] = r]
               /\ pos' = [pos EXCEPT ![r] = @ + 1]
               /\ Goto(r, IF pos[r] = Len(Items[r]) THEN "commit" ELSE "select")
               /\ UNCHANGED <<stored, summary, uncommitted, mem, fresh, gone, jobVars, posted>>
      <3>1. AtItem(r)
        BY <1>4 DEF FlushSession, AtItem
      <3>2. Key(r) \in Keys /\ pos[r] \in 1..Len(Items[r]) /\ Len(Items[r]) \in Nat
        BY <3>1, ItemType
      <3>3. lock' \in [Keys -> Procs \cup {NoOne}]
        BY <2>2, <3>2 DEF TypeInv, TypeOK, Procs
      <3>4. pos' \in [Requests -> Nat \ {0}]
        BY <2>2, <3>2 DEF TypeInv, TypeOK
      <3>5. \A q \in Requests : Len(Items[q]) \in Nat
        BY StoreAssumption
      <3>6. PosOK' /\ \A q \in Requests : Active(q)' => pos'[q] <= Len(Items[q]) + 1
        BY <1>4, <2>2, <3>2, <3>5 DEF FlushSession, Goto, TypeInv, TypeOK, PosOK, AtItem, Active
      <3>7. QED
        BY <1>4, <2>2, <3>3, <3>4, <3>6 DEF FlushSession, Goto, TypeInv, TypeOK, jobVars
    <2>3. QED
      BY <1>4, <2>1, <2>2 DEF FlushSession
  <1>5. CASE CommitRequest(r)
    <2>1. CloseSession(r, "created") /\ UNCHANGED pos
      BY <1>5 DEF CommitRequest
    <2>2. stored' \subseteq [event_id : EventIds, by : Requests]
      BY <1>5 DEF CommitRequest, TypeInv, TypeOK
    <2>3. summary' \in [Keys -> Nat]
      BY <1>5 DEF CommitRequest, TypeInv, TypeOK
    <2>4. posted' \in [Keys -> Nat]
      BY <1>5, FlushedType DEF CommitRequest, TypeInv, TypeOK
    <2>5. QED
      BY <1>5, <2>1, <2>2, <2>3, <2>4, CloseType DEF CommitRequest, TypeInv, TypeOK, jobVars
  <1>6. CASE FailRequest(r)
    <2>1. RollbackRequest(r, "error") /\ faults' \in 0..MaxFaults
      BY <1>0, <1>6, StoreAssumption DEF FailRequest
    <2>2. QED
      BY <2>1, RollbackRequestType
  <1>7. QED
    BY <1>1, <1>2, <1>3, <1>4, <1>5, <1>6 DEF Serve

LEMMA JobType ==
  ASSUME TypeInv, NEW w \in Rebuilders, AggregateEvents(w) \/ RunJob(w) \/ FailJob(w)
  PROVE  TypeInv'
  <1> USE DEF requestVars
  <1>0. faults \in 0..MaxFaults
    BY DEF TypeInv, TypeOK
  <1>1. CASE AggregateEvents(w)
    <2>1. agg' \in [Rebuilders -> [Keys -> Nat]]
      BY <1>1, CountType DEF AggregateEvents, TypeInv, TypeOK
    <2>2. QED
      BY <1>1, <2>1 DEF AggregateEvents, TypeInv, TypeOK, PosOK, AtItem, Active
  <1>2. CASE StartDelete(w)
    BY <1>2, StoreAssumption DEF StartDelete, TypeInv, TypeOK, PosOK, AtItem, Active
  <1>3. CASE DeleteRow(w)
    <2>1. CASE target[w] = {}
      BY <1>3, <2>1 DEF DeleteRow, TypeInv, TypeOK, PosOK, AtItem, Active
    <2>2. CASE target[w] # {} /\ UNCHANGED job
      <3>1. PICK k \in target[w] :
               /\ lock' = [lock EXCEPT ![k] = w]
               /\ target' = [target EXCEPT ![w] = @ \ {k}]
               /\ deleted' = [deleted EXCEPT ![w] = @ \cup {k}]
        BY <1>3, <2>2 DEF DeleteRow
      <3>2. k \in Keys
        BY DEF TypeInv, TypeOK
      <3>3. QED
        BY <1>3, <2>2, <3>1, <3>2 DEF DeleteRow, TypeInv, TypeOK, PosOK, AtItem, Active, Procs
    <2>3. QED
      BY <1>3, <2>1, <2>2 DEF DeleteRow
  <1>4. CASE InsertRow(w)
    <2>1. CASE RollbackJob(w)
      BY <1>0, <1>4, <2>1, RollbackJobType DEF InsertRow
    <2>2. CASE ~RollbackJob(w)
      <3>1. PICK k \in ToInsert(w) :
               /\ lock' = [lock EXCEPT ![k] = w]
               /\ inserted' = [inserted EXCEPT ![w] = @ \cup {k}]
               /\ UNCHANGED <<stored, summary, requestVars, job, agg, target, deleted, posted>>
        BY <1>4, <2>2 DEF InsertRow
      <3>2. k \in Keys
        BY DEF ToInsert
      <3>3. QED
        BY <1>4, <3>1, <3>2 DEF InsertRow, TypeInv, TypeOK, PosOK, AtItem, Active, Procs
    <2>3. QED
      BY <2>1, <2>2
  <1>5. CASE CommitRebuild(w)
    <2>1. summary' \in [Keys -> Nat]
      BY <1>5 DEF CommitRebuild, RebuiltTotal, TypeInv, TypeOK
    <2>2. gone' \in [Requests -> SUBSET Keys] /\ target' \in [Rebuilders -> SUBSET Keys]
      BY <1>5 DEF CommitRebuild, TypeInv, TypeOK
    <2>3. QED
      BY <1>5, <2>1, <2>2 DEF CommitRebuild, EndJob, ReleaseLocks, NoCounts, TypeInv, TypeOK,
         PosOK, AtItem, Active
  <1>6. CASE FailJob(w)
    <2>1. RollbackJob(w) /\ faults' \in 0..MaxFaults
      BY <1>0, <1>6, StoreAssumption DEF FailJob
    <2>2. QED
      BY <2>1, RollbackJobType
  <1>7. QED
    BY <1>1, <1>2, <1>3, <1>4, <1>5, <1>6 DEF RunJob

LEMMA NextType == TypeInv /\ [Next]_vars => TypeInv'
  <1> SUFFICES ASSUME TypeInv, [Next]_vars PROVE TypeInv'
    OBVIOUS
  <1>1. ASSUME NEW e \in EventIds, DeleteEvent(e) PROVE TypeInv'
    BY <1>1 DEF DeleteEvent, requestVars, jobVars, TypeInv, TypeOK, PosOK, AtItem, Active
  <1>2. CASE BreakDeadlock
    <2>1. faults' \in 0..MaxFaults
      BY <1>2 DEF BreakDeadlock, TypeInv, TypeOK
    <2>2. QED
      BY <1>2, <2>1, RollbackRequestType, RollbackJobType DEF BreakDeadlock, Answers
  <1>3. CASE UNCHANGED vars
    BY <1>3 DEF vars, requestVars, jobVars, TypeInv, TypeOK, PosOK, AtItem, Active
  <1>4. QED
    BY <1>1, <1>2, <1>3, RequestType, JobType DEF Next

LEMMA TypeInvariance == Spec => []TypeInv
  BY InitType, NextType, PTL DEF Spec

\* The variables keep their types; no summary total is ever negative.
THEOREM TypeCorrect == Spec => []TypeOK
  BY TypeInvariance, PTL DEF TypeInv

-----------------------------------------------------------------------------
(* Event ids: stored once, and whole requests at a time.                   *)

\* How many events of its list a request has flushed.
Flushed(r) == IF pc[r] \in {"upsert", "flush"} THEN pos[r] ELSE pos[r] - 1

\* An uncommitted id is nowhere else: what the unique index guarantees.
IdsDisjoint ==
  /\ \A r \in Requests : uncommitted[r] \cap StoredIds = {}
  /\ \A r, q \in Requests : r # q => uncommitted[r] \cap uncommitted[q] = {}
  /\ \A r \in Requests : ~Active(r) => uncommitted[r] = {}

\* A request has flushed exactly a prefix of its list, without repetition.
PrefixFlushed ==
  \A r \in Requests : Active(r) =>
    /\ uncommitted[r] = {Items[r][i] : i \in 1..Flushed(r)}
    /\ \A i, j \in 1..Flushed(r) : Items[r][i] = Items[r][j] => i = j

\* The session saw its own rows when it looked for the id, so the id it is
\* about to flush is not one of them.
LookedUp == \A r \in Requests : pc[r] = "flush_event" => Item(r) \notin uncommitted[r]

IdInv == OneRowPerEvent /\ IdsDisjoint /\ PrefixFlushed /\ LookedUp

LEMMA InitIds == Init => IdInv
  BY DEF Init, IdInv, OneRowPerEvent, IdsDisjoint, PrefixFlushed, LookedUp, StoredIds,
         Flushed, Active, Phases

\* Rolling back forgets the uncommitted ids and touches nothing else.
LEMMA RollbackIds ==
  ASSUME TypeInv, IdInv, NEW r \in Requests, NEW answer \in Answers,
         RollbackRequest(r, answer)
  PROVE  IdInv'
  BY DEF RollbackRequest, CloseSession, Goto, TypeInv, TypeOK, IdInv, OneRowPerEvent,
         IdsDisjoint, PrefixFlushed, LookedUp, StoredIds, Flushed, Active, Phases, Answers, Item

\* Steps that leave the requests' progress and the stored rows alone.
LEMMA IdFrame ==
  ASSUME IdInv, UNCHANGED <<stored, pc, pos, uncommitted>>
  PROVE  IdInv'
  BY DEF IdInv, OneRowPerEvent, IdsDisjoint, PrefixFlushed, LookedUp, StoredIds, Flushed,
         Active, Item

LEMMA JobIds ==
  ASSUME IdInv, NEW w \in Rebuilders, AggregateEvents(w) \/ RunJob(w) \/ FailJob(w)
  PROVE  IdInv'
  <1>1. UNCHANGED <<stored, pc, pos, uncommitted>>
    BY DEF AggregateEvents, RunJob, FailJob, StartDelete, DeleteRow, InsertRow, CommitRebuild,
           RollbackJob, requestVars
  <1>2. QED
    BY <1>1, IdFrame

LEMMA CommitIds ==
  ASSUME NEW r \in Requests, CommitRequest(r)
  PROVE  StoredIds' = StoredIds \cup uncommitted[r]
  <1> DEFINE new == {[event_id |-> e, by |-> r] : e \in uncommitted[r]}
  <1>1. {row.event_id : row \in new} = uncommitted[r]
    <2>1. ASSUME NEW e \in uncommitted[r] PROVE e \in {row.event_id : row \in new}
      <3>1. [event_id |-> e, by |-> r] \in new
        OBVIOUS
      <3>2. QED
        BY <3>1
    <2>2. ASSUME NEW row \in new PROVE row.event_id \in uncommitted[r]
      OBVIOUS
    <2>3. QED
      BY <2>1, <2>2
  <1>2. stored' = stored \cup new
    BY DEF CommitRequest
  <1>3. QED
    <2> HIDE DEF new
    <2>1. QED
      BY <1>1, <1>2 DEF StoredIds

LEMMA RequestIds ==
  ASSUME TypeInv, IdInv, NEW r \in Requests, Serve(r) \/ FailRequest(r)
  PROVE  IdInv'
  <1> USE DEF Phases
  <1>1. CASE SelectExisting(r)
    <2>1. CASE RollbackRequest(r, "conflict")
      BY <2>1, RollbackIds DEF Answers
    <2>2. CASE /\ Item(r) \notin StoredIds \cup uncommitted[r]
               /\ Goto(r, "flush_event")
               /\ UNCHANGED <<stored, summary, lock, pos, uncommitted, mem, fresh, gone,
                              jobVars, posted>>
      BY <1>1, <2>2 DEF SelectExisting, Goto, TypeInv, TypeOK, IdInv, OneRowPerEvent, IdsDisjoint,
         PrefixFlushed, LookedUp, StoredIds, Flushed, Active, Item
    <2>3. QED
      BY <1>1, <2>1, <2>2 DEF SelectExisting
  <1>2. CASE FlushEvent(r)
    <2>1. CASE RollbackRequest(r, "error")
      BY <2>1, RollbackIds DEF Answers
    <2>2. CASE /\ ~IdTaken(r)
               /\ uncommitted' = [uncommitted EXCEPT ![r] = @ \cup {Item(r)}]
               /\ Goto(r, "upsert")
               /\ UNCHANGED <<stored, summary, lock, pos, mem, fresh, gone, jobVars, posted>>
      <3>1. /\ Item(r) \notin StoredIds /\ Item(r) \notin uncommitted[r]
            /\ \A q \in Requests \ {r} : Item(r) \notin uncommitted[q]
        BY <1>2, <2>2 DEF FlushEvent, IdTaken, IdHolders, IdInv, LookedUp
      <3>2. pos[r] \in 1..Len(Items[r])
        BY <1>2, ItemType DEF FlushEvent, AtItem
      <3>3. OneRowPerEvent'
        BY <2>2 DEF IdInv, OneRowPerEvent
      <3>4. IdsDisjoint'
        BY <1>2, <2>2, <3>1 DEF FlushEvent, Goto, TypeInv, TypeOK, IdInv, IdsDisjoint, StoredIds,
           Active
      <3>5. PrefixFlushed'
        <4>1. Flushed(r) = pos[r] - 1 /\ Flushed(r)' = pos[r]
          BY <1>2, <2>2 DEF FlushEvent, Goto, Flushed, TypeInv, TypeOK
        <4>2. /\ uncommitted[r] = {Items[r][i] : i \in 1..pos[r] - 1}
              /\ \A i, j \in 1..pos[r] - 1 : Items[r][i] = Items[r][j] => i = j
          BY <1>2, <4>1 DEF FlushEvent, IdInv, PrefixFlushed, Active
        <4>3. 1..pos[r] = (1..pos[r] - 1) \cup {pos[r]}
          BY <3>2
        <4>4. uncommitted'[r] = {Items[r][i] : i \in 1..pos[r]}
          BY <2>2, <4>2, <4>3 DEF Item, TypeInv, TypeOK
        <4>5. \A i, j \in 1..pos[r] : Items[r][i] = Items[r][j] => i = j
          BY <3>1, <4>2, <4>3 DEF Item
        <4>6. \A q \in Requests \ {r} : /\ Active(q)' = Active(q) /\ Flushed(q)' = Flushed(q)
                                        /\ uncommitted'[q] = uncommitted[q]
          BY <2>2 DEF Goto, Active, Flushed, TypeInv, TypeOK
        <4>7. QED
          BY <4>1, <4>4, <4>5, <4>6 DEF IdInv, PrefixFlushed
      <3>6. LookedUp'
        BY <2>2 DEF Goto, IdInv, LookedUp, Item, TypeInv, TypeOK
      <3>7. QED
        BY <3>3, <3>4, <3>5, <3>6 DEF IdInv
    <2>3. QED
      BY <1>2, <2>1, <2>2 DEF FlushEvent
  <1>3. CASE UpsertDailySummary(r)
    BY <1>3 DEF UpsertDailySummary, Goto, TypeInv, TypeOK, IdInv, OneRowPerEvent, IdsDisjoint,
       PrefixFlushed, LookedUp, StoredIds, Flushed, Active, Item
  <1>4. CASE FlushSession(r)
    <2>1. CASE RollbackRequest(r, "error")
      BY <2>1, RollbackIds DEF Answers
    <2>2. CASE /\ pos' = [pos EXCEPT ![r] = @ + 1]
               /\ Goto(r, IF pos[r] = Len(Items[r]) THEN "commit" ELSE "select")
               /\ UNCHANGED <<stored, uncommitted>>
      <3>1. /\ pos[r] \in 1..Len(Items[r]) /\ pos'[r] = pos[r] + 1
            /\ Active(r) /\ Active(r)' /\ pc'[r] \in {"commit", "select"}
        BY <1>4, <2>2, ItemType DEF FlushSession, AtItem, Goto, Active, TypeInv, TypeOK
      <3>2. Flushed(r)' = Flushed(r)
        BY <1>4, <3>1 DEF FlushSession, Flushed
      <3>3. \A q \in Requests \ {r} : /\ pc'[q] = pc[q] /\ pos'[q] = pos[q]
                                      /\ Flushed(q)' = Flushed(q) /\ Active(q)' = Active(q)
        BY <2>2 DEF Goto, Active, Flushed, TypeInv, TypeOK
      <3>4. OneRowPerEvent' /\ IdsDisjoint'
        BY <2>2, <3>1, <3>3 DEF IdInv, OneRowPerEvent, IdsDisjoint, StoredIds
      <3>5. PrefixFlushed'
        BY <2>2, <3>1, <3>2, <3>3 DEF IdInv, PrefixFlushed
      <3>6. LookedUp'
        BY <2>2, <3>1, <3>3 DEF IdInv, LookedUp, Item
      <3>7. QED
        BY <3>4, <3>5, <3>6 DEF IdInv
    <2>3. QED
      BY <1>4, <2>1, <2>2 DEF FlushSession
  <1>5. CASE CommitRequest(r)
    <2>1. stored' = stored \cup {[event_id |-> e, by |-> r] : e \in uncommitted[r]}
      BY <1>5 DEF CommitRequest
    <2>2. StoredIds' = StoredIds \cup uncommitted[r]
      BY <1>5, CommitIds
    <2>3. OneRowPerEvent'
      BY <2>1 DEF IdInv, OneRowPerEvent, IdsDisjoint, StoredIds
    <2>4. /\ pc' = [pc EXCEPT ![r] = "created"] /\ pos' = pos
          /\ uncommitted' = [uncommitted EXCEPT ![r] = {}]
      BY <1>5 DEF CommitRequest, CloseSession, Goto
    <2>5. IdsDisjoint'
      BY <1>5, <2>2, <2>4 DEF CommitRequest, IdInv, IdsDisjoint, Active, TypeInv, TypeOK
    <2>6. PrefixFlushed' /\ LookedUp'
      <3>1. ~Active(r)' /\ pc'[r] # "flush_event"
        BY <2>4 DEF Active, TypeInv, TypeOK
      <3>2. \A q \in Requests \ {r} :
              /\ pc'[q] = pc[q] /\ pos'[q] = pos[q] /\ uncommitted'[q] = uncommitted[q]
              /\ Flushed(q)' = Flushed(q) /\ Active(q)' = Active(q) /\ Item(q)' = Item(q)
        BY <2>4 DEF Active, Flushed, Item, TypeInv, TypeOK
      <3>3. QED
        BY <3>1, <3>2 DEF IdInv, PrefixFlushed, LookedUp
    <2>7. QED
      BY <2>3, <2>5, <2>6 DEF IdInv
  <1>6. CASE FailRequest(r)
    BY <1>6, RollbackIds DEF FailRequest, Answers
  <1>7. QED
    BY <1>1, <1>2, <1>3, <1>4, <1>5, <1>6 DEF Serve

LEMMA NextIds == TypeInv /\ IdInv /\ [Next]_vars => IdInv'
  <1> SUFFICES ASSUME TypeInv, IdInv, [Next]_vars PROVE IdInv'
    OBVIOUS
  <1>1. ASSUME NEW e \in EventIds, DeleteEvent(e) PROVE IdInv'
    BY <1>1 DEF DeleteEvent, requestVars, IdInv, OneRowPerEvent, IdsDisjoint, PrefixFlushed,
       LookedUp, StoredIds, Flushed, Active, Item
  <1>2. CASE BreakDeadlock
    <2>1. ASSUME NEW w \in Rebuilders, RollbackJob(w) PROVE IdInv'
      BY <2>1, IdFrame DEF RollbackJob, requestVars
    <2>2. QED
      BY <1>2, <2>1, RollbackIds DEF BreakDeadlock, Answers
  <1>3. CASE UNCHANGED vars
    BY <1>3, IdFrame DEF vars, requestVars
  <1>4. QED
    BY <1>1, <1>2, <1>3, RequestIds, JobIds DEF Next

LEMMA IdInvariance == Spec => []IdInv
  BY InitIds, NextIds, TypeInvariance, PTL DEF Spec

\* However requests with the same event id overlap, one row is stored.
THEOREM StoredOnce == Spec => []OneRowPerEvent
  BY IdInvariance, PTL DEF IdInv

-----------------------------------------------------------------------------
(* Refinement: ingestion implements EventLog.                              *)

LEMMA InitLog == Init => Log!Init
  BY DEF Init, Log!Init, StoredIds, Outcome, Active, Phases

\* The end of a request without a commit is the abstract Reject.
LEMMA RollbackLog ==
  ASSUME TypeInv, NEW r \in Requests, Active(r), NEW answer \in {"conflict", "error"},
         RollbackRequest(r, answer)
  PROVE  Log!Reject(r)
  BY DEF RollbackRequest, CloseSession, Goto, Log!Reject, Outcome, StoredIds, Active, Phases,
         TypeInv, TypeOK

\* A request commits when it has flushed all of its list: the abstract Accept.
LEMMA CommitLog ==
  ASSUME TypeInv, IdInv, NEW r \in Requests, CommitRequest(r)
  PROVE  Log!Accept(r)
  <1>1. pc[r] = "commit" /\ Active(r) /\ pos[r] = Len(Items[r]) + 1
    BY DEF CommitRequest, Active, Phases, TypeInv, PosOK
  <1>2. /\ Items[r] \in Seq(EventIds) /\ Len(Items[r]) \in Nat
        /\ DOMAIN Items[r] = 1..Len(Items[r])
    BY StoreAssumption
  <1>3. Flushed(r) = Len(Items[r])
    BY <1>1, <1>2 DEF Flushed
  <1>4. uncommitted[r] = Log!Range(Items[r])
    BY <1>1, <1>2, <1>3 DEF IdInv, PrefixFlushed, Log!Range
  <1>5. Log!Distinct(Items[r])
    BY <1>1, <1>2, <1>3 DEF IdInv, PrefixFlushed, Log!Distinct, Log!IsInjective
  <1>6. uncommitted[r] \cap StoredIds = {}
    BY DEF IdInv, IdsDisjoint
  <1>7. StoredIds' = StoredIds \cup uncommitted[r]
    BY CommitIds
  <1>8. pc' = [pc EXCEPT ![r] = "created"]
    BY DEF CommitRequest, CloseSession, Goto
  <1>9. Outcome[r] = "open" /\ Outcome' = [Outcome EXCEPT ![r] = "accepted"]
    BY <1>1, <1>8 DEF Outcome, Active, Phases, TypeInv, TypeOK
  <1>10. QED
    BY <1>4, <1>5, <1>6, <1>7, <1>9 DEF Log!Accept

\* Steps inside a request, and steps of a rebuild, are invisible.
LEMMA LogFrame ==
  ASSUME UNCHANGED <<stored, pc>>
  PROVE  UNCHANGED Log!vars
  BY DEF Log!vars, StoredIds, Outcome, Active

LEMMA MoveLog ==
  ASSUME TypeInv, NEW r \in Requests, Active(r), NEW phase \in Phases, Goto(r, phase),
         UNCHANGED stored
  PROVE  UNCHANGED Log!vars
  BY DEF Goto, Log!vars, StoredIds, Outcome, Active, Phases, TypeInv, TypeOK

LEMMA RequestLog ==
  ASSUME TypeInv, IdInv, NEW r \in Requests, Serve(r) \/ FailRequest(r)
  PROVE  [Log!Next]_(Log!vars)
  <1>1. CASE RollbackRequest(r, "conflict") \/ RollbackRequest(r, "error")
    <2>1. Active(r)
      BY DEF Serve, FailRequest, SelectExisting, FlushEvent, UpsertDailySummary, FlushSession,
             CommitRequest, Active, Phases
    <2>2. QED
      BY <1>1, <2>1, RollbackLog DEF Log!Next
  <1>2. CASE CommitRequest(r)
    BY <1>2, CommitLog DEF Log!Next
  <1>3. CASE /\ ~RollbackRequest(r, "conflict") /\ ~RollbackRequest(r, "error")
             /\ ~CommitRequest(r)
    <2>1. Active(r) /\ UNCHANGED stored
      BY <1>3 DEF Serve, FailRequest, SelectExisting, FlushEvent, UpsertDailySummary,
         FlushSession, Active, Phases
    <2>2. \E phase \in Phases : Goto(r, phase)
      BY <1>3 DEF Serve, FailRequest, SelectExisting, FlushEvent, UpsertDailySummary,
         FlushSession, Phases
    <2>3. QED
      BY <2>1, <2>2, MoveLog
  <1>4. QED
    BY <1>1, <1>2, <1>3

LEMMA NextLog == TypeInv /\ IdInv /\ [Next]_vars => [Log!Next]_(Log!vars)
  <1> SUFFICES ASSUME TypeInv, IdInv, [Next]_vars PROVE [Log!Next]_(Log!vars)
    OBVIOUS
  <1>1. ASSUME NEW e \in EventIds, DeleteEvent(e) PROVE Log!Delete(e)
    BY <1>1 DEF DeleteEvent, requestVars, Log!Delete, StoredIds, Outcome, Active, TypeInv,
       TypeOK, OneRowPerEvent
  <1>2. ASSUME NEW w \in Rebuilders, AggregateEvents(w) \/ RunJob(w) \/ FailJob(w)
        PROVE  UNCHANGED Log!vars
    BY <1>2, LogFrame DEF AggregateEvents, RunJob, FailJob, StartDelete, DeleteRow, InsertRow,
       CommitRebuild, RollbackJob, requestVars
  <1>3. CASE BreakDeadlock
    <2>1. ASSUME NEW r \in Requests, Deadlocked(r), RollbackRequest(r, "error")
          PROVE  Log!Next
      <3>1. Active(r)
        BY <2>1 DEF Deadlocked, WaitsFor, Active, Phases
      <3>2. QED
        BY <2>1, <3>1, RollbackLog DEF Log!Next
    <2>2. ASSUME NEW w \in Rebuilders, RollbackJob(w) PROVE UNCHANGED Log!vars
      BY <2>2, LogFrame DEF RollbackJob, requestVars
    <2>3. QED
      BY <1>3, <2>1, <2>2 DEF BreakDeadlock
  <1>4. CASE UNCHANGED vars
    BY <1>4, LogFrame DEF vars, requestVars
  <1>5. QED
    BY <1>1, <1>2, <1>3, <1>4, RequestLog DEF Next, Log!Next

\* Ingestion is atomic: a request enters all of its ids or none, and none twice.
THEOREM Refinement == Spec => ImplementsEventLog
  BY InitLog, NextLog, TypeInvariance, IdInvariance, PTL DEF Spec, ImplementsEventLog, Log!Spec

-----------------------------------------------------------------------------
(* The summary never counts an event twice, when an event is aggregated    *)
(* under the same key by the ingest and by the rebuild.                    *)

\* The event a request has flushed and not yet counted.
Uncounted(r, k) == IF pc[r] = "upsert" /\ Key(r) = k THEN 1 ELSE 0

Bounded(r, k) == mem[r][k] + Uncounted(r, k) <= posted[k] + Cardinality(FlushedAt(r, k))

\* Every count in the system, the copies in sessions and jobs included, is
\* covered by events posted, or flushed by the session that holds the copy.
CountInv ==
  /\ \A k \in Keys : Count(k) <= posted[k] /\ summary[k] <= posted[k]
  /\ \A w \in Rebuilders, k \in Keys : agg[w][k] <= posted[k]
  /\ \A r \in Requests, k \in Keys : Bounded(r, k)

\* A count bounded before the step is bounded after it, if the session's own
\* state at the key is unchanged and posted has not gone down.
LEMMA BoundedFrame ==
  ASSUME TypeInv, TypeInv', CountInv, NEW r \in Requests, NEW k \in Keys,
         posted'[k] >= posted[k],
         mem'[r] = mem[r], uncommitted'[r] = uncommitted[r],
         Uncounted(r, k)' <= Uncounted(r, k)
  PROVE  Bounded(r, k)'
  <1>1. FlushedAt(r, k)' = FlushedAt(r, k)
    BY DEF FlushedAt
  <1>2. Cardinality(FlushedAt(r, k)) \in Nat
    BY FlushedType DEF TypeInv
  <1>3. /\ mem[r][k] \in Nat /\ posted[k] \in Nat /\ posted'[k] \in Nat
        /\ Uncounted(r, k) \in Nat /\ Uncounted(r, k)' \in Nat
    BY DEF TypeInv, TypeOK, Uncounted
  <1>4. QED
    BY <1>1, <1>2, <1>3 DEF CountInv, Bounded

LEMMA InitCounts == Init => CountInv
  <1> SUFFICES ASSUME Init PROVE CountInv
    OBVIOUS
  <1>1. \A k \in Keys : {e \in StoredIds : AggKey[e] = k} = {}
    BY DEF Init, StoredIds
  <1>2. \A r \in Requests, k \in Keys : FlushedAt(r, k) = {}
    BY DEF Init, FlushedAt
  <1>3. Cardinality({}) = 0
    BY FS_EmptySet
  <1>4. \A k \in Keys : Count(k) = 0 /\ summary[k] = 0 /\ posted[k] = 0
    BY <1>1, <1>3 DEF Init, Count, NoCounts
  <1>5. ASSUME NEW r \in Requests, NEW k \in Keys PROVE Bounded(r, k)
    <2>1. Cardinality(FlushedAt(r, k)) = 0
      BY <1>2, <1>3
    <2>2. mem[r][k] = 0 /\ Uncounted(r, k) = 0
      BY DEF Init, NoCounts, Uncounted
    <2>3. QED
      BY <1>4, <2>1, <2>2 DEF Bounded
  <1>6. \A w \in Rebuilders, k \in Keys : agg[w][k] = 0
    BY DEF Init, NoCounts
  <1>7. QED
    BY <1>4, <1>5, <1>6 DEF CountInv

\* Closing a session discards its copies.
LEMMA CloseBounded ==
  ASSUME TypeInv, TypeInv', CountInv, NEW r \in Requests, NEW answer \in Answers,
         CloseSession(r, answer), UNCHANGED pos,
         \A k \in Keys : posted'[k] >= posted[k]
  PROVE  \A q \in Requests, k \in Keys : Bounded(q, k)'
  <1> SUFFICES ASSUME NEW q \in Requests, NEW k \in Keys PROVE Bounded(q, k)'
    OBVIOUS
  <1>1. CASE q = r
    <2>1. mem'[r][k] = 0 /\ uncommitted'[r] = {} /\ Uncounted(r, k)' = 0
      BY DEF CloseSession, Goto, NoCounts, Uncounted, Answers, TypeInv, TypeOK
    <2>2. FlushedAt(r, k)' = {}
      BY <2>1 DEF FlushedAt
    <2>3. posted'[k] \in Nat
      BY DEF TypeInv, TypeOK
    <2>4. QED
      BY <1>1, <2>1, <2>2, <2>3, FS_EmptySet DEF Bounded
  <1>2. CASE q # r
    <2>1. mem'[q] = mem[q] /\ uncommitted'[q] = uncommitted[q] /\ pc'[q] = pc[q]
      BY <1>2 DEF CloseSession, Goto, TypeInv, TypeOK
    <2>2. Uncounted(q, k)' = Uncounted(q, k)
      BY <2>1 DEF Uncounted, Key, Item
    <2>3. Uncounted(q, k) \in Nat
      BY DEF Uncounted
    <2>4. QED
      BY <2>1, <2>2, <2>3, BoundedFrame
  <1>3. QED
    BY <1>1, <1>2

LEMMA RollbackCounts ==
  ASSUME TypeInv, TypeInv', CountInv, NEW r \in Requests, NEW answer \in Answers,
         RollbackRequest(r, answer)
  PROVE  CountInv'
  <1>1. \A q \in Requests, k \in Keys : Bounded(q, k)'
    <2>1. CloseSession(r, answer) /\ UNCHANGED pos /\ posted' = posted
      BY DEF RollbackRequest
    <2>2. \A k \in Keys : posted'[k] >= posted[k]
      BY <2>1 DEF TypeInv, TypeOK
    <2>3. QED
      BY <2>1, <2>2, CloseBounded
  <1>2. /\ \A k \in Keys : Count(k)' <= posted'[k] /\ summary'[k] <= posted'[k]
        /\ \A w \in Rebuilders, k \in Keys : agg'[w][k] <= posted'[k]
    BY DEF RollbackRequest, jobVars, CountInv, Count, StoredIds
  <1>3. QED
    BY <1>1, <1>2 DEF CountInv

\* Flushing an event adds it to the session's flushed events of its key.
LEMMA FlushCard ==
  ASSUME TypeInv, NEW r \in Requests, NEW k \in Keys, NEW e \in EventIds, e \notin uncommitted[r],
         uncommitted' = [uncommitted EXCEPT ![r] = @ \cup {e}]
  PROVE  Cardinality(FlushedAt(r, k))' =
           Cardinality(FlushedAt(r, k)) + (IF UpsertKey[e] = k THEN 1 ELSE 0)
  <1>1. uncommitted'[r] = uncommitted[r] \cup {e}
    BY DEF TypeInv, TypeOK
  <1>2. IsFiniteSet(FlushedAt(r, k)) /\ Cardinality(FlushedAt(r, k)) \in Nat
    BY FlushedType DEF TypeInv
  <1>3. CASE UpsertKey[e] = k
    <2>1. FlushedAt(r, k)' = FlushedAt(r, k) \cup {e} /\ e \notin FlushedAt(r, k)
      BY <1>1, <1>3 DEF FlushedAt
    <2>2. QED
      BY <1>2, <1>3, <2>1, FS_AddElement
  <1>4. CASE UpsertKey[e] # k
    <2>1. FlushedAt(r, k)' = FlushedAt(r, k)
      BY <1>1, <1>4 DEF FlushedAt
    <2>2. QED
      BY <1>2, <1>4, <2>1
  <1>5. QED
    BY <1>3, <1>4

LEMMA CommitCount ==
  ASSUME UpsertKey = AggKey, TypeInv, NEW r \in Requests, CommitRequest(r), NEW k \in Keys
  PROVE  Count(k)' <= Count(k) + Cardinality(FlushedAt(r, k))
  <1> DEFINE old == {e \in StoredIds : AggKey[e] = k}
  <1>1. {e \in StoredIds' : AggKey[e] = k} = old \cup FlushedAt(r, k)
    BY CommitIds DEF FlushedAt
  <1>2. old \subseteq EventIds
    BY DEF TypeInv, TypeOK, StoredIds
  <1>3. IsFiniteSet(old)
    BY <1>2, StoreAssumption, FS_Subset
  <1>4. IsFiniteSet(FlushedAt(r, k))
    BY FlushedType DEF TypeInv
  <1>5. Cardinality(old \cup FlushedAt(r, k)) =
          Cardinality(old) + Cardinality(FlushedAt(r, k)) - Cardinality(old \cap FlushedAt(r, k))
    BY <1>3, <1>4, FS_Union
  <1>6. IsFiniteSet(old \cap FlushedAt(r, k))
    BY <1>3, FS_Subset
  <1>7. /\ Cardinality(old) \in Nat /\ Cardinality(FlushedAt(r, k)) \in Nat
        /\ Cardinality(old \cap FlushedAt(r, k)) \in Nat
    BY <1>3, <1>4, <1>6, FS_CardinalityType
  <1>8. Cardinality(old \cup FlushedAt(r, k)) <= Cardinality(old) + Cardinality(FlushedAt(r, k))
    BY <1>5, <1>7
  <1>9. Count(k) = Cardinality(old) /\ Count(k)' = Cardinality({e \in StoredIds' : AggKey[e] = k})
    BY DEF Count
  <1>10. QED
    <2> HIDE DEF old
    <2>1. QED
      BY <1>1, <1>8, <1>9

\* Steps of a request that leave the database's counts alone.
LEMMA CountFrame ==
  ASSUME CountInv, UNCHANGED <<stored, summary, agg, posted>>,
         \A q \in Requests, k \in Keys : Bounded(q, k)'
  PROVE  CountInv'
  BY DEF CountInv, Count, StoredIds

\* ... and one that moves within its own session disturbs no other's.
LEMMA OthersBounded ==
  ASSUME TypeInv, TypeInv', CountInv, NEW r \in Requests, UNCHANGED posted,
         \A q \in Requests \ {r} : /\ pc'[q] = pc[q] /\ pos'[q] = pos[q]
                                   /\ mem'[q] = mem[q] /\ uncommitted'[q] = uncommitted[q],
         \A k \in Keys : Bounded(r, k)'
  PROVE  \A q \in Requests, k \in Keys : Bounded(q, k)'
  <1> SUFFICES ASSUME NEW q \in Requests \ {r}, NEW k \in Keys PROVE Bounded(q, k)'
    OBVIOUS
  <1>1. Uncounted(q, k)' = Uncounted(q, k) /\ Uncounted(q, k) \in Nat
    BY DEF Uncounted, Key, Item
  <1>2. posted'[k] = posted[k] /\ posted[k] \in Nat
    BY DEF TypeInv, TypeOK
  <1>3. QED
    BY <1>1, <1>2, BoundedFrame

LEMMA RequestCounts ==
  ASSUME UpsertKey = AggKey, TypeInv, TypeInv', IdInv, CountInv, NEW r \in Requests,
         Serve(r) \/ FailRequest(r)
  PROVE  CountInv'
  <1>1. CASE RollbackRequest(r, "conflict") \/ RollbackRequest(r, "error")
    BY <1>1, RollbackCounts DEF Answers
  <1>2. CASE SelectExisting(r) /\ ~RollbackRequest(r, "conflict")
    <2>1. /\ Goto(r, "flush_event")
          /\ UNCHANGED <<stored, summary, pos, uncommitted, mem, agg, posted>>
      BY <1>2 DEF SelectExisting, jobVars
    <2>2. ASSUME NEW q \in Requests, NEW k \in Keys PROVE Bounded(q, k)'
      <3>1. Uncounted(q, k)' <= Uncounted(q, k)
        BY <1>2, <2>1 DEF SelectExisting, Goto, Uncounted, Key, Item, TypeInv, TypeOK
      <3>2. posted'[k] >= posted[k]
        BY <2>1 DEF TypeInv, TypeOK
      <3>3. QED
        BY <2>1, <3>1, <3>2, BoundedFrame
    <2>3. QED
      BY <2>1, <2>2, CountFrame
  <1>3. CASE FlushEvent(r) /\ ~RollbackRequest(r, "error")
    <2>1. /\ Goto(r, "upsert") /\ pc[r] = "flush_event"
          /\ uncommitted' = [uncommitted EXCEPT ![r] = @ \cup {Item(r)}]
          /\ UNCHANGED <<stored, summary, pos, mem, agg, posted>>
      BY <1>3 DEF FlushEvent, jobVars
    <2>2. Item(r) \in EventIds /\ Item(r) \notin uncommitted[r]
      BY <2>1, ItemType DEF AtItem, IdInv, LookedUp
    <2>3. ASSUME NEW k \in Keys PROVE Bounded(r, k)'
      <3>1. Uncounted(r, k) = 0 /\ Uncounted(r, k)' = IF UpsertKey[Item(r)] = k THEN 1 ELSE 0
        BY <2>1 DEF Goto, Uncounted, Key, Item, TypeInv, TypeOK
      <3>2. Cardinality(FlushedAt(r, k))' =
              Cardinality(FlushedAt(r, k)) + (IF UpsertKey[Item(r)] = k THEN 1 ELSE 0)
        BY <2>1, <2>2, FlushCard
      <3>3. Cardinality(FlushedAt(r, k)) \in Nat /\ mem[r][k] \in Nat /\ posted[k] \in Nat
        BY FlushedType DEF TypeInv, TypeOK
      <3>4. Bounded(r, k) /\ mem'[r][k] = mem[r][k] /\ posted'[k] = posted[k]
        BY <2>1 DEF CountInv
      <3>5. QED
        BY <3>1, <3>2, <3>3, <3>4 DEF Bounded
    <2>4. \A q \in Requests \ {r} : /\ pc'[q] = pc[q] /\ pos'[q] = pos[q]
                                    /\ mem'[q] = mem[q] /\ uncommitted'[q] = uncommitted[q]
      BY <2>1 DEF Goto, TypeInv, TypeOK
    <2>5. QED
      BY <2>1, <2>3, <2>4, OthersBounded, CountFrame
  <1>4. CASE UpsertDailySummary(r)
    <2> DEFINE before == IF mem[r][Key(r)] > 0 THEN mem[r][Key(r)] ELSE summary[Key(r)]
    <2>1. /\ Goto(r, "flush") /\ pc[r] = "upsert"
          /\ mem' = [mem EXCEPT ![r][Key(r)] = before + 1]
          /\ UNCHANGED <<stored, summary, pos, uncommitted, agg, posted>>
      BY <1>4 DEF UpsertDailySummary, jobVars
    <2>2. Key(r) \in Keys /\ Item(r) \in EventIds /\ pos[r] \in 1..Len(Items[r])
      BY <2>1, ItemType DEF AtItem
    <2>3. Cardinality(FlushedAt(r, Key(r))) >= 1
      <3>1. Item(r) \in uncommitted[r]
        BY <2>1, <2>2 DEF IdInv, PrefixFlushed, Active, Phases, Flushed, Item
      <3>2. FlushedAt(r, Key(r)) # {}
        BY <3>1 DEF FlushedAt, Key
      <3>3. IsFiniteSet(FlushedAt(r, Key(r))) /\ Cardinality(FlushedAt(r, Key(r))) \in Nat
        BY <2>2, FlushedType DEF TypeInv
      <3>4. QED
        BY <3>2, <3>3, FS_EmptySet
    <2>4. ASSUME NEW k \in Keys PROVE Bounded(r, k)'
      <3>1. Cardinality(FlushedAt(r, k)) \in Nat /\ FlushedAt(r, k)' = FlushedAt(r, k)
        BY <2>1, FlushedType DEF TypeInv, FlushedAt
      <3>2. /\ mem[r][k] \in Nat /\ summary[k] \in Nat /\ posted[k] \in Nat
            /\ posted'[k] = posted[k] /\ summary[k] <= posted[k]
        BY <2>1 DEF TypeInv, TypeOK, CountInv
      <3>3. Uncounted(r, k)' = 0
        BY <2>1 DEF Goto, Uncounted, TypeInv, TypeOK
      <3>4. Bounded(r, k) /\ Uncounted(r, k) = IF Key(r) = k THEN 1 ELSE 0
        BY <2>1 DEF CountInv, Uncounted
      <3>5. CASE k = Key(r)
        <4>1. mem'[r][k] = before + 1
          BY <2>1, <2>2, <3>5 DEF TypeInv, TypeOK
        <4>2. QED
          BY <2>3, <3>1, <3>2, <3>3, <3>4, <3>5, <4>1 DEF Bounded
      <3>6. CASE k # Key(r)
        <4>1. mem'[r][k] = mem[r][k]
          BY <2>1, <2>2, <3>6 DEF TypeInv, TypeOK
        <4>2. QED
          BY <3>1, <3>2, <3>3, <3>4, <3>6, <4>1 DEF Bounded
      <3>7. QED
        BY <3>5, <3>6
    <2>5. \A q \in Requests \ {r} : /\ pc'[q] = pc[q] /\ pos'[q] = pos[q]
                                    /\ mem'[q] = mem[q] /\ uncommitted'[q] = uncommitted[q]
      BY <2>1 DEF Goto, TypeInv, TypeOK
    <2>6. QED
      BY <2>1, <2>4, <2>5, OthersBounded, CountFrame
  <1>5. CASE FlushSession(r) /\ ~RollbackRequest(r, "error")
    <2>1. /\ pc[r] = "flush"
          /\ pc' = [pc EXCEPT ![r] = IF pos[r] = Len(Items[r]) THEN "commit" ELSE "select"]
          /\ pos' = [pos EXCEPT ![r] = @ + 1]
          /\ UNCHANGED <<stored, summary, uncommitted, mem, agg, posted>>
      BY <1>5 DEF FlushSession, Goto, jobVars
    <2>2. ASSUME NEW q \in Requests, NEW k \in Keys PROVE Bounded(q, k)'
      <3>1. Uncounted(q, k)' <= Uncounted(q, k)
        BY <2>1 DEF Uncounted, Key, Item, TypeInv, TypeOK
      <3>2. posted'[k] >= posted[k]
        BY <2>1 DEF TypeInv, TypeOK
      <3>3. QED
        BY <2>1, <3>1, <3>2, BoundedFrame
    <2>3. QED
      BY <2>1, <2>2, CountFrame
  <1>6. CASE CommitRequest(r)
    <2>1. \A k \in Keys : /\ Cardinality(FlushedAt(r, k)) \in Nat
                          /\ posted[k] \in Nat /\ summary[k] \in Nat /\ mem[r][k] \in Nat
                          /\ Count(k) \in Nat
      BY FlushedType, CountType DEF TypeInv, TypeOK
    <2>2. \A k \in Keys : posted'[k] = posted[k] + Cardinality(FlushedAt(r, k))
      BY <1>6 DEF CommitRequest
    <2>3. \A k \in Keys : posted'[k] >= posted[k]
      BY <2>1, <2>2
    <2>4. \A q \in Requests, k \in Keys : Bounded(q, k)'
      <3>1. CloseSession(r, "created") /\ UNCHANGED pos
        BY <1>6 DEF CommitRequest
      <3>2. QED
        BY <2>3, <3>1, CloseBounded DEF Answers
    <2>5. ASSUME NEW k \in Keys PROVE Count(k)' <= posted'[k]
      <3>1. Count(k)' <= Count(k) + Cardinality(FlushedAt(r, k))
        BY <1>6, CommitCount
      <3>2. Count(k)' \in Nat
        BY CountTypeNext DEF TypeInv
      <3>3. Count(k) <= posted[k]
        BY DEF CountInv
      <3>4. QED
        BY <2>1, <2>2, <3>1, <3>2, <3>3
    <2>6. ASSUME NEW k \in Keys PROVE summary'[k] <= posted'[k]
      <3>1. Uncounted(r, k) = 0
        BY <1>6 DEF CommitRequest, Uncounted
      <3>2. summary'[k] = mem[r][k] \/ summary'[k] = summary[k]
        BY <1>6 DEF CommitRequest
      <3>3. QED
        BY <2>1, <2>2, <3>1, <3>2 DEF CountInv, Bounded
    <2>7. ASSUME NEW w \in Rebuilders, NEW k \in Keys PROVE agg'[w][k] <= posted'[k]
      <3>1. agg'[w][k] = agg[w][k] /\ agg[w][k] \in Nat /\ posted'[k] \in Nat
        BY <1>6 DEF CommitRequest, jobVars, TypeInv, TypeOK
      <3>2. QED
        BY <2>1, <2>3, <3>1 DEF CountInv
    <2>8. QED
      BY <2>4, <2>5, <2>6, <2>7 DEF CountInv
  <1>7. CASE FailRequest(r)
    BY <1>1, <1>7 DEF FailRequest
  <1>8. QED
    BY <1>1, <1>2, <1>3, <1>4, <1>5, <1>6, <1>7 DEF Serve

\* Steps of a rebuild touch no session's copies.
LEMMA JobBounded ==
  ASSUME TypeInv, TypeInv', CountInv, UNCHANGED <<pc, pos, mem, uncommitted, posted>>
  PROVE  \A q \in Requests, k \in Keys : Bounded(q, k)'
  <1> SUFFICES ASSUME NEW q \in Requests, NEW k \in Keys PROVE Bounded(q, k)'
    OBVIOUS
  <1>1. Uncounted(q, k)' = Uncounted(q, k) /\ Uncounted(q, k) \in Nat
    BY DEF Uncounted, Key, Item
  <1>2. posted'[k] = posted[k] /\ posted[k] \in Nat
    BY DEF TypeInv, TypeOK
  <1>3. QED
    BY <1>1, <1>2, BoundedFrame

LEMMA JobCounts ==
  ASSUME TypeInv, TypeInv', CountInv, NEW w \in Rebuilders,
         AggregateEvents(w) \/ RunJob(w) \/ FailJob(w)
  PROVE  CountInv'
  <1>1. UNCHANGED <<stored, pc, pos, mem, uncommitted, posted>>
    BY DEF AggregateEvents, RunJob, FailJob, StartDelete, DeleteRow, InsertRow, CommitRebuild,
           RollbackJob, requestVars
  <1>2. /\ \A q \in Requests, k \in Keys : Bounded(q, k)'
        /\ \A k \in Keys : Count(k)' <= posted'[k]
    BY <1>1, JobBounded DEF CountInv, Count, StoredIds
  <1>3. \A k \in Keys : Count(k) <= posted[k] /\ posted[k] \in Nat /\ posted'[k] = posted[k]
    BY <1>1 DEF CountInv, TypeInv, TypeOK
  <1>4. ASSUME NEW x \in Rebuilders, NEW k \in Keys PROVE agg'[x][k] <= posted'[k]
    <2>1. agg[x][k] <= posted[k]
      BY DEF CountInv
    <2>2. CASE AggregateEvents(w)
      <3>1. agg'[x][k] = agg[x][k] \/ agg'[x][k] = 0 \/ agg'[x][k] = Count(k)
        BY <2>2 DEF AggregateEvents, TypeInv, TypeOK
      <3>2. QED
        BY <1>3, <2>1, <3>1
    <2>3. CASE RunJob(w) \/ FailJob(w)
      <3>1. agg' = agg \/ agg' = [agg EXCEPT ![w] = NoCounts]
        <4>1. CASE UNCHANGED agg
          BY <4>1
        <4>2. CASE RollbackJob(w) \/ CommitRebuild(w)
          BY <4>2 DEF RollbackJob, CommitRebuild, EndJob
        <4>3. UNCHANGED agg \/ RollbackJob(w) \/ CommitRebuild(w)
          BY <2>3 DEF RunJob, FailJob, StartDelete, DeleteRow, InsertRow
        <4>4. QED
          BY <4>1, <4>2, <4>3
      <3>2. agg \in [Rebuilders -> [Keys -> Nat]] /\ NoCounts[k] = 0
        BY DEF NoCounts, TypeInv, TypeOK
      <3>3. agg'[x][k] = agg[x][k] \/ agg'[x][k] = 0
        BY <3>1, <3>2
      <3>4. QED
        BY <1>3, <2>1, <3>3
    <2>4. QED
      BY <2>2, <2>3
  <1>5. ASSUME NEW k \in Keys PROVE summary'[k] <= posted'[k]
    <2>1. summary[k] <= posted[k] /\ agg[w][k] <= posted[k]
      BY DEF CountInv
    <2>2. summary'[k] = summary[k] \/ summary'[k] = 0 \/ summary'[k] = agg[w][k]
      BY DEF AggregateEvents, RunJob, FailJob, StartDelete, DeleteRow, InsertRow, CommitRebuild,
             RollbackJob, RebuiltTotal
    <2>3. QED
      BY <1>3, <2>1, <2>2
  <1>6. QED
    BY <1>2, <1>4, <1>5 DEF CountInv

LEMMA DeleteCounts ==
  ASSUME TypeInv, TypeInv', CountInv, NEW e \in EventIds, DeleteEvent(e)
  PROVE  CountInv'
  <1>1. /\ UNCHANGED <<summary, pc, pos, mem, uncommitted, agg, posted>>
        /\ StoredIds' \subseteq StoredIds
    BY DEF DeleteEvent, requestVars, jobVars, StoredIds
  <1>2. ASSUME NEW k \in Keys PROVE Count(k)' <= posted'[k]
    <2> DEFINE old == {i \in StoredIds : AggKey[i] = k}
               new == {i \in StoredIds' : AggKey[i] = k}
    <2>1. new \subseteq old /\ old \subseteq EventIds
      BY <1>1 DEF TypeInv, TypeOK, StoredIds
    <2>2. IsFiniteSet(old)
      BY <2>1, StoreAssumption, FS_Subset
    <2>3. Cardinality(new) <= Cardinality(old)
      BY <2>1, <2>2, FS_Subset
    <2>4. Count(k) = Cardinality(old) /\ Count(k)' = Cardinality(new)
      BY DEF Count
    <2>5. Count(k) <= posted[k] /\ posted'[k] = posted[k] /\ posted[k] \in Nat
      BY <1>1 DEF CountInv, TypeInv, TypeOK
    <2>6. Count(k) \in Nat /\ Count(k)' \in Nat
      BY CountType, CountTypeNext DEF TypeInv
    <2> HIDE DEF old, new
    <2>7. QED
      BY <2>3, <2>4, <2>5, <2>6
  <1>3. \A q \in Requests, k \in Keys : Bounded(q, k)'
    BY <1>1, JobBounded
  <1>4. QED
    BY <1>1, <1>2, <1>3 DEF CountInv

LEMMA NextCounts ==
  ASSUME UpsertKey = AggKey
  PROVE  TypeInv /\ TypeInv' /\ IdInv /\ CountInv /\ [Next]_vars => CountInv'
  <1> SUFFICES ASSUME TypeInv, TypeInv', IdInv, CountInv, [Next]_vars PROVE CountInv'
    OBVIOUS
  <1>1. CASE BreakDeadlock
    <2>1. ASSUME NEW w \in Rebuilders, RollbackJob(w) PROVE CountInv'
      <3>1. UNCHANGED <<stored, summary, pc, pos, mem, uncommitted, posted>>
        BY <2>1 DEF RollbackJob, requestVars
      <3>2. \A q \in Requests, k \in Keys : Bounded(q, k)'
        BY <3>1, JobBounded
      <3>3. \A x \in Rebuilders, k \in Keys : agg'[x][k] <= posted'[k]
        BY <2>1, <3>1 DEF RollbackJob, EndJob, NoCounts, CountInv, TypeInv, TypeOK
      <3>4. QED
        BY <3>1, <3>2, <3>3 DEF CountInv, Count, StoredIds
    <2>2. QED
      BY <1>1, <2>1, RollbackCounts DEF BreakDeadlock, Answers
  <1>2. CASE UNCHANGED vars
    <2>1. \A q \in Requests, k \in Keys : Bounded(q, k)'
      BY <1>2, JobBounded DEF vars, requestVars
    <2>2. QED
      BY <1>2, <2>1, CountFrame DEF vars, jobVars
  <1>3. QED
    BY <1>1, <1>2, RequestCounts, JobCounts, DeleteCounts DEF Next

\* When ingest and rebuild aggregate an event under the same key, the summary,
\* whatever updates it loses, never counts more events than were committed.
THEOREM SummaryBounded ==
  ASSUME UpsertKey = AggKey
  PROVE  Spec => []NeverOvercounts
  <1>1. CountInv => NeverOvercounts
    BY DEF CountInv, NeverOvercounts
  <1>2. TypeInv /\ TypeInv' /\ IdInv /\ CountInv /\ [Next]_vars => CountInv'
    BY NextCounts
  <1>3. QED
    BY <1>1, <1>2, InitCounts, TypeInvariance, IdInvariance, PTL DEF Spec
=============================================================================
