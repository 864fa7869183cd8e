-------------------------- MODULE VendorIngest_proofs --------------------------
(***************************************************************************)
(* Two theorems of VendorIngest, for any sources, lists and bound on       *)
(* faults: whatever lists overlap an event is stored once, and what a list *)
(* reports as ingested after its last error is stored.                     *)
(***************************************************************************)
EXTENDS VendorIngest, SequenceTheorems, TLAPS

Steps == {"idle", "select", "insert", "finish", "answered", "raised"}
Reports == {"ingested", "skipped", "error"}
States == {"never", "success", "no_data", "error"}

Shapes ==
  /\ stored \subseteq [event_id : EventIds, by : Sources]
  /\ pc \in [Sources -> Steps] /\ pos \in [Sources -> Nat]
  /\ own \in [Sources -> SUBSET EventIds] /\ failed \in [Sources -> BOOLEAN]
  /\ results \in [Sources -> Seq(Reports)] /\ sync \in [Sources -> States]
  /\ faults \in 0..MaxFaults

\* The loop is at an item of its list, and has reported the ones before it.
AtItem ==
  \A s \in Sources :
    /\ pos[s] \in 1..Len(Items[s]) + 1
    /\ pc[s] \in {"select", "insert"} => pos[s] <= Len(Items[s])
    /\ pc[s] # "idle" => Len(results[s]) = pos[s] - 1

\* What open transactions have flushed is in one of them only, and not committed.
IdsApart ==
  /\ \A s, q \in Sources : s # q => own[s] \cap own[q] = {}
  /\ \A s \in Sources : own[s] \cap StoredIds = {}

TypeInv == Shapes /\ AtItem
IdInv == TypeInv /\ IdsApart /\ \A a, b \in stored : a.event_id = b.event_id => a = b

\* All reports of s from the i-th on are "ingested".
IngestedFrom(s, i) == \A j \in i..Len(results[s]) : results[s][j] = "ingested"

\* Until its list ends, what s has reported as ingested since its last error is in
\* its transaction; from then on it is stored.
Reported(s) ==
  /\ pc[s] \in {"select", "insert", "finish"} =>
       \A i \in 1..Len(results[s]) : IngestedFrom(s, i) => Items[s][i] \in own[s]
  /\ pc[s] = "answered" =>
       \A i \in 1..Len(results[s]) : IngestedFrom(s, i) => Items[s][i] \in StoredIds

ReportInv == TypeInv /\ \A s \in Sources : Reported(s)

-----------------------------------------------------------------------------
(* Types *)

InLoop(s) == pc[s] \in {"select", "insert"}

LEMMA ItemTyped ==
  ASSUME SourceAssumption, TypeInv, NEW s \in Sources, InLoop(s)
  PROVE  /\ pos[s] \in 1..Len(Items[s]) /\ Item(s) \in EventIds
         /\ Len(results[s]) = pos[s] - 1
  <1>1. pos[s] \in 1..Len(Items[s]) /\ Len(results[s]) = pos[s] - 1
    BY DEF TypeInv, Shapes, AtItem, InLoop, Steps
  <1>2. Items[s] \in Seq(EventIds)
    BY DEF SourceAssumption
  <1>3. QED
    BY <1>1, <1>2, ElementOfSeq DEF Item

\* The step that ends an item, whatever became of it.
ItemEnds(s, result) ==
  /\ InLoop(s) /\ result \in Reports
  /\ NextItem(s, result)
  /\ UNCHANGED <<stored, sync>>
  /\ faults' \in 0..MaxFaults
  /\ \E ids \in SUBSET EventIds : own' = [own EXCEPT ![s] = ids]
  /\ \E b \in BOOLEAN : failed' = [failed EXCEPT ![s] = b]

LEMMA ItemEndsTyped ==
  ASSUME SourceAssumption, TypeInv, NEW s \in Sources, NEW result, ItemEnds(s, result)
  PROVE  /\ TypeInv'
         /\ results' = [results EXCEPT ![s] = Append(results[s], result)]
         /\ Len(results'[s]) = pos[s]
  <1>1. /\ results' = [results EXCEPT ![s] = Append(results[s], result)]
        /\ pos' = [pos EXCEPT ![s] = pos[s] + 1]
        /\ pc' = [pc EXCEPT ![s] = IF pos[s] = Len(Items[s]) THEN "finish" ELSE "select"]
    BY DEF ItemEnds, NextItem, Goto
  <1>2. /\ Append(results[s], result) \in Seq(Reports)
        /\ Len(Append(results[s], result)) = Len(results[s]) + 1
    BY AppendProperties DEF ItemEnds, TypeInv, Shapes
  <1>3. /\ pos[s] \in 1..Len(Items[s]) /\ Len(results[s]) = pos[s] - 1
        /\ Len(Items[s]) \in Nat
    BY ItemTyped, LenProperties DEF ItemEnds, SourceAssumption
  <1>4. Shapes'
    <2>1. stored' = stored /\ sync' = sync /\ faults' \in 0..MaxFaults
      BY DEF ItemEnds
    <2>2. own' \in [Sources -> SUBSET EventIds] /\ failed' \in [Sources -> BOOLEAN]
      BY DEF ItemEnds, TypeInv, Shapes
    <2>3. pc' \in [Sources -> Steps] /\ pos' \in [Sources -> Nat]
      BY <1>1, <1>3 DEF TypeInv, Shapes, Steps
    <2>4. results' \in [Sources -> Seq(Reports)]
      BY <1>1, <1>2 DEF TypeInv, Shapes
    <2>5. QED
      BY <2>1, <2>2, <2>3, <2>4 DEF TypeInv, Shapes
  <1>5. Len(results'[s]) = pos[s]
    BY <1>1, <1>2, <1>3 DEF TypeInv, Shapes
  <1>6. ASSUME NEW q \in Sources
        PROVE  /\ pos'[q] \in 1..Len(Items[q]) + 1
               /\ pc'[q] \in {"select", "insert"} => pos'[q] <= Len(Items[q])
               /\ pc'[q] # "idle" => Len(results'[q]) = pos'[q] - 1
    <2>1. CASE q = s
      BY <1>1, <1>3, <1>5, <2>1 DEF TypeInv, Shapes
    <2>2. CASE q # s
      BY <1>1, <2>2 DEF TypeInv, Shapes, AtItem
    <2>3. QED
      BY <2>1, <2>2
  <1>7. QED
    BY <1>1, <1>4, <1>5, <1>6 DEF TypeInv, AtItem

\* A failed flush takes all that the transaction has flushed with it.
LEMMA FailInsertEnds ==
  ASSUME TypeInv, NEW s \in Sources, InLoop(s), FailInsert(s),
         UNCHANGED <<stored, sync>>, faults' \in 0..MaxFaults
  PROVE  ItemEnds(s, "error") /\ own' = [own EXCEPT ![s] = {}]
  <1>1. own' = [own EXCEPT ![s] = {}] /\ NextItem(s, "error")
    BY DEF FailInsert, Refuse
  <1>2. \E b \in BOOLEAN : failed' = [failed EXCEPT ![s] = b]
    BY DEF FailInsert, Refuse, TypeInv, Shapes
  <1>3. QED
    BY <1>1, <1>2 DEF ItemEnds, Reports

\* What an item does to its transaction: it takes all of it back, leaves it, or
\* adds the event, which no transaction and no table then had.
Adds(s, result) ==
  /\ ItemEnds(s, result) /\ Item(s) \notin StoredIds
  /\ \A q \in Sources \ {s} : Item(s) \notin own[q]
  /\ own' = [own EXCEPT ![s] = @ \cup {Item(s)}]
Leaves(s, result) ==
  /\ ItemEnds(s, result) /\ result # "ingested"
  /\ own' = [own EXCEPT ![s] = {}] \/ own' = own

LEMMA SelectEnds ==
  ASSUME SourceAssumption, TypeInv, NEW s \in Sources, SelectExisting(s)
  PROVE  \/ \E result \in Reports : Leaves(s, result)
         \/ /\ pc[s] = "select" /\ pc' = [pc EXCEPT ![s] = "insert"]
            /\ UNCHANGED <<stored, sync, faults, pos, own, failed, results>>
  <1>1. InLoop(s) /\ UNCHANGED <<stored, sync>> /\ faults' \in 0..MaxFaults
    BY DEF SelectExisting, InLoop, TypeInv, Shapes
  <1>2. own = [own EXCEPT ![s] = own[s]] /\ failed = [failed EXCEPT ![s] = failed[s]]
    BY DEF TypeInv, Shapes
  <1>3. own[s] \in SUBSET EventIds /\ failed[s] \in BOOLEAN
    BY DEF TypeInv, Shapes
  <1>4. ASSUME NEW result \in Reports, NextItem(s, result), UNCHANGED <<own, failed>>
        PROVE  ItemEnds(s, result)
    BY <1>1, <1>2, <1>3, <1>4 DEF ItemEnds
  <1>5. CASE failed[s] /\ NextItem(s, "error") /\ UNCHANGED <<own, failed>>
    BY <1>4, <1>5 DEF Leaves, Reports
  <1>6. CASE SkipDuplicate(s)
    BY <1>4, <1>6 DEF SkipDuplicate, Leaves, Reports
  <1>7. CASE Refuse(s)
    <2>1. ItemEnds(s, "error") /\ own' = [own EXCEPT ![s] = {}]
      BY <1>1, <1>2, <1>3, <1>7 DEF Refuse, ItemEnds, Reports
    <2>2. QED
      BY <2>1 DEF Leaves, Reports
  <1>8. CASE Goto(s, "insert") /\ UNCHANGED <<pos, own, failed, results>>
    BY <1>8 DEF SelectExisting, Goto
  <1>9. QED
    BY <1>5, <1>6, <1>7, <1>8 DEF SelectExisting

LEMMA FlushEnds ==
  ASSUME SourceAssumption, TypeInv, NEW s \in Sources, FlushEvent(s)
  PROVE  \E result \in Reports : Leaves(s, result) \/ Adds(s, result)
  <1>1. InLoop(s) /\ UNCHANGED <<stored, sync>> /\ faults' \in 0..MaxFaults
    BY DEF FlushEvent, InLoop, TypeInv, Shapes
  <1>2. CASE IdTaken(s) /\ FailInsert(s)
    BY <1>1, <1>2, FailInsertEnds DEF Leaves, Reports
  <1>3. CASE /\ ~IdTaken(s)
             /\ own' = [own EXCEPT ![s] = @ \cup {Item(s)}]
             /\ NextItem(s, IF Via[s] = "connector" THEN "error" ELSE "ingested")
             /\ UNCHANGED failed
    <2> DEFINE result == IF Via[s] = "connector" THEN "error" ELSE "ingested"
    <2>1. result \in Reports
      BY DEF Reports
    <2>2. own[s] \cup {Item(s)} \in SUBSET EventIds
      BY <1>1, ItemTyped DEF TypeInv, Shapes
    <2>3. failed[s] \in BOOLEAN /\ failed' = [failed EXCEPT ![s] = failed[s]]
      BY <1>3 DEF TypeInv, Shapes
    <2>4. NextItem(s, result)
      BY <1>3
    <2>5. ItemEnds(s, result)
      <3> HIDE DEF result
      <3>1. QED
        BY <1>1, <1>3, <2>1, <2>2, <2>3, <2>4 DEF ItemEnds
    <2>6. \A q \in Sources \ {s} : Item(s) \notin own[q]
      BY DEF FlushEvent, Holders
    <2>7. QED
      BY <1>3, <2>1, <2>5, <2>6 DEF Adds, IdTaken
  <1>4. QED
    BY <1>2, <1>3 DEF FlushEvent

LEMMA FailItemEnds ==
  ASSUME SourceAssumption, TypeInv, NEW s \in Sources, FailItem(s)
  PROVE  Leaves(s, "error")
  <1>1. InLoop(s) /\ UNCHANGED <<stored, sync>> /\ faults' \in 0..MaxFaults
    BY DEF FailItem, InLoop, TypeInv, Shapes, SourceAssumption
  <1>2. CASE FailInsert(s)
    BY <1>1, <1>2, FailInsertEnds DEF Leaves
  <1>3. CASE NextItem(s, "error") /\ UNCHANGED <<own, failed>>
    <2>1. own[s] \in SUBSET EventIds /\ own' = [own EXCEPT ![s] = own[s]]
      BY <1>3 DEF TypeInv, Shapes
    <2>2. failed[s] \in BOOLEAN /\ failed' = [failed EXCEPT ![s] = failed[s]]
      BY <1>3 DEF TypeInv, Shapes
    <2>3. QED
      BY <1>1, <1>3, <2>1, <2>2 DEF Leaves, ItemEnds, Reports
  <1>4. QED
    BY <1>2, <1>3 DEF FailItem

\* Only a source that waits for another's INSERT can be in a cycle of waits.
LEMMA DeadlockEnds ==
  ASSUME SourceAssumption, TypeInv, BreakDeadlock
  PROVE  \E s \in Sources : Leaves(s, "error")
  <1>1. PICK s \in Sources : Deadlocked(s) /\ FailInsert(s) /\ UNCHANGED <<stored, sync, faults>>
    BY DEF BreakDeadlock
  <1>2. WaitsFor(s) # {}
    BY <1>1 DEF Deadlocked
  <1>3. InLoop(s) /\ faults' \in 0..MaxFaults
    BY <1>1, <1>2 DEF WaitsFor, InLoop, TypeInv, Shapes
  <1>4. QED
    BY <1>1, <1>3, FailInsertEnds DEF Leaves

\* From the SELECT, which found nothing, to the INSERT.
Advances(s) ==
  /\ pc[s] = "select" /\ pc' = [pc EXCEPT ![s] = "insert"]
  /\ UNCHANGED <<stored, sync, faults, pos, own, failed, results>>

\* Every step is one of these; what follows is about them.
LEMMA StepKinds ==
  ASSUME SourceAssumption, TypeInv, [Next]_vars
  PROVE  \/ \E s \in Sources : \/ \E result \in Reports : Leaves(s, result) \/ Adds(s, result)
                              \/ Advances(s) \/ Start(s) \/ FailPull(s) \/ Finish(s)
         \/ UNCHANGED vars
  <1>1. CASE \E s \in Sources : SelectExisting(s)
    BY <1>1, SelectEnds DEF Advances
  <1>2. CASE \E s \in Sources : FlushEvent(s)
    BY <1>2, FlushEnds
  <1>3. CASE (\E s \in Sources : FailItem(s)) \/ BreakDeadlock
    BY <1>3, FailItemEnds, DeadlockEnds DEF Reports
  <1>4. QED
    BY <1>1, <1>2, <1>3 DEF Next, Run

LEMMA StartTyped ==
  ASSUME SourceAssumption, TypeInv, NEW s \in Sources, Start(s)
  PROVE  TypeInv'
  <1>1. /\ pos' = [pos EXCEPT ![s] = 1] /\ own' = [own EXCEPT ![s] = {}]
        /\ failed' = [failed EXCEPT ![s] = FALSE] /\ results' = [results EXCEPT ![s] = <<>>]
        /\ pc' = [pc EXCEPT ![s] = IF Items[s] = <<>> THEN "finish" ELSE "select"]
        /\ UNCHANGED <<stored, sync, faults>>
    BY DEF Start, Goto
  <1>2. <<>> \in Seq(Reports) /\ Len(<<>>) = 0
    BY EmptySeq
  <1>3. Len(Items[s]) \in Nat /\ (Items[s] # <<>> => Len(Items[s]) >= 1)
    BY EmptySeq, LenProperties DEF SourceAssumption
  <1>4. Shapes'
    BY <1>1, <1>2 DEF TypeInv, Shapes, Steps
  <1>5. ASSUME NEW q \in Sources
        PROVE  /\ pos'[q] \in 1..Len(Items[q]) + 1
               /\ pc'[q] \in {"select", "insert"} => pos'[q] <= Len(Items[q])
               /\ pc'[q] # "idle" => Len(results'[q]) = pos'[q] - 1
    <2>1. CASE q = s
      BY <1>1, <1>2, <1>3, <2>1 DEF TypeInv, Shapes
    <2>2. CASE q # s
      BY <1>1, <2>2 DEF TypeInv, Shapes, AtItem
    <2>3. QED
      BY <2>1, <2>2
  <1>6. QED
    BY <1>4, <1>5 DEF TypeInv, AtItem

LEMMA FinishTyped ==
  ASSUME SourceAssumption, TypeInv, NEW s \in Sources, Finish(s)
  PROVE  TypeInv'
  <1>1. /\ pc' = [pc EXCEPT ![s] = "raised"] \/ pc' = [pc EXCEPT ![s] = "answered"]
        /\ own' = [own EXCEPT ![s] = {}] /\ UNCHANGED <<pos, failed, results, faults>>
        /\ pc[s] = "finish"
    BY DEF Finish, Goto
  <1>2. stored' \subseteq [event_id : EventIds, by : Sources]
    <2>1. NewStored(s) \subseteq [event_id : EventIds, by : Sources]
      BY DEF NewStored, TypeInv, Shapes
    <2>2. QED
      BY <2>1 DEF Finish, TypeInv, Shapes
  <1>3. sync' \in [Sources -> States]
    BY DEF Finish, TypeInv, Shapes, States
  <1>4. QED
    BY <1>1, <1>2, <1>3 DEF TypeInv, Shapes, AtItem, Steps

LEMMA TypeStep ==
  ASSUME SourceAssumption, TypeInv, [Next]_vars
  PROVE  TypeInv'
  <1>1. ASSUME NEW s \in Sources, NEW result \in Reports, Leaves(s, result) \/ Adds(s, result)
        PROVE  TypeInv'
    BY <1>1, ItemEndsTyped DEF Leaves, Adds
  <1>2. ASSUME NEW s \in Sources, Advances(s)
        PROVE  TypeInv'
    BY <1>2 DEF Advances, TypeInv, Shapes, AtItem, Steps
  <1>3. ASSUME NEW s \in Sources, FailPull(s)
        PROVE  TypeInv'
    BY <1>3 DEF FailPull, TypeInv, Shapes, AtItem, States, SourceAssumption
  <1>4. CASE UNCHANGED vars
    BY <1>4 DEF vars, TypeInv, Shapes, AtItem
  <1>5. QED
    BY <1>1, <1>2, <1>3, <1>4, StartTyped, FinishTyped, StepKinds

LEMMA TypeInit ==
  ASSUME SourceAssumption, Init
  PROVE  TypeInv
  <1>1. \A s \in Sources : Len(Items[s]) \in Nat
    BY LenProperties DEF SourceAssumption
  <1>2. <<>> \in Seq(Reports) /\ Len(<<>>) = 0
    BY EmptySeq
  <1>3. QED
    BY <1>1, <1>2 DEF Init, TypeInv, Shapes, AtItem, Steps, States, SourceAssumption

-----------------------------------------------------------------------------
(* Ids *)

LEMMA StoredIdsOf == \A e : e \in StoredIds <=> \E row \in stored : row.event_id = e
  BY DEF StoredIds

LEMMA CommitIds ==
  ASSUME NEW s \in Sources, stored' = NewStored(s)
  PROVE  StoredIds' = StoredIds \cup own[s]
  <1>1. stored' = stored \cup {[event_id |-> e, by |-> s] : e \in own[s]}
    BY DEF NewStored
  <1>2. \A e \in own[s] : [event_id |-> e, by |-> s].event_id = e
    OBVIOUS
  <1>3. QED
    BY <1>1, <1>2 DEF StoredIds

\* A transaction that adds nothing and commits nothing cannot collide.
LEMMA FewerIds ==
  ASSUME IdInv, TypeInv', stored' = stored, \A s \in Sources : own'[s] \subseteq own[s]
  PROVE  IdInv'
  <1>1. StoredIds' = StoredIds
    BY DEF StoredIds
  <1>2. QED
    BY <1>1 DEF IdInv, IdsApart

LEMMA AddsIds ==
  ASSUME IdInv, TypeInv', NEW s \in Sources, NEW result, Adds(s, result)
  PROVE  IdInv'
  <1>1. stored' = stored /\ StoredIds' = StoredIds
    BY DEF Adds, ItemEnds, StoredIds
  <1>2. \A q \in Sources : own'[q] = IF q = s THEN own[s] \cup {Item(s)} ELSE own[q]
    BY DEF Adds, IdInv, TypeInv, Shapes
  <1>3. QED
    BY <1>1, <1>2 DEF Adds, IdInv, IdsApart

LEMMA FinishIds ==
  ASSUME IdInv, TypeInv', NEW s \in Sources, Finish(s)
  PROVE  IdInv'
  <1>1. \A q \in Sources : own'[q] = IF q = s THEN {} ELSE own[q]
    BY DEF Finish, IdInv, TypeInv, Shapes
  <1>2. CASE stored' = stored
    BY <1>1, <1>2, FewerIds
  <1>3. CASE stored' = NewStored(s)
    <2>1. StoredIds' = StoredIds \cup own[s]
      BY <1>3, CommitIds
    <2>2. IdsApart'
      BY <1>1, <2>1 DEF IdInv, IdsApart
    <2>3. \A a, b \in stored' : a.event_id = b.event_id => a = b
      <3>1. ASSUME NEW a \in stored, NEW e \in own[s]
            PROVE  a.event_id # e
        BY StoredIdsOf DEF IdInv, IdsApart
      <3>2. QED
        BY <1>3, <3>1 DEF NewStored, IdInv
    <2>4. QED
      BY <2>2, <2>3 DEF IdInv
  <1>4. QED
    BY <1>2, <1>3 DEF Finish

LEMMA IdStep ==
  ASSUME SourceAssumption, IdInv, [Next]_vars
  PROVE  IdInv'
  <1>1. TypeInv /\ TypeInv'
    BY TypeStep DEF IdInv
  <1>2. own \in [Sources -> SUBSET EventIds]
    BY <1>1 DEF TypeInv, Shapes
  <1>3. ASSUME NEW s \in Sources, NEW result \in Reports, Leaves(s, result)
        PROVE  IdInv'
    <2>1. stored' = stored /\ \A q \in Sources : own'[q] \subseteq own[q]
      BY <1>2, <1>3 DEF Leaves, ItemEnds
    <2>2. QED
      BY <1>1, <2>1, FewerIds
  <1>4. ASSUME NEW s \in Sources, Advances(s) \/ FailPull(s) \/ Start(s)
        PROVE  IdInv'
    <2>1. stored' = stored /\ \A q \in Sources : own'[q] \subseteq own[q]
      BY <1>2, <1>4 DEF Advances, FailPull, Start
    <2>2. QED
      BY <1>1, <2>1, FewerIds
  <1>5. CASE UNCHANGED vars
    BY <1>1, <1>5, FewerIds DEF vars
  <1>6. QED
    BY <1>1, <1>3, <1>4, <1>5, AddsIds, FinishIds, StepKinds

\* Deliveries of one event by clients, webhooks, polls and operators, however they
\* overlap, store it once: the unique index decides between transactions, and a
\* transaction is asked again about its own.
THEOREM StoredOnce == Spec => []OneRowPerEvent
  <1>1. Init => IdInv
    <2> SUFFICES ASSUME Init
                 PROVE  IdInv
      OBVIOUS
    <2>1. StoredIds = {} /\ \A s \in Sources : own[s] = {}
      BY DEF Init, StoredIds
    <2>2. QED
      BY <2>1, TypeInit, SourceAssumption DEF IdInv, IdsApart, Init
  <1>2. IdInv /\ [Next]_vars => IdInv'
    BY IdStep, SourceAssumption
  <1>3. IdInv => OneRowPerEvent
    BY DEF IdInv, TypeInv, Shapes, AtItem, OneRowPerEvent, TypeOK, Steps, States
  <1>4. QED
    BY <1>1, <1>2, <1>3, PTL DEF Spec

-----------------------------------------------------------------------------
(* Reports *)

\* What becomes of the others does not concern a source.
LEMMA OthersReports ==
  ASSUME NEW q \in Sources, Reported(q), StoredIds \subseteq StoredIds',
         pc'[q] = pc[q], own'[q] = own[q], results'[q] = results[q]
  PROVE  Reported(q)'
  BY DEF Reported, IngestedFrom

\* A report that is not "ingested" is the last error for all that precedes it.
LEMMA LeavesReports ==
  ASSUME SourceAssumption, ReportInv, NEW s \in Sources, NEW result \in Reports,
         Leaves(s, result)
  PROVE  ReportInv'
  <1>1. /\ TypeInv' /\ Len(results'[s]) = pos[s]
        /\ results' = [results EXCEPT ![s] = Append(results[s], result)]
    BY ItemEndsTyped DEF Leaves, ReportInv
  <1>2. /\ pos[s] \in 1..Len(Items[s]) /\ Len(results[s]) = pos[s] - 1
        /\ results[s] \in Seq(Reports)
    BY ItemTyped DEF Leaves, ItemEnds, ReportInv, TypeInv, Shapes
  <1>3. results'[s][pos[s]] = result
    BY <1>1, <1>2, AppendProperties DEF ReportInv, TypeInv, Shapes
  <1>4. \A i \in 1..Len(results'[s]) : ~IngestedFrom(s, i)'
    BY <1>1, <1>2, <1>3 DEF IngestedFrom, Leaves
  <1>5. ASSUME NEW q \in Sources, q # s
        PROVE  pc'[q] = pc[q] /\ own'[q] = own[q] /\ results'[q] = results[q]
    BY <1>1, <1>5 DEF Leaves, ItemEnds, NextItem, Goto, ReportInv, TypeInv, Shapes
  <1>6. StoredIds' = StoredIds /\ Reported(s)'
    BY <1>4 DEF StoredIds, Leaves, ItemEnds, Reported
  <1>7. QED
    BY <1>1, <1>5, <1>6, OthersReports DEF ReportInv

\* What is added to the transaction is the item that is reported.
LEMMA AddsReports ==
  ASSUME SourceAssumption, ReportInv, NEW s \in Sources, NEW result \in Reports,
         Adds(s, result)
  PROVE  ReportInv'
  <1>1. /\ TypeInv' /\ Len(results'[s]) = pos[s]
        /\ results' = [results EXCEPT ![s] = Append(results[s], result)]
    BY ItemEndsTyped DEF Adds, ReportInv
  <1>2. /\ pos[s] \in 1..Len(Items[s]) /\ Len(results[s]) = pos[s] - 1
        /\ results[s] \in Seq(Reports) /\ InLoop(s)
    BY ItemTyped DEF Adds, ItemEnds, ReportInv, TypeInv, Shapes
  <1>3. \A j \in 1..Len(results[s]) : results'[s][j] = results[s][j]
    BY <1>1, <1>2, AppendProperties DEF ReportInv, TypeInv, Shapes
  <1>4. /\ own'[s] = own[s] \cup {Item(s)} /\ StoredIds' = StoredIds
        /\ pc'[s] \in {"select", "finish"}
    BY DEF Adds, ItemEnds, NextItem, Goto, StoredIds, ReportInv, TypeInv, Shapes
  <1>5. ASSUME NEW i \in 1..Len(results'[s]), IngestedFrom(s, i)'
        PROVE  Items[s][i] \in own'[s]
    <2>1. CASE i = pos[s]
      BY <1>4, <2>1 DEF Item
    <2>2. CASE i < pos[s]
      <3>1. i \in 1..Len(results[s]) /\ IngestedFrom(s, i)
        BY <1>1, <1>2, <1>3, <1>5, <2>2 DEF IngestedFrom
      <3>2. QED
        BY <1>2, <1>4, <3>1 DEF ReportInv, Reported, InLoop
    <2>3. QED
      BY <1>1, <1>2, <2>1, <2>2
  <1>6. Reported(s)'
    BY <1>4, <1>5 DEF Reported
  <1>7. ASSUME NEW q \in Sources, q # s
        PROVE  pc'[q] = pc[q] /\ own'[q] = own[q] /\ results'[q] = results[q]
    BY <1>1, <1>7 DEF Adds, ItemEnds, NextItem, Goto, ReportInv, TypeInv, Shapes
  <1>8. QED
    BY <1>1, <1>4, <1>6, <1>7, OthersReports DEF ReportInv

\* A transaction that is committed stores what it has; one whose session has
\* failed reports nothing.
LEMMA FinishReports ==
  ASSUME SourceAssumption, ReportInv, NEW s \in Sources, Finish(s)
  PROVE  ReportInv'
  <1>1. TypeInv' /\ pc[s] = "finish" /\ results' = results
    BY FinishTyped DEF ReportInv, Finish
  <1>2. StoredIds \subseteq StoredIds'
    BY CommitIds DEF Finish, StoredIds
  <1>3. Reported(s)'
    <2>1. CASE failed[s]
      <3>1. pc'[s] = "raised"
        BY <2>1 DEF Finish, Goto, ReportInv, TypeInv, Shapes
      <3>2. QED
        BY <3>1 DEF Reported
    <2>2. CASE ~failed[s]
      <3>1. pc'[s] = "answered" /\ StoredIds' = StoredIds \cup own[s]
        BY <2>2, CommitIds DEF Finish, Goto, ReportInv, TypeInv, Shapes
      <3>2. QED
        BY <1>1, <3>1 DEF ReportInv, Reported, IngestedFrom
    <2>3. QED
      BY <2>1, <2>2
  <1>4. ASSUME NEW q \in Sources, q # s
        PROVE  pc'[q] = pc[q] /\ own'[q] = own[q]
    BY <1>4 DEF Finish, Goto, ReportInv, TypeInv, Shapes
  <1>5. QED
    BY <1>1, <1>2, <1>3, <1>4, OthersReports DEF ReportInv

LEMMA ReportStep ==
  ASSUME SourceAssumption, ReportInv, [Next]_vars
  PROVE  ReportInv'
  <1>1. TypeInv /\ TypeInv'
    BY TypeStep DEF ReportInv
  <1>2. ASSUME NEW s \in Sources, Advances(s)
        PROVE  ReportInv'
    BY <1>1, <1>2 DEF Advances, ReportInv, Reported, IngestedFrom, StoredIds, TypeInv, Shapes
  <1>3. ASSUME NEW s \in Sources, Start(s)
        PROVE  ReportInv'
    <2>1. results'[s] = <<>> /\ Len(<<>>) = 0
      BY <1>1, <1>3 DEF Start, TypeInv, Shapes
    <2>2. Reported(s)'
      BY <2>1 DEF Reported
    <2>3. ASSUME NEW q \in Sources, q # s
          PROVE  pc'[q] = pc[q] /\ own'[q] = own[q] /\ results'[q] = results[q]
      BY <1>1, <1>3, <2>3 DEF Start, Goto, TypeInv, Shapes
    <2>4. StoredIds' = StoredIds
      BY <1>3 DEF Start, StoredIds
    <2>5. QED
      BY <1>1, <2>2, <2>3, <2>4, OthersReports DEF ReportInv
  <1>4. ASSUME UNCHANGED <<stored, pc, own, results>>
        PROVE  ReportInv'
    BY <1>1, <1>4 DEF ReportInv, Reported, IngestedFrom, StoredIds
  <1>5. ASSUME NEW s \in Sources, FailPull(s)
        PROVE  ReportInv'
    BY <1>4, <1>5 DEF FailPull
  <1>6. CASE UNCHANGED vars
    BY <1>4, <1>6 DEF vars
  <1>7. QED
    BY <1>1, <1>2, <1>3, <1>5, <1>6, LeavesReports, AddsReports, FinishReports, StepKinds

\* What a batch reports as ingested after its last error is stored, although the
\* rollback of an error takes earlier items of the report with it.
THEOREM ReportsAreTrueSinceLastError == Spec => []ReportedSinceLastErrorStored
  <1>1. Init => ReportInv
    BY TypeInit, SourceAssumption DEF Init, ReportInv, Reported
  <1>2. ReportInv /\ [Next]_vars => ReportInv'
    BY ReportStep, SourceAssumption
  <1>3. ReportInv => ReportedSinceLastErrorStored
    <2> SUFFICES ASSUME ReportInv, NEW s \in Sources, pc[s] = "answered",
                        NEW i \in DOMAIN results[s],
                        \A j \in i..Len(results[s]) : results[s][j] = "ingested"
                 PROVE  Items[s][i] \in StoredIds
      BY DEF ReportedSinceLastErrorStored
    <2>1. DOMAIN results[s] = 1..Len(results[s])
      BY LenProperties DEF ReportInv, TypeInv, Shapes
    <2>2. QED
      BY <2>1 DEF ReportInv, Reported, IngestedFrom
  <1>4. QED
    BY <1>1, <1>2, <1>3, PTL DEF Spec
=============================================================================
