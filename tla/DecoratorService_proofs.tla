----------------------- MODULE DecoratorService_proofs -----------------------
(***************************************************************************)
(* DecoratorService for any calls, pool and faults: the audit trail is     *)
(* that of the calls answered 200, the rows the unique constraints guard   *)
(* are unique, duplicate registrations stay within the pool, what is       *)
(* refused had a reason, and the totals of the pages follow the stored     *)
(* calls: never ahead, exact without an overlap.                           *)
(***************************************************************************)
EXTENDS DecoratorService, Sums, FunctionTheorems

Flying ==
  {"inventory", "registration", "usage", "flush", "rest", "alerts", "commit", "poisoned"}
Plans ==
  [inv : InventoryRow \cup {None}, reg : RegistrationRow \cup {None}, use : UsageRow \cup {None}]

Shapes ==
  /\ pc \in [Calls -> Flying \cup {"sent", "done"}]
  /\ answer \in [Calls -> {None, 200, 401, 500}]
  /\ event \in [Calls -> {"none", "flushed", "linked"}] /\ plan \in [Calls -> Plans]
  /\ inventory \subseteq InventoryRow /\ registrations \subseteq RegistrationRow
  /\ usage \subseteq UsageRow /\ logs \subseteq [call : Calls, linked : BOOLEAN]
  /\ faults \in 0..MaxFaults

\* An answer ends the request; only an ingest has an event, and one that reaches the
\* commit without a fault has linked it.
Progress(c) ==
  /\ answer[c] # None => pc[c] = "done"
  /\ event[c] # "none" => Ingests(c)
  /\ pc[c] \in {"rest", "alerts"} => Ingests(c)
  /\ pc[c] = "commit" /\ Ingests(c) /\ c \notin faulted => event[c] = "linked"

\* The log of each stored ingest, and no other; its event and its link.
TrailInv ==
  /\ \A l \in logs : l.call \in Stored /\ Ingests(l.call) /\ (l.linked => l.call \in events)
  /\ \A l, k \in logs : l.call = k.call => l = k
  /\ \A c \in Stored : Ingests(c) =>
       \E l \in logs : l.call = c /\ (c \notin faulted => l.linked /\ c \in events)
  /\ \A c \in events : \E l \in logs : l.call = c

\* A row is of the call that inserted it, and what a request has read is of its own.
IdInv ==
  /\ \A i \in inventory :
       i.id \in Stored /\ i.fn = Of[i.id].fn /\ i.project = Of[i.id].project
  /\ \A g \in registrations : g.id \in Stored /\ g.fn = Of[g.id].fn
  /\ \A u \in usage :
       /\ u.id \in Stored /\ u.project = Of[u.id].project /\ u.model = Of[u.id].model
       /\ Ingests(u.id) /\ u.model # None
  /\ \A i, j \in inventory : i.id = j.id => i = j
  /\ \A g, h \in registrations : g.id = h.id => g = h
  /\ \A c \in Calls : plan[c].inv # None => SameInventory(plan[c].inv.id, c)
  /\ \A c \in Calls : plan[c].reg # None => SameFunction(plan[c].reg.id, c)

\* Between its flush and its commit a request holds its rows and its unique keys: no
\* other holds one it would wait for, and none is inserted behind it.
KeyTaken(c) == \E i \in inventory : i.fn = Of[c].fn /\ i.project = Of[c].project
NameTaken(c) == \E g \in registrations : g.fn = Of[c].fn /\ Of[g.id].path = Of[c].path
HolderInv ==
  /\ \A c, d \in Calls : c # d /\ Holding(c) /\ Holding(d) => ~Waits(c, d)
  /\ \A c \in Calls :
       Holding(c) /\ plan[c].inv = None /\ Of[c].project # None => ~KeyTaken(c)
  /\ \A i, j \in inventory : i.project = j.project /\ i.fn = j.fn /\ i.project # None => i = j
  /\ "registration" \in keys =>
       /\ \A c \in Calls : Holding(c) /\ plan[c].reg = None => ~NameTaken(c)
       /\ \A g, h \in registrations : g.fn = h.fn /\ Of[g.id].path = Of[h.id].path => g = h

\* Stored calls of the inventory row of c that ended so.
Answered(c, statuses) == {d \in Stored : SameInventory(c, d) /\ Of[d].status \in statuses}
Counts(row, c) ==
  /\ row.total \in 1..Cardinality(Answered(c, {"success", "error"}))
  /\ row.ok <= Cardinality(Answered(c, {"success"}))
  /\ row.err <= Cardinality(Answered(c, {"error"}))
StoredOf(c) == {d \in Stored : SameFunction(c, d)}
CountInv ==
  /\ \A i \in inventory : Counts(i, i.id)
  /\ \A c \in Calls : plan[c].inv # None => Counts(plan[c].inv, c)
  /\ \A g \in registrations : g.count \in 1..Cardinality(StoredOf(g.id))
  /\ \A c \in Calls : plan[c].reg # None => plan[c].reg.count \in 1..Cardinality(StoredOf(c))

\* The calls that have registered a function or still may: those that read its
\* registrations before there was one, all in flight at once.
Registrants(fn) ==
  {g.id : g \in {h \in registrations : h.fn = fn}} \cup
  {c \in InFlight : Of[c].fn = fn /\ pc[c] \notin {"inventory", "registration"}
                    /\ plan[c].reg = None}
PoolInv ==
  /\ Cardinality(InFlight) <= PoolSize
  /\ \A fn \in Functions : Cardinality(Registrants(fn)) <= PoolSize

\* A row that appears behind a request's back was inserted by one it overlapped.
OverlapInv ==
  /\ \A c, d \in InFlight :
       c # d /\ (SameFunction(c, d) \/ SameUsage(c, d)) => c \in overlap
  /\ \A c \in InFlight : c \notin overlap =>
       /\ pc[c] # "inventory" /\ plan[c].inv = None => ~KeyTaken(c)
       /\ pc[c] \notin {"inventory", "registration"} /\ plan[c].reg = None =>
            \A g \in registrations : g.fn # Of[c].fn
       /\ pc[c] \in {"flush", "rest", "alerts", "commit"} /\ Ingests(c) /\ Of[c].model # None
            /\ plan[c].use = None => \A u \in usage :
              ~(u.project = Of[c].project /\ u.model = Of[c].model)

\* So is a summary row, or a rebuild put it there, or took the one that was.
DailyTypes ==
  /\ keys \in Schemas /\ daily \in [Calls -> {"unread", "none", "row", "gone"}]
  /\ \A c \in Calls : daily[c] # "unread" => Ingests(c) /\ c \in InFlight
DailyInv ==
  /\ DailyTypes
  /\ \A c, d \in InFlight : c # d /\ SameSummary(c, d) => c \in disturbed
  /\ \A c \in InFlight : c \notin disturbed => ~ClashDaily(c)

\* What keeps a request from its commit.
Reason(c) == c \in overlap \cup disturbed \cup faulted \/ Foreign(c)
RefusedInv == \A c \in Calls : pc[c] = "poisoned" \/ answer[c] = 500 => Reason(c)

TypeInv == Shapes /\ \A c \in Calls : Progress(c)

-----------------------------------------------------------------------------
(* The rows a commit writes *)

NewItem(c) ==
  [id |-> c, project |-> Of[c].project, fn |-> Of[c].fn, total |-> 1,
   ok |-> One(c, "success"), err |-> One(c, "error")]
Item(c, r) ==
  IF r.id = plan[c].inv.id
  THEN [r EXCEPT !.total = plan[c].inv.total + 1,
                 !.ok = IF Of[c].status = "success" THEN plan[c].inv.ok + 1 ELSE @,
                 !.err = IF Of[c].status = "error" THEN plan[c].inv.err + 1 ELSE @]
  ELSE r
NewRegistration(c) == [id |-> c, fn |-> Of[c].fn, count |-> 1]
Registration(c, g) ==
  IF g.id = plan[c].reg.id THEN [g EXCEPT !.count = plan[c].reg.count + 1] ELSE g
NewUsage(c) == [id |-> c, project |-> Of[c].project, model |-> Of[c].model, count |-> 1]
Used(c, u) ==
  IF u.id = plan[c].use.id THEN [u EXCEPT !.count = plan[c].use.count + 1] ELSE u

LEMMA NoneIsNoRow ==
  /\ None \notin InventoryRow /\ None \notin RegistrationRow /\ None \notin UsageRow
  /\ None # 200 /\ None # 401 /\ None # 500
  BY DecoratorAssumption

LEMMA PlanIs ==
  ASSUME Shapes, NEW c \in Calls
  PROVE  /\ plan[c].inv # None => plan[c].inv \in InventoryRow
         /\ plan[c].reg # None => plan[c].reg \in RegistrationRow
         /\ plan[c].use # None => plan[c].use \in UsageRow
  BY DEF Shapes, Plans

LEMMA ItemIs ==
  ASSUME Shapes, NEW c \in Calls
  PROVE  /\ NewItem(c) \in InventoryRow
         /\ plan[c].inv # None => \A r \in InventoryRow :
              /\ Item(c, r) \in InventoryRow /\ Item(c, r).id = r.id
              /\ Item(c, r).fn = r.fn /\ Item(c, r).project = r.project
              /\ r.id # plan[c].inv.id => Item(c, r) = r
              /\ r.id = plan[c].inv.id =>
                   /\ Item(c, r).total = plan[c].inv.total + 1
                   /\ Item(c, r).ok =
                        IF Of[c].status = "success" THEN plan[c].inv.ok + 1 ELSE r.ok
                   /\ Item(c, r).err =
                        IF Of[c].status = "error" THEN plan[c].inv.err + 1 ELSE r.err
  <1>1. NewItem(c) \in InventoryRow
    BY DEF NewItem, InventoryRow, Projects, Functions, One
  <1>2. ASSUME plan[c].inv # None, NEW r \in InventoryRow
        PROVE  /\ Item(c, r) \in InventoryRow /\ Item(c, r).id = r.id
               /\ Item(c, r).fn = r.fn /\ Item(c, r).project = r.project
               /\ r.id # plan[c].inv.id => Item(c, r) = r
               /\ r.id = plan[c].inv.id =>
                    /\ Item(c, r).total = plan[c].inv.total + 1
                    /\ Item(c, r).ok =
                         IF Of[c].status = "success" THEN plan[c].inv.ok + 1 ELSE r.ok
                    /\ Item(c, r).err =
                         IF Of[c].status = "error" THEN plan[c].inv.err + 1 ELSE r.err
    <2>1. PICK seen \in InventoryRow : seen = plan[c].inv
      BY <1>2, PlanIs
    <2>2. seen.total \in Nat /\ seen.ok \in Nat /\ seen.err \in Nat
      BY DEF InventoryRow
    <2>3. CASE r.id # seen.id
      BY <2>1, <2>3 DEF Item
    <2>4. CASE r.id = seen.id
      <3>1. PICK ok \in Nat : ok = IF Of[c].status = "success" THEN seen.ok + 1 ELSE r.ok
        BY <2>2 DEF InventoryRow
      <3>2. PICK err \in Nat : err = IF Of[c].status = "error" THEN seen.err + 1 ELSE r.err
        BY <2>2 DEF InventoryRow
      <3>3. PICK total \in Nat : total = seen.total + 1
        BY <2>2
      <3>4. Item(c, r) = [r EXCEPT !.total = total, !.ok = ok, !.err = err]
        BY <2>1, <2>4, <3>1, <3>2, <3>3 DEF Item, InventoryRow
      <3>5. QED
        BY <2>1, <2>4, <3>1, <3>2, <3>3, <3>4 DEF InventoryRow
    <2>5. QED
      BY <2>1, <2>3, <2>4
  <1>3. QED
    BY <1>1, <1>2

LEMMA RegistrationIs ==
  ASSUME Shapes, NEW c \in Calls
  PROVE  /\ NewRegistration(c) \in RegistrationRow
         /\ plan[c].reg # None => \A g \in RegistrationRow :
              /\ Registration(c, g) \in RegistrationRow
              /\ Registration(c, g).id = g.id /\ Registration(c, g).fn = g.fn
              /\ g.id # plan[c].reg.id => Registration(c, g) = g
              /\ g.id = plan[c].reg.id => Registration(c, g).count = plan[c].reg.count + 1
  <1>1. NewRegistration(c) \in RegistrationRow
    BY DEF NewRegistration, RegistrationRow, Functions
  <1>2. plan[c].reg # None => plan[c].reg.count \in Nat
    BY PlanIs DEF RegistrationRow
  <1>3. QED
    BY <1>1, <1>2 DEF Registration, RegistrationRow

LEMMA UsedIs ==
  ASSUME Shapes, NEW c \in Calls
  PROVE  /\ NewUsage(c) \in UsageRow
         /\ plan[c].use # None => \A u \in UsageRow :
              /\ Used(c, u) \in UsageRow /\ Used(c, u).id = u.id
              /\ Used(c, u).project = u.project /\ Used(c, u).model = u.model
  <1>1. NewUsage(c) \in UsageRow
    BY DEF NewUsage, UsageRow, Projects, Models
  <1>2. plan[c].use # None => plan[c].use.count \in Nat
    BY PlanIs DEF UsageRow
  <1>3. QED
    BY <1>1, <1>2 DEF Used, UsageRow

LEMMA CommitWrites ==
  ASSUME NEW c \in Calls, Commit(c)
  PROVE  /\ inventory' = IF plan[c].inv = None THEN inventory \cup {NewItem(c)}
                         ELSE {Item(c, r) : r \in inventory}
         /\ registrations' = IF plan[c].reg = None THEN registrations \cup {NewRegistration(c)}
                             ELSE {Registration(c, g) : g \in registrations}
         /\ usage' = IF ~Ingests(c) \/ Of[c].model = None THEN usage
                     ELSE IF plan[c].use = None THEN usage \cup {NewUsage(c)}
                     ELSE {Used(c, u) : u \in usage}
  BY DEF Commit, CountedInventory, CountedRegistration, CountedUsage, Written, NewItem, Item,
         NewRegistration, Registration, NewUsage, Used

-----------------------------------------------------------------------------
(* Types *)

LEMMA TypeInit == Init => TypeInv
  <1> SUFFICES ASSUME Init PROVE TypeInv
    OBVIOUS
  <1>1. MaxFaults \in Nat
    BY DecoratorAssumption
  <1>2. Shapes
    BY <1>1 DEF Init, Shapes, Plans, NoPlan, Flying
  <1>3. \A c \in Calls : Progress(c)
    BY DEF Init, Progress
  <1>4. QED
    BY <1>2, <1>3 DEF TypeInv

LEMMA FirstIs ==
  ASSUME NEW S, NEW r \in First(S)
  PROVE  r \in S \/ (r = None /\ S = {})
  BY DEF First

LEMMA TypeStep ==
  ASSUME TypeInv, [Next]_vars
  PROVE  TypeInv'
  <1>1. Shapes /\ \A c \in Calls : Progress(c)
    BY DEF TypeInv
  <1>2. NoPlan \in Plans /\ MaxFaults \in Nat
    BY DecoratorAssumption DEF NoPlan, Plans
  <1>3. ASSUME NEW c \in Calls, Lose(c) PROVE TypeInv'
    <2>1. faults' \in 0..MaxFaults /\ faulted' = faulted \cup {c}
      BY <1>1, <1>2, <1>3 DEF Lose, Fault, Shapes
    <2>2. Shapes'
      BY <1>1, <1>3, <2>1 DEF Lose, Goto, Shapes, tables
    <2>3. ASSUME NEW d \in Calls PROVE Progress(d)'
      BY <1>1, <1>3, <2>1 DEF Lose, Goto, Shapes, Progress, Ingests
    <2>4. QED
      BY <2>2, <2>3 DEF TypeInv
  <1>4. ASSUME NEW c \in Calls, Receive(c) \/ PoolTimeout(c) PROVE TypeInv'
    <2>1. /\ UNCHANGED <<tables, faulted, faults>>
          /\ \/ Finished(c, 401) \/ Finished(c, 500)
             \/ UNCHANGED <<answer, plan, event>> /\ Goto(c, "inventory")
      BY <1>4 DEF Receive, PoolTimeout
    <2>2. Shapes'
      BY <1>1, <1>2, <2>1 DEF Finished, Goto, Shapes, tables, Flying
    <2>3. pc[c] = "sent"
      BY <1>4 DEF Receive, PoolTimeout
    <2>4. ASSUME NEW d \in Calls PROVE Progress(d)'
      BY <1>1, <2>1, <2>3 DEF Finished, Goto, Shapes, Progress, Ingests
    <2>5. QED
      BY <2>2, <2>4 DEF TypeInv
  <1>5. ASSUME NEW c \in Calls, ReadInventory(c) \/ ReadRegistration(c) \/ ReadUsage(c)
        PROVE  TypeInv'
    <2>1. /\ pc[c] \notin {"sent", "done"} /\ UNCHANGED <<answer, event, tables, faulted, faults>>
          /\ \E step \in {"registration", "usage", "flush"} : Goto(c, step)
      BY <1>5 DEF ReadInventory, ReadRegistration, ReadUsage
    <2>2. plan' \in [Calls -> Plans]
      <3>1. \/ \E r \in InventoryRow \cup {None} : plan' = [plan EXCEPT ![c].inv = r]
            \/ \E r \in RegistrationRow \cup {None} : plan' = [plan EXCEPT ![c].reg = r]
            \/ \E r \in UsageRow \cup {None} : plan' = [plan EXCEPT ![c].use = r]
        <4>1. ReadInventory(c) =>
                \E r \in InventoryRow \cup {None} : plan' = [plan EXCEPT ![c].inv = r]
          BY <1>1 DEF ReadInventory, First, Shapes
        <4>2. ReadRegistration(c) =>
                \E r \in RegistrationRow \cup {None} : plan' = [plan EXCEPT ![c].reg = r]
          BY <1>1 DEF ReadRegistration, First, Shapes
        <4>3. ReadUsage(c) => \E r \in UsageRow \cup {None} : plan' = [plan EXCEPT ![c].use = r]
          BY <1>1 DEF ReadUsage, First, Shapes
        <4>4. QED
          BY <1>5, <4>1, <4>2, <4>3
      <3>2. QED
        BY <1>1, <3>1 DEF Shapes, Plans
    <2>3. Shapes'
      <3>1. pc' \in [Calls -> Flying \cup {"sent", "done"}]
        BY <1>1, <2>1 DEF Goto, Shapes, Flying
      <3>2. QED
        BY <1>1, <2>1, <2>2, <3>1 DEF Shapes, tables
    <2>4. ASSUME NEW d \in Calls PROVE Progress(d)'
      BY <1>1, <2>1 DEF Goto, Shapes, Progress, Ingests
    <2>5. QED
      BY <2>3, <2>4 DEF TypeInv
  <1>6. ASSUME NEW c \in Calls, FlushIngest(c) \/ FlushUpsert(c) \/ FailEarly(c)
        PROVE  TypeInv'
    <2>1. /\ pc[c] = "flush" /\ UNCHANGED <<answer, plan, tables>>
          /\ \/ Goto(c, "poisoned") /\ UNCHANGED event
             \/ Goto(c, "rest") /\ event' = [event EXCEPT ![c] = "flushed"] /\ Ingests(c)
             \/ /\ Goto(c, "commit") /\ UNCHANGED event
                /\ ~Ingests(c) \/ faulted' = faulted \cup {c}
      BY <1>6 DEF FlushIngest, FlushUpsert, FailEarly, Flush, Fault
    <2>2. faulted \subseteq faulted' /\ faults' \in 0..MaxFaults
      <3>1. FailEarly(c) => faulted \subseteq faulted' /\ faults' \in 0..MaxFaults
        BY <1>1, <1>2 DEF FailEarly, Fault, Shapes
      <3>2. FlushIngest(c) \/ FlushUpsert(c) => faulted' = faulted /\ faults' = faults
        BY DEF FlushIngest, FlushUpsert
      <3>3. QED
        BY <1>1, <1>6, <3>1, <3>2 DEF Shapes
    <2>3. Shapes'
      BY <1>1, <2>1, <2>2 DEF Goto, Shapes, tables, Flying
    <2>4. ASSUME NEW d \in Calls PROVE Progress(d)'
      BY <1>1, <2>1, <2>2 DEF Goto, Shapes, Progress, Ingests
    <2>5. QED
      BY <2>3, <2>4 DEF TypeInv
  <1>7. ASSUME NEW c \in Calls, ReadSummary(c) \/ Link(c) PROVE TypeInv'
    <2>1. /\ pc[c] \in {"rest", "alerts"}
          /\ UNCHANGED <<answer, plan, tables, faulted, faults>>
          /\ \/ Goto(c, "commit") /\ event' = [event EXCEPT ![c] = "linked"]
             \/ \E step \in {"alerts", "poisoned"} : Goto(c, step) /\ UNCHANGED event
      BY <1>7 DEF ReadSummary, Link
    <2>2. Shapes'
      BY <1>1, <2>1 DEF Goto, Shapes, tables, Flying
    <2>3. ASSUME NEW d \in Calls PROVE Progress(d)'
      BY <1>1, <2>1 DEF Goto, Shapes, Progress, Ingests
    <2>4. QED
      BY <2>2, <2>3 DEF TypeInv
  <1>8. ASSUME NEW c \in Calls, FailLate(c) PROVE TypeInv'
    <2>1. /\ faults' \in 0..MaxFaults /\ faulted' = faulted \cup {c}
          /\ pc[c] \in {"rest", "alerts"}
          /\ UNCHANGED <<answer, plan, event, tables>>
          /\ \E step \in {"commit", "poisoned"} : Goto(c, step)
      BY <1>1, <1>2, <1>8 DEF FailLate, Fault, Shapes
    <2>2. Shapes'
      BY <1>1, <2>1 DEF Goto, Shapes, tables, Flying
    <2>3. ASSUME NEW d \in Calls PROVE Progress(d)'
      BY <1>1, <2>1 DEF Goto, Shapes, Progress, Ingests
    <2>4. QED
      BY <2>2, <2>3 DEF TypeInv
  <1>9. ASSUME NEW c \in Calls, Commit(c) PROVE TypeInv'
    <2>1. inventory' \subseteq InventoryRow
      BY <1>1, <1>9, CommitWrites, ItemIs DEF Shapes
    <2>2. registrations' \subseteq RegistrationRow
      BY <1>1, <1>9, CommitWrites, RegistrationIs DEF Shapes
    <2>3. usage' \subseteq UsageRow
      BY <1>1, <1>9, CommitWrites, UsedIs DEF Shapes
    <2>4. /\ logs' \subseteq [call : Calls, linked : BOOLEAN] /\ Finished(c, 200)
          /\ UNCHANGED <<faulted, faults>>
      <3>1. PICK linked \in BOOLEAN : linked = (event[c] = "linked")
        OBVIOUS
      <3>2. logs' = IF Ingests(c) THEN logs \cup {[call |-> c, linked |-> linked]} ELSE logs
        BY <1>9, <3>1 DEF Commit
      <3>3. Finished(c, 200) /\ UNCHANGED <<faulted, faults>>
        BY <1>9 DEF Commit
      <3>4. QED
        BY <1>1, <3>2, <3>3 DEF Shapes
    <2>5. Shapes'
      BY <1>1, <1>2, <2>1, <2>2, <2>3, <2>4 DEF Finished, Goto, Shapes, Flying
    <2>6. ASSUME NEW d \in Calls PROVE Progress(d)'
      BY <1>1, <2>4 DEF Finished, Goto, Shapes, Progress, Ingests
    <2>7. QED
      BY <2>5, <2>6 DEF TypeInv
  <1>10. ASSUME NEW c \in Calls, Raise(c) PROVE TypeInv'
    <2>1. Shapes'
      BY <1>1, <1>2, <1>10 DEF Raise, Finished, Goto, Shapes, tables, Flying
    <2>2. ASSUME NEW d \in Calls PROVE Progress(d)'
      BY <1>1, <1>10 DEF Raise, Finished, Goto, Shapes, Progress, Ingests
    <2>3. QED
      BY <2>1, <2>2 DEF TypeInv
  <1>11. ASSUME Restart PROVE TypeInv'
    <2>1. faults' \in 0..MaxFaults
      BY <1>1, <1>2, <1>11 DEF Restart, Shapes
    <2>2. Shapes'
      BY <1>1, <1>2, <1>11, <2>1 DEF Restart, Shapes, tables
    <2>3. ASSUME NEW d \in Calls PROVE Progress(d)'
      BY <1>1, <1>11 DEF Restart, Shapes, Progress, Ingests, InFlight
    <2>4. QED
      BY <2>2, <2>3 DEF TypeInv
  <1>12. CASE UNCHANGED vars \/ Rebuild
    BY <1>1, <1>12 DEF Rebuild, vars, tables, TypeInv, Shapes, Progress, Ingests
  <1>13. QED
    BY <1>3, <1>4, <1>5, <1>6, <1>7, <1>8, <1>9, <1>10, <1>11, <1>12 DEF Next, Serve

LEMMA TypeAlways == Spec => []TypeInv
  <1>1. TypeInv /\ [Next]_vars => TypeInv'
    BY TypeStep
  <1>2. QED
    BY TypeInit, <1>1, PTL DEF Spec

-----------------------------------------------------------------------------
(* The audit trail *)

LEMMA OnlyCommits ==
  ASSUME TypeInv, [Next]_vars
  PROVE  /\ UNCHANGED <<tables, Stored>> \/ \E c \in Calls : Commit(c)
         /\ faulted \subseteq faulted' /\ overlap \subseteq overlap' /\ keys' = keys
  <1>1. Shapes /\ \A c \in Calls : Progress(c)
    BY DEF TypeInv
  <1>2. ASSUME NEW c \in Calls, pc[c] # "done", NEW code \in {401, 500}, Finished(c, code)
        PROVE  Stored' = Stored
    <2>1. answer[c] # 200 /\ code # 200
      BY <1>1, <1>2, NoneIsNoRow DEF Progress
    <2>2. answer' = [answer EXCEPT ![c] = code]
      BY <1>2 DEF Finished
    <2>3. \A d \in Calls : answer'[d] = 200 <=> answer[d] = 200
      BY <1>1, <2>1, <2>2 DEF Shapes
    <2>4. QED
      BY <2>3 DEF Stored
  <1>3. answer' = answer => Stored' = Stored
    BY DEF Stored
  <1>4. ASSUME NEW c \in Calls, Receive(c) \/ PoolTimeout(c)
        PROVE  UNCHANGED <<tables, Stored, faulted, keys>> /\ overlap \subseteq overlap'
    <2>1. UNCHANGED <<tables, faulted, keys>> /\ overlap \subseteq overlap' /\ pc[c] # "done"
      BY <1>4 DEF Receive, PoolTimeout
    <2>2. Finished(c, 401) \/ Finished(c, 500) \/ answer' = answer
      BY <1>4 DEF Receive, PoolTimeout
    <2>3. QED
      BY <1>2, <1>3, <2>1, <2>2
  <1>5. ASSUME NEW c \in Calls,
               Lose(c) \/ ReadInventory(c) \/ ReadRegistration(c) \/ ReadUsage(c) \/ FlushIngest(c)
                 \/ FlushUpsert(c) \/ ReadSummary(c) \/ Link(c) \/ FailEarly(c) \/ FailLate(c)
        PROVE  UNCHANGED <<tables, answer, overlap, keys>> /\ faulted \subseteq faulted'
    BY <1>5 DEF Lose, ReadInventory, ReadRegistration, ReadUsage, FlushIngest, FlushUpsert,
                ReadSummary, Link, FailEarly, FailLate, Flush, Fault, day
  <1>6. ASSUME NEW c \in Calls, Raise(c)
        PROVE  UNCHANGED <<tables, Stored, faulted, overlap, keys>>
    <2>1. UNCHANGED <<tables, faulted, overlap, keys>> /\ pc[c] # "done" /\ Finished(c, 500)
      BY <1>6 DEF Raise
    <2>2. QED
      BY <1>2, <2>1
  <1>7. ASSUME Restart \/ Rebuild
        PROVE  UNCHANGED <<tables, answer, overlap, keys>> /\ faulted \subseteq faulted'
    BY <1>7 DEF Restart, Rebuild
  <1>8. \A c \in Calls : Commit(c) => UNCHANGED <<overlap, faulted, keys>>
    BY DEF Commit
  <1>9. CASE UNCHANGED vars
    BY <1>3, <1>9 DEF vars, day
  <1>10. QED
    BY <1>3, <1>4, <1>5, <1>6, <1>7, <1>8, <1>9 DEF Next, Serve

LEMMA CommitStores ==
  ASSUME TypeInv, NEW c \in Calls, Commit(c)
  PROVE  /\ Stored' = Stored \cup {c} /\ c \notin Stored /\ c \in InFlight
         /\ InFlight' = InFlight \ {c} /\ pc[c] = "commit" /\ pc'[c] = "done"
         /\ UNCHANGED <<overlap, faulted, faults>>
         /\ \A d \in Calls \ {c} :
              pc'[d] = pc[d] /\ plan'[d] = plan[d] /\ answer'[d] = answer[d]
         /\ plan'[c] = NoPlan /\ answer'[c] = 200
  <1>1. Shapes /\ \A d \in Calls : Progress(d)
    BY DEF TypeInv
  <1>2. /\ pc[c] = "commit" /\ Finished(c, 200)
        /\ UNCHANGED <<overlap, faulted, faults>>
    BY DEF Commit
  <1>3. answer' = [answer EXCEPT ![c] = 200] /\ plan' = [plan EXCEPT ![c] = NoPlan]
        /\ pc' = [pc EXCEPT ![c] = "done"]
    BY <1>2 DEF Finished, Goto
  <1>4. c \notin Stored
    BY <1>1, <1>2, NoneIsNoRow DEF Progress, Stored
  <1>5. Stored' = Stored \cup {c}
    BY <1>1, <1>3 DEF Stored, Shapes
  <1>6. c \in InFlight /\ InFlight' = InFlight \ {c}
    BY <1>1, <1>2, <1>3 DEF InFlight, Shapes
  <1>7. QED
    BY <1>1, <1>2, <1>3, <1>4, <1>5, <1>6 DEF Shapes

LEMMA TrailStep ==
  ASSUME TypeInv, TrailInv, [Next]_vars
  PROVE  TrailInv'
  <1>1. Shapes /\ \A d \in Calls : Progress(d)
    BY DEF TypeInv
  <1>2. CASE UNCHANGED <<tables, Stored>>
    <2>1. faulted \subseteq faulted' /\ logs' = logs /\ events' = events
      BY <1>2, OnlyCommits DEF tables
    <2>2. QED
      BY <1>2, <2>1 DEF TrailInv, Ingests
  <1>3. ASSUME NEW c \in Calls, Commit(c) PROVE TrailInv'
    <2>1. Stored' = Stored \cup {c} /\ c \notin Stored /\ pc[c] = "commit" /\ faulted' = faulted
      BY <1>3, CommitStores
    <2>2. PICK linked \in BOOLEAN : linked = (event[c] = "linked")
      OBVIOUS
    <2>3. logs' = IF Ingests(c) THEN logs \cup {[call |-> c, linked |-> linked]} ELSE logs
      BY <1>3, <2>2 DEF Commit
    <2>4. events' = IF event[c] = "none" THEN events ELSE events \cup {c}
      BY <1>3 DEF Commit
    <2>5. /\ event[c] # "none" => Ingests(c)
          /\ Ingests(c) /\ c \notin faulted => linked
          /\ linked => event[c] # "none"
      BY <1>1, <2>1, <2>2 DEF Progress
    <2>6. CASE ~Ingests(c)
      <3>1. logs' = logs /\ events' = events
        BY <2>3, <2>4, <2>5, <2>6
      <3>2. QED
        BY <2>1, <2>6, <3>1 DEF TrailInv, Ingests
    <2>7. CASE Ingests(c)
      <3>1. PICK new : new = [call |-> c, linked |-> linked]
        OBVIOUS
      <3>2. logs' = logs \cup {new} /\ new.call = c /\ new.linked = linked
        BY <2>3, <2>7, <3>1
      <3>3. events \subseteq events' /\ events' \subseteq events \cup {c}
            /\ (linked => c \in events')
        BY <2>4, <2>5
      <3>4. \A l \in logs : l.call # c /\ l.call \in Stored
        BY <2>1 DEF TrailInv
      <3>5. \A l \in logs' : /\ l.call \in Stored' /\ Ingests(l.call)
                             /\ l.linked => l.call \in events'
        BY <2>1, <2>7, <3>2, <3>3 DEF TrailInv
      <3>6. \A l, k \in logs' : l.call = k.call => l = k
        BY <3>2, <3>4 DEF TrailInv
      <3>7. \A d \in Stored' : Ingests(d) =>
              \E l \in logs' : l.call = d /\ (d \notin faulted' => l.linked /\ d \in events')
        BY <2>1, <2>5, <2>7, <3>2, <3>3 DEF TrailInv
      <3>8. \A d \in events' : \E l \in logs' : l.call = d
        BY <3>2, <3>3 DEF TrailInv
      <3>9. QED
        BY <3>5, <3>6, <3>7, <3>8 DEF TrailInv, Ingests
    <2>8. QED
      BY <2>6, <2>7
  <1>4. QED
    BY <1>2, <1>3, OnlyCommits

-----------------------------------------------------------------------------
(* Rows and what requests have read of them *)

\* A step changes what a call has read only by its own read, or by ending its request.
LEMMA ReadsOnly ==
  ASSUME TypeInv, [Next]_vars, NEW d \in Calls
  PROVE  \/ plan'[d] = plan[d] \/ plan'[d] = NoPlan
         \/ /\ ReadInventory(d) /\ UNCHANGED tables
            /\ \E r \in First({i \in inventory : i.fn = Of[d].fn /\ i.project = Of[d].project}) :
                 plan'[d] = [plan[d] EXCEPT !.inv = r]
         \/ /\ ReadRegistration(d) /\ UNCHANGED tables
            /\ \E r \in First({g \in registrations : g.fn = Of[d].fn}) :
                 plan'[d] = [plan[d] EXCEPT !.reg = r]
         \/ /\ ReadUsage(d) /\ UNCHANGED tables
            /\ \E r \in First({u \in usage : u.project = Of[d].project /\ u.model = Of[d].model}) :
                 plan'[d] = [plan[d] EXCEPT !.use = r]
  <1>1. Shapes
    BY DEF TypeInv
  <1>2. plan \in [Calls -> Plans]
    BY <1>1 DEF Shapes
  <1>3. ASSUME NEW c \in Calls,
               Lose(c) \/ FlushIngest(c) \/ FlushUpsert(c) \/ ReadSummary(c) \/ Link(c)
                 \/ FailEarly(c) \/ FailLate(c)
        PROVE  plan' = plan
    BY <1>3 DEF Lose, FlushIngest, FlushUpsert, ReadSummary, Link, FailEarly, FailLate, Flush
  <1>4. ASSUME NEW c \in Calls, Receive(c) \/ PoolTimeout(c) \/ Raise(c) \/ Commit(c)
        PROVE  plan' = plan \/ plan' = [plan EXCEPT ![c] = NoPlan]
    BY <1>4 DEF Receive, PoolTimeout, Raise, Commit, Finished
  <1>5. Restart => plan'[d] \in {plan[d], NoPlan}
    BY DEF Restart
  <1>6. ASSUME NEW c \in Calls, c # d, ReadInventory(c) \/ ReadRegistration(c) \/ ReadUsage(c)
        PROVE  plan'[d] = plan[d]
    BY <1>2, <1>6 DEF ReadInventory, ReadRegistration, ReadUsage
  <1>7. ReadInventory(d) =>
          /\ UNCHANGED tables
          /\ \E r \in First({i \in inventory : i.fn = Of[d].fn /\ i.project = Of[d].project}) :
               plan'[d] = [plan[d] EXCEPT !.inv = r]
    BY <1>2 DEF ReadInventory
  <1>8. ReadRegistration(d) =>
          /\ UNCHANGED tables
          /\ \E r \in First({g \in registrations : g.fn = Of[d].fn}) :
               plan'[d] = [plan[d] EXCEPT !.reg = r]
    BY <1>2 DEF ReadRegistration
  <1>9. ReadUsage(d) =>
          /\ UNCHANGED tables
          /\ \E r \in First({u \in usage : u.project = Of[d].project /\ u.model = Of[d].model}) :
               plan'[d] = [plan[d] EXCEPT !.use = r]
    BY <1>2 DEF ReadUsage
  <1>10. CASE UNCHANGED vars \/ Rebuild
    BY <1>10 DEF vars, Rebuild
  <1>11. CASE \E c \in Calls : ReadInventory(c) \/ ReadRegistration(c) \/ ReadUsage(c)
    BY <1>6, <1>7, <1>8, <1>9, <1>11
  <1>12. CASE \E c \in Calls : Receive(c) \/ PoolTimeout(c) \/ Raise(c) \/ Commit(c)
    BY <1>2, <1>4, <1>12
  <1>13. QED
    BY <1>3, <1>5, <1>10, <1>11, <1>12 DEF Next, Serve

\* What a call then knows of the inventory and of the registrations.
LEMMA ReadsKnow ==
  ASSUME TypeInv, [Next]_vars, NEW d \in Calls
  PROVE  /\ \/ plan'[d].inv = plan[d].inv \/ plan'[d].inv = None
            \/ /\ UNCHANGED tables /\ plan'[d].inv \in inventory
               /\ plan'[d].inv.fn = Of[d].fn /\ plan'[d].inv.project = Of[d].project
         /\ \/ plan'[d].reg = plan[d].reg \/ plan'[d].reg = None
            \/ /\ UNCHANGED tables /\ plan'[d].reg \in registrations
               /\ plan'[d].reg.fn = Of[d].fn
  <1>1. plan[d] \in Plans
    BY DEF TypeInv, Shapes
  <1>2. NoPlan.inv = None /\ NoPlan.reg = None
    BY DEF NoPlan
  <1>3. \A r : /\ [plan[d] EXCEPT !.inv = r].inv = r /\ [plan[d] EXCEPT !.inv = r].reg = plan[d].reg
               /\ [plan[d] EXCEPT !.reg = r].reg = r /\ [plan[d] EXCEPT !.reg = r].inv = plan[d].inv
               /\ [plan[d] EXCEPT !.use = r].reg = plan[d].reg
               /\ [plan[d] EXCEPT !.use = r].inv = plan[d].inv
    BY <1>1 DEF Plans
  <1>4. CASE plan'[d] = plan[d] \/ plan'[d] = NoPlan
    BY <1>2, <1>4
  <1>5. CASE \E r \in First({i \in inventory : i.fn = Of[d].fn /\ i.project = Of[d].project}) :
               plan'[d] = [plan[d] EXCEPT !.inv = r] /\ UNCHANGED tables
    <2>1. PICK r \in First({i \in inventory : i.fn = Of[d].fn /\ i.project = Of[d].project}) :
            plan'[d] = [plan[d] EXCEPT !.inv = r] /\ UNCHANGED tables
      BY <1>5
    <2>2. r = None \/ (r \in inventory /\ r.fn = Of[d].fn /\ r.project = Of[d].project)
      BY FirstIs
    <2>3. plan'[d].inv = r /\ plan'[d].reg = plan[d].reg
      BY <1>3, <2>1
    <2>4. QED
      BY <2>1, <2>2, <2>3
  <1>6. CASE \E r \in First({g \in registrations : g.fn = Of[d].fn}) :
               plan'[d] = [plan[d] EXCEPT !.reg = r] /\ UNCHANGED tables
    <2>1. PICK r \in First({g \in registrations : g.fn = Of[d].fn}) :
            plan'[d] = [plan[d] EXCEPT !.reg = r] /\ UNCHANGED tables
      BY <1>6
    <2>2. r = None \/ (r \in registrations /\ r.fn = Of[d].fn)
      BY FirstIs
    <2>3. plan'[d].reg = r /\ plan'[d].inv = plan[d].inv
      BY <1>3, <2>1
    <2>4. QED
      BY <2>1, <2>2, <2>3
  <1>7. CASE \E r : plan'[d] = [plan[d] EXCEPT !.use = r]
    BY <1>3, <1>7
  <1>8. QED
    BY <1>4, <1>5, <1>6, <1>7, ReadsOnly

LEMMA IdStep ==
  ASSUME TypeInv, IdInv, [Next]_vars
  PROVE  IdInv'
  <1>1. Shapes /\ \A d \in Calls : Progress(d)
    BY DEF TypeInv
  <1>2. ASSUME NEW d \in Calls
        PROVE  /\ plan'[d].inv # None => SameInventory(plan'[d].inv.id, d)
               /\ plan'[d].reg # None => SameFunction(plan'[d].reg.id, d)
    BY ReadsKnow DEF IdInv, SameInventory, SameFunction
  <1>3. CASE UNCHANGED <<tables, Stored>>
    BY <1>2, <1>3 DEF IdInv, tables, SameInventory, SameFunction, Ingests
  <1>4. ASSUME NEW c \in Calls, Commit(c) PROVE IdInv'
    <2>1. Stored' = Stored \cup {c} /\ c \notin Stored
      BY <1>4, CommitStores
    <2>2. /\ \A i \in inventory' :
               i.id \in Stored' /\ i.fn = Of[i.id].fn /\ i.project = Of[i.id].project
          /\ \A i, j \in inventory' : i.id = j.id => i = j
      <3>1. CASE plan[c].inv = None
        <4>1. inventory' = inventory \cup {NewItem(c)}
          BY <1>4, <3>1, CommitWrites
        <4>2. NewItem(c).id = c /\ NewItem(c).fn = Of[c].fn /\ NewItem(c).project = Of[c].project
          BY DEF NewItem
        <4>3. QED
          BY <2>1, <4>1, <4>2 DEF IdInv
      <3>2. CASE plan[c].inv # None
        <4>1. inventory' = {Item(c, r) : r \in inventory}
          BY <1>4, <3>2, CommitWrites
        <4>2. \A r \in inventory : /\ Item(c, r).id = r.id /\ Item(c, r).fn = r.fn
                                   /\ Item(c, r).project = r.project
          BY <1>1, <3>2, ItemIs DEF Shapes
        <4>3. QED
          BY <2>1, <4>1, <4>2 DEF IdInv
      <3>3. QED
        BY <3>1, <3>2
    <2>3. /\ \A g \in registrations' : g.id \in Stored' /\ g.fn = Of[g.id].fn
          /\ \A g, h \in registrations' : g.id = h.id => g = h
      <3>1. CASE plan[c].reg = None
        <4>1. registrations' = registrations \cup {NewRegistration(c)}
          BY <1>4, <3>1, CommitWrites
        <4>2. NewRegistration(c).id = c /\ NewRegistration(c).fn = Of[c].fn
          BY DEF NewRegistration
        <4>3. QED
          BY <2>1, <4>1, <4>2 DEF IdInv
      <3>2. CASE plan[c].reg # None
        <4>1. registrations' = {Registration(c, g) : g \in registrations}
          BY <1>4, <3>2, CommitWrites
        <4>2. \A g \in registrations : Registration(c, g).id = g.id /\ Registration(c, g).fn = g.fn
          BY <1>1, <3>2, RegistrationIs DEF Shapes
        <4>3. QED
          BY <2>1, <4>1, <4>2 DEF IdInv
      <3>3. QED
        BY <3>1, <3>2
    <2>4. \A u \in usage' :
            /\ u.id \in Stored' /\ u.project = Of[u.id].project /\ u.model = Of[u.id].model
            /\ Ingests(u.id) /\ u.model # None
      <3>1. CASE ~Ingests(c) \/ Of[c].model = None
        <4>1. usage' = usage
          BY <1>4, <3>1, CommitWrites
        <4>2. QED
          BY <2>1, <4>1 DEF IdInv
      <3>2. CASE Ingests(c) /\ Of[c].model # None /\ plan[c].use = None
        <4>1. usage' = usage \cup {NewUsage(c)}
          BY <1>4, <3>2, CommitWrites
        <4>2. /\ NewUsage(c).id = c /\ NewUsage(c).project = Of[c].project
              /\ NewUsage(c).model = Of[c].model
          BY DEF NewUsage
        <4>3. QED
          BY <2>1, <3>2, <4>1, <4>2 DEF IdInv
      <3>3. CASE Ingests(c) /\ Of[c].model # None /\ plan[c].use # None
        <4>1. usage' = {Used(c, u) : u \in usage}
          BY <1>4, <3>3, CommitWrites
        <4>2. \A u \in usage : /\ Used(c, u).id = u.id /\ Used(c, u).project = u.project
                               /\ Used(c, u).model = u.model
          BY <1>1, <3>3, UsedIs DEF Shapes
        <4>3. QED
          BY <2>1, <4>1, <4>2 DEF IdInv
      <3>4. QED
        BY <3>1, <3>2, <3>3
    <2>5. QED
      BY <1>2, <2>2, <2>3, <2>4 DEF IdInv, SameInventory, SameFunction, Ingests
  <1>5. QED
    BY <1>3, <1>4, OnlyCommits

-----------------------------------------------------------------------------
(* Rows and keys held between the flush and the commit *)

LEMMA WaitsBoth ==
  ASSUME NEW c, NEW d, Waits(c, d)
  PROVE  Waits(d, c)
  <1>1. /\ SameFunction(c, d) => SameFunction(d, c)
        /\ SameUsage(c, d) => SameUsage(d, c) /\ Of[c].project = Of[d].project
        /\ KeyedRegistration(c, d) => KeyedRegistration(d, c)
        /\ KeyedInventory(c, Of[d].project) => KeyedInventory(d, Of[c].project)
    BY DEF SameFunction, SameUsage, KeyedRegistration, KeyedInventory
  <1>2. SameUsage(c, d) /\ KeyedUsage(c) => KeyedUsage(d)
    BY <1>1 DEF KeyedUsage
  <1>3. QED
    BY <1>1, <1>2 DEF Waits

\* A call holds because it did, or because its flush found nobody to wait for.
LEMMA HoldsBy ==
  ASSUME TypeInv, [Next]_vars, NEW d \in Calls, Holding(d)'
  PROVE  /\ plan'[d] = plan[d]
         /\ \/ Holding(d)
            \/ /\ pc[d] = "flush" /\ ~Clash(d) /\ UNCHANGED tables
               /\ \A e \in Calls \ {d} : (Holding(e) => ~Waits(d, e)) /\ pc'[e] = pc[e]
  <1>1. Shapes
    BY DEF TypeInv
  <1>2. pc \in [Calls -> Flying \cup {"sent", "done"}] /\ plan \in [Calls -> Plans]
    BY <1>1 DEF Shapes
  <1>3. pc'[d] \in {"rest", "alerts", "commit"}
    BY DEF Holding
  <1>4. ASSUME NEW c \in Calls, FlushIngest(c) \/ FlushUpsert(c) \/ FailEarly(c)
        PROVE  /\ plan' = plan
               /\ \/ d # c /\ pc'[d] = pc[d]
                  \/ /\ d = c /\ pc[d] = "flush" /\ ~Clash(d) /\ UNCHANGED tables
                     /\ \A e \in Calls \ {d} : (Holding(e) => ~Waits(d, e)) /\ pc'[e] = pc[e]
    BY <1>2, <1>3, <1>4 DEF FlushIngest, FlushUpsert, FailEarly, Flush, Goto
  <1>5. ASSUME NEW c \in Calls, ReadSummary(c) \/ Link(c) \/ FailLate(c)
        PROVE  plan' = plan /\ (pc'[d] = pc[d] \/ pc[d] \in {"rest", "alerts"})
    BY <1>2, <1>5 DEF ReadSummary, Link, FailLate, Goto
  <1>6. ASSUME NEW c \in Calls,
               Lose(c) \/ Receive(c) \/ PoolTimeout(c) \/ Raise(c) \/ Commit(c)
        PROVE  pc'[d] = pc[d] /\ plan'[d] = plan[d]
    BY <1>2, <1>3, <1>6 DEF Lose, Receive, PoolTimeout, Raise, Commit, Finished, Goto
  <1>7. ASSUME NEW c \in Calls, ReadInventory(c) \/ ReadRegistration(c) \/ ReadUsage(c)
        PROVE  pc'[d] = pc[d] /\ plan'[d] = plan[d]
    BY <1>2, <1>3, <1>7 DEF ReadInventory, ReadRegistration, ReadUsage, Goto
  <1>8. ASSUME Restart PROVE pc'[d] = pc[d] /\ plan'[d] = plan[d]
    BY <1>2, <1>3, <1>8 DEF Restart
  <1>9. CASE UNCHANGED vars \/ Rebuild
    BY <1>3, <1>9 DEF vars, Rebuild, Holding
  <1>10. QED
    BY <1>3, <1>4, <1>5, <1>6, <1>7, <1>8, <1>9 DEF Next, Serve, Holding

\* The keys of the inventory only grow, by that of a commit that found no row.
LEMMA KeysGrow ==
  ASSUME TypeInv, NEW c \in Calls, Commit(c), NEW i \in inventory'
  PROVE  \/ \E r \in inventory : i.fn = r.fn /\ i.project = r.project /\ i.id = r.id
         \/ plan[c].inv = None /\ i = NewItem(c) /\ i.fn = Of[c].fn /\ i.project = Of[c].project
  <1>1. Shapes
    BY DEF TypeInv
  <1>2. CASE plan[c].inv = None
    BY <1>2, CommitWrites DEF NewItem
  <1>3. CASE plan[c].inv # None
    <2>1. PICK r \in inventory : i = Item(c, r)
      BY <1>3, CommitWrites
    <2>2. i.id = r.id /\ i.fn = r.fn /\ i.project = r.project
      BY <1>1, <1>3, <2>1, ItemIs DEF Shapes
    <2>3. QED
      BY <2>2
  <1>4. QED
    BY <1>2, <1>3

\* So do those of the registrations.
LEMMA NamesGrow ==
  ASSUME TypeInv, NEW c \in Calls, Commit(c), NEW g \in registrations'
  PROVE  \/ \E h \in registrations : g.fn = h.fn /\ g.id = h.id
         \/ plan[c].reg = None /\ g = NewRegistration(c) /\ g.fn = Of[c].fn /\ g.id = c
  <1>1. Shapes
    BY DEF TypeInv
  <1>2. CASE plan[c].reg = None
    BY <1>2, CommitWrites DEF NewRegistration
  <1>3. CASE plan[c].reg # None
    <2>1. PICK h \in registrations : g = Registration(c, h)
      BY <1>3, CommitWrites
    <2>2. g.id = h.id /\ g.fn = h.fn
      BY <1>1, <1>3, <2>1, RegistrationIs DEF Shapes
    <2>3. QED
      BY <2>2
  <1>4. QED
    BY <1>2, <1>3

LEMMA HolderStep ==
  ASSUME TypeInv, HolderInv, [Next]_vars
  PROVE  HolderInv'
  <1>1. Shapes
    BY DEF TypeInv
  <1>2. ASSUME NEW c \in Calls, NEW d \in Calls, c # d, Holding(c)', Holding(d)', Waits(c, d)'
        PROVE  FALSE
    <2>1. plan'[c] = plan[c] /\ plan'[d] = plan[d]
      BY <1>2, HoldsBy
    <2>2. Waits(c, d)
      BY <1>2, <2>1, OnlyCommits DEF Waits, SameFunction, SameUsage, Ingests, KeyedInventory,
                                     KeyedUsage, KeyedRegistration
    <2>3. Waits(d, c)
      BY <2>2, WaitsBoth
    <2>4. CASE Holding(c) /\ Holding(d)
      BY <1>2, <2>2, <2>4 DEF HolderInv
    <2>5. CASE ~Holding(c)
      <3>1. (Holding(d) => ~Waits(c, d)) /\ pc'[d] = pc[d]
        BY <1>2, <2>5, HoldsBy
      <3>2. QED
        BY <1>2, <2>2, <3>1 DEF Holding
    <2>6. CASE ~Holding(d)
      <3>1. (Holding(c) => ~Waits(d, c)) /\ pc'[c] = pc[c]
        BY <1>2, <2>6, HoldsBy
      <3>2. QED
        BY <1>2, <2>3, <3>1 DEF Holding
    <2>7. QED
      BY <2>4, <2>5, <2>6
  <1>3. ASSUME NEW c \in Calls, Holding(c)', plan'[c].inv = None, Of[c].project # None,
               NEW i \in inventory', i.fn = Of[c].fn, i.project = Of[c].project
        PROVE  FALSE
    <2>1. plan[c].inv = None
      BY <1>3, HoldsBy
    <2>2. ~KeyTaken(c)
      <3>1. CASE Holding(c)
        BY <1>3, <2>1, <3>1 DEF HolderInv
      <3>2. CASE ~Holding(c)
        BY <1>3, <2>1, <3>2, HoldsBy DEF Clash, KeyTaken, KeyedInventory
      <3>3. QED
        BY <3>1, <3>2
    <2>3. CASE UNCHANGED tables
      BY <1>3, <2>2, <2>3 DEF KeyTaken, tables
    <2>4. ASSUME NEW e \in Calls, Commit(e), ~UNCHANGED tables PROVE FALSE
      <3>1. Holding(c) /\ Holding(e) /\ c # e
        <4>1. pc[e] = "commit" /\ pc'[e] = "done"
          BY <2>4, CommitStores
        <4>2. QED
          BY <1>3, <2>4, <4>1, HoldsBy DEF Holding
      <3>2. ~Waits(c, e)
        BY <3>1 DEF HolderInv
      <3>3. plan[e].inv = None /\ Of[e].fn = Of[c].fn /\ Of[e].project = Of[c].project
        BY <1>3, <2>2, <2>4, KeysGrow DEF KeyTaken
      <3>4. QED
        BY <1>3, <2>1, <3>2, <3>3 DEF Waits, SameFunction, KeyedInventory
    <2>5. QED
      BY <2>3, <2>4, OnlyCommits
  <1>4. ASSUME NEW i \in inventory', NEW j \in inventory',
               i.project = j.project, i.fn = j.fn, i.project # None
        PROVE  i = j
    <2>1. CASE UNCHANGED tables
      BY <1>4, <2>1 DEF HolderInv, tables
    <2>2. ASSUME NEW c \in Calls, Commit(c) PROVE i = j
      <3>1. CASE plan[c].inv = None
        <4>1. inventory' = inventory \cup {NewItem(c)}
          BY <2>2, <3>1, CommitWrites
        <4>2. NewItem(c).fn = Of[c].fn /\ NewItem(c).project = Of[c].project
          BY DEF NewItem
        <4>3. Of[c].project # None => ~KeyTaken(c)
          BY <2>2, <3>1 DEF HolderInv, Holding, Commit
        <4>4. QED
          BY <1>4, <4>1, <4>2, <4>3 DEF HolderInv, KeyTaken
      <3>2. CASE plan[c].inv # None
        <4>1. inventory' = {Item(c, r) : r \in inventory}
          BY <2>2, <3>2, CommitWrites
        <4>2. PICK r \in inventory, q \in inventory : i = Item(c, r) /\ j = Item(c, q)
          BY <4>1
        <4>3. r.fn = i.fn /\ r.project = i.project /\ q.fn = j.fn /\ q.project = j.project
          BY <1>1, <3>2, <4>2, ItemIs DEF Shapes
        <4>4. r = q
          BY <1>4, <4>3 DEF HolderInv
        <4>5. QED
          BY <4>2, <4>4
      <3>3. QED
        BY <3>1, <3>2
    <2>3. QED
      BY <2>1, <2>2, OnlyCommits
  <1>5. ASSUME "registration" \in keys', NEW c \in Calls, Holding(c)', plan'[c].reg = None
        PROVE  ~NameTaken(c)'
    <2>1. plan[c].reg = None /\ "registration" \in keys
      BY <1>5, HoldsBy, OnlyCommits
    <2>2. ~NameTaken(c)
      <3>1. CASE Holding(c)
        BY <2>1, <3>1 DEF HolderInv
      <3>2. CASE ~Holding(c)
        BY <1>5, <2>1, <3>2, HoldsBy DEF Clash, NameTaken, KeyedRegistration
      <3>3. QED
        BY <3>1, <3>2
    <2>3. CASE UNCHANGED tables
      BY <2>2, <2>3 DEF NameTaken, tables
    <2>4. ASSUME NEW e \in Calls, Commit(e), ~UNCHANGED tables, NEW g \in registrations',
                 g.fn = Of[c].fn, Of[g.id].path = Of[c].path
          PROVE  FALSE
      <3>1. Holding(c) /\ Holding(e) /\ c # e
        <4>1. pc[e] = "commit" /\ pc'[e] = "done"
          BY <2>4, CommitStores
        <4>2. QED
          BY <1>5, <2>4, <4>1, HoldsBy DEF Holding
      <3>2. ~Waits(c, e)
        BY <3>1 DEF HolderInv
      <3>3. plan[e].reg = None /\ Of[e].fn = Of[c].fn /\ Of[e].path = Of[c].path
        BY <2>2, <2>4, NamesGrow DEF NameTaken
      <3>4. QED
        BY <2>1, <3>2, <3>3 DEF Waits, SameFunction, KeyedRegistration
    <2>5. QED
      BY <2>3, <2>4, OnlyCommits DEF NameTaken
  <1>6. ASSUME "registration" \in keys', NEW g \in registrations', NEW h \in registrations',
               g.fn = h.fn, Of[g.id].path = Of[h.id].path
        PROVE  g = h
    <2>1. "registration" \in keys
      BY <1>6, OnlyCommits
    <2>2. CASE UNCHANGED tables
      BY <1>6, <2>1, <2>2 DEF HolderInv, tables
    <2>3. ASSUME NEW c \in Calls, Commit(c) PROVE g = h
      <3>1. CASE plan[c].reg = None
        <4>1. registrations' = registrations \cup {NewRegistration(c)}
          BY <2>3, <3>1, CommitWrites
        <4>2. NewRegistration(c).fn = Of[c].fn /\ NewRegistration(c).id = c
          BY DEF NewRegistration
        <4>3. ~NameTaken(c)
          BY <2>1, <2>3, <3>1 DEF HolderInv, Holding, Commit
        <4>4. QED
          BY <1>6, <2>1, <4>1, <4>2, <4>3 DEF HolderInv, NameTaken
      <3>2. CASE plan[c].reg # None
        <4>1. PICK r \in registrations, q \in registrations :
                g = Registration(c, r) /\ h = Registration(c, q)
          BY <1>6, <2>3, <3>2, CommitWrites
        <4>2. r.fn = g.fn /\ r.id = g.id /\ q.fn = h.fn /\ q.id = h.id
          BY <1>1, <3>2, <4>1, RegistrationIs DEF Shapes
        <4>3. r = q
          BY <1>6, <2>1, <4>2 DEF HolderInv
        <4>4. QED
          BY <4>1, <4>3
      <3>3. QED
        BY <3>1, <3>2
    <2>4. QED
      BY <2>2, <2>3, OnlyCommits
  <1>7. QED
    BY <1>2, <1>3, <1>4, <1>5, <1>6 DEF HolderInv, KeyTaken

-----------------------------------------------------------------------------
(* Counters *)

LEMMA StoredFinite ==
  ASSUME NEW S \in SUBSET Calls
  PROVE  IsFiniteSet(S) /\ Cardinality(S) \in Nat
  <1>1. IsFiniteSet(S)
    BY DecoratorAssumption, FS_Subset
  <1>2. QED
    BY <1>1, FS_CardinalityType

\* A commit adds its call to the stored ones, and to those of its function and status.
LEMMA Recount ==
  ASSUME TypeInv, NEW c \in Calls, Commit(c), NEW x \in Calls, NEW statuses
  PROVE  /\ Cardinality(Answered(x, statuses)) \in Nat /\ Cardinality(StoredOf(x)) \in Nat
         /\ Cardinality(Answered(x, statuses)') \in Nat /\ Cardinality(StoredOf(x)') \in Nat
         /\ Cardinality(Answered(x, statuses)) <= Cardinality(Answered(x, statuses)')
         /\ Cardinality(StoredOf(x)) <= Cardinality(StoredOf(x)')
         /\ SameInventory(x, c) /\ Of[c].status \in statuses =>
              Cardinality(Answered(x, statuses)') = Cardinality(Answered(x, statuses)) + 1
         /\ ~(SameInventory(x, c) /\ Of[c].status \in statuses) =>
              Cardinality(Answered(x, statuses)') = Cardinality(Answered(x, statuses))
         /\ SameFunction(x, c) => Cardinality(StoredOf(x)') = Cardinality(StoredOf(x)) + 1
         /\ ~SameFunction(x, c) => Cardinality(StoredOf(x)') = Cardinality(StoredOf(x))
  <1>1. Stored' = Stored \cup {c} /\ c \notin Stored /\ Stored \subseteq Calls
    BY CommitStores DEF Stored
  <1>2. PICK A : A = Answered(x, statuses)
    OBVIOUS
  <1>3. PICK B : B = StoredOf(x)
    OBVIOUS
  <1>4. /\ A \in SUBSET Calls /\ B \in SUBSET Calls /\ A \cup {c} \in SUBSET Calls
        /\ B \cup {c} \in SUBSET Calls /\ c \notin A /\ c \notin B
    BY <1>1, <1>2, <1>3 DEF Answered, StoredOf
  <1>5. Answered(x, statuses)' =
          IF SameInventory(x, c) /\ Of[c].status \in statuses THEN A \cup {c} ELSE A
    BY <1>1, <1>2 DEF Answered, SameInventory, SameFunction
  <1>6. StoredOf(x)' = IF SameFunction(x, c) THEN B \cup {c} ELSE B
    BY <1>1, <1>3 DEF StoredOf, SameFunction
  <1>7. /\ IsFiniteSet(A) /\ IsFiniteSet(B) /\ Cardinality(A) \in Nat /\ Cardinality(B) \in Nat
    BY <1>4, StoredFinite
  <1>8. Cardinality(A \cup {c}) = Cardinality(A) + 1 /\ Cardinality(B \cup {c}) = Cardinality(B) + 1
    BY <1>4, <1>7, FS_AddElement
  <1>9. QED
    BY <1>2, <1>3, <1>5, <1>6, <1>7, <1>8

LEMMA SameCounts ==
  ASSUME NEW x, NEW y, SameInventory(x, y), NEW row
  PROVE  Counts(row, x) <=> Counts(row, y)
  <1>1. \A statuses : Answered(x, statuses) = Answered(y, statuses)
    BY DEF Answered, SameInventory, SameFunction
  <1>2. QED
    BY <1>1 DEF Counts

LEMMA CountsStay ==
  ASSUME TypeInv, NEW c \in Calls, Commit(c), NEW x \in Calls, NEW row \in InventoryRow,
         Counts(row, x)
  PROVE  Counts(row, x)'
  <1>1. row.total \in Nat /\ row.ok \in Nat /\ row.err \in Nat
    BY DEF InventoryRow
  <1>2. /\ row.total \in 1..Cardinality(Answered(x, {"success", "error"}))
        /\ row.ok <= Cardinality(Answered(x, {"success"}))
        /\ row.err <= Cardinality(Answered(x, {"error"}))
    BY DEF Counts
  <1>3. /\ Cardinality(Answered(x, {"success", "error"})) \in Nat
        /\ Cardinality(Answered(x, {"success", "error"})') \in Nat
        /\ Cardinality(Answered(x, {"success", "error"}))
             <= Cardinality(Answered(x, {"success", "error"})')
    BY Recount
  <1>4. /\ Cardinality(Answered(x, {"success"})) \in Nat
        /\ Cardinality(Answered(x, {"success"})') \in Nat
        /\ Cardinality(Answered(x, {"success"})) <= Cardinality(Answered(x, {"success"})')
    BY Recount
  <1>5. /\ Cardinality(Answered(x, {"error"})) \in Nat
        /\ Cardinality(Answered(x, {"error"})') \in Nat
        /\ Cardinality(Answered(x, {"error"})) <= Cardinality(Answered(x, {"error"})')
    BY Recount
  <1>6. QED
    BY <1>1, <1>2, <1>3, <1>4, <1>5 DEF Counts

\* The row a commit writes counts its call once more than what it read, or at all.
LEMMA CountsOne ==
  ASSUME TypeInv, IdInv, CountInv, NEW c \in Calls, Commit(c), NEW i \in inventory'
  PROVE  Counts(i, i.id)'
  <1>1. Shapes
    BY DEF TypeInv
  <1>2. Of[c].status \in {"success", "error"}
    BY DecoratorAssumption
  <1>3. /\ Cardinality(Answered(c, {"success", "error"})') =
             Cardinality(Answered(c, {"success", "error"})) + 1
        /\ Cardinality(Answered(c, {"success", "error"})) \in Nat
    BY <1>2, Recount DEF SameInventory, SameFunction
  <1>4. /\ Of[c].status = "success" =>
             Cardinality(Answered(c, {"success"})') = Cardinality(Answered(c, {"success"})) + 1
        /\ Cardinality(Answered(c, {"success"})) \in Nat
        /\ Cardinality(Answered(c, {"success"})') \in Nat
    BY Recount DEF SameInventory, SameFunction
  <1>5. /\ Of[c].status = "error" =>
             Cardinality(Answered(c, {"error"})') = Cardinality(Answered(c, {"error"})) + 1
        /\ Cardinality(Answered(c, {"error"})) \in Nat
        /\ Cardinality(Answered(c, {"error"})') \in Nat
    BY Recount DEF SameInventory, SameFunction
  <1>6. CASE plan[c].inv = None /\ i = NewItem(c)
    <2>1. i.id = c /\ i.total = 1 /\ i.ok = One(c, "success") /\ i.err = One(c, "error")
      BY <1>6 DEF NewItem
    <2>2. QED
      BY <1>2, <1>3, <1>4, <1>5, <2>1 DEF Counts, One
  <1>7. CASE plan[c].inv = None /\ i \in inventory
    <2>1. Counts(i, i.id) /\ i \in InventoryRow /\ i.id \in Calls
      BY <1>1, <1>7 DEF CountInv, Shapes, InventoryRow
    <2>2. QED
      BY <2>1, CountsStay
  <1>8. ASSUME plan[c].inv # None PROVE Counts(i, i.id)'
    <2>1. PICK r \in inventory : i = Item(c, r)
      BY <1>8, CommitWrites
    <2>2. r \in InventoryRow /\ r.id \in Calls /\ Counts(r, r.id)
      BY <1>1 DEF Shapes, InventoryRow, CountInv
    <2>3. Counts(r, r.id)'
      BY <2>2, CountsStay
    <2>4. PICK seen \in InventoryRow : seen = plan[c].inv
      BY <1>1, <1>8, PlanIs
    <2>5. CASE r.id # seen.id
      <3>1. i = r
        BY <1>1, <1>8, <2>1, <2>2, <2>4, <2>5, ItemIs
      <3>2. QED
        BY <2>3, <3>1
    <2>6. CASE r.id = seen.id
      <3>1. /\ i.id = r.id /\ i.total = seen.total + 1
            /\ i.ok = IF Of[c].status = "success" THEN seen.ok + 1 ELSE r.ok
            /\ i.err = IF Of[c].status = "error" THEN seen.err + 1 ELSE r.err
        BY <1>1, <1>8, <2>1, <2>2, <2>4, <2>6, ItemIs
      <3>2. SameInventory(r.id, c)
        BY <1>8, <2>4, <2>6 DEF IdInv
      <3>3. Counts(seen, c) /\ Counts(r, c)
        BY <1>8, <2>2, <2>4, <3>2, SameCounts DEF CountInv
      <3>4. Counts(r, c)'
        BY <2>2, <3>3, CountsStay
      <3>5. seen.total \in Nat /\ seen.ok \in Nat /\ seen.err \in Nat
        BY DEF InventoryRow
      <3>6. i.total \in 1..Cardinality(Answered(c, {"success", "error"})')
        BY <1>3, <3>1, <3>3, <3>5 DEF Counts
      <3>7. i.ok <= Cardinality(Answered(c, {"success"})')
        BY <1>4, <3>1, <3>3, <3>4, <3>5 DEF Counts
      <3>8. i.err <= Cardinality(Answered(c, {"error"})')
        BY <1>5, <3>1, <3>3, <3>4, <3>5 DEF Counts
      <3>9. Counts(i, c)'
        BY <3>6, <3>7, <3>8 DEF Counts
      <3>10. (Counts(i, r.id) <=> Counts(i, c))'
        <4>1. \A statuses : Answered(r.id, statuses)' = Answered(c, statuses)'
          BY <3>2 DEF Answered, SameInventory, SameFunction
        <4>2. QED
          BY <4>1 DEF Counts
      <3>11. QED
        BY <3>1, <3>9, <3>10
    <2>7. QED
      BY <2>5, <2>6
  <1>9. QED
    BY <1>6, <1>7, <1>8, CommitWrites

LEMMA RegisteredOne ==
  ASSUME TypeInv, IdInv, CountInv, NEW c \in Calls, Commit(c), NEW g \in registrations'
  PROVE  g.count \in 1..Cardinality(StoredOf(g.id)')
  <1>1. Shapes
    BY DEF TypeInv
  <1>2. /\ Cardinality(StoredOf(c)') = Cardinality(StoredOf(c)) + 1
        /\ Cardinality(StoredOf(c)) \in Nat
    BY Recount DEF SameFunction
  <1>3. ASSUME NEW h \in registrations
        PROVE  /\ h \in RegistrationRow /\ h.id \in Calls /\ h.count \in Nat
               /\ h.count \in 1..Cardinality(StoredOf(h.id)')
    <2>1. h \in RegistrationRow /\ h.id \in Calls /\ h.count \in Nat
      BY <1>1 DEF Shapes, RegistrationRow
    <2>2. h.count \in 1..Cardinality(StoredOf(h.id))
      BY DEF CountInv
    <2>3. /\ Cardinality(StoredOf(h.id)) \in Nat /\ Cardinality(StoredOf(h.id)') \in Nat
          /\ Cardinality(StoredOf(h.id)) <= Cardinality(StoredOf(h.id)')
      BY <2>1, Recount
    <2>4. QED
      BY <2>1, <2>2, <2>3
  <1>4. CASE plan[c].reg = None
    <2>1. g \in registrations \/ g = NewRegistration(c)
      BY <1>4, CommitWrites
    <2>2. NewRegistration(c).id = c /\ NewRegistration(c).count = 1
      BY DEF NewRegistration
    <2>3. 1 \in 1..Cardinality(StoredOf(c)')
      BY <1>2
    <2>4. QED
      BY <1>3, <2>1, <2>2, <2>3
  <1>5. CASE plan[c].reg # None
    <2>1. PICK h \in registrations : g = Registration(c, h)
      BY <1>5, CommitWrites
    <2>2. PICK seen \in RegistrationRow : seen = plan[c].reg
      BY <1>1, <1>5, PlanIs
    <2>3. h \in RegistrationRow
      BY <1>3
    <2>4. CASE h.id # seen.id
      <3>1. g = h
        BY <1>1, <1>5, <2>1, <2>2, <2>3, <2>4, RegistrationIs
      <3>2. QED
        BY <1>3, <3>1
    <2>5. CASE h.id = seen.id
      <3>1. g.id = seen.id /\ g.count = seen.count + 1
        BY <1>1, <1>5, <2>1, <2>2, <2>3, <2>5, RegistrationIs
      <3>2. SameFunction(seen.id, c) /\ seen.count \in 1..Cardinality(StoredOf(c))
        BY <1>5, <2>2 DEF IdInv, CountInv
      <3>3. StoredOf(seen.id)' = StoredOf(c)'
        BY <3>2 DEF StoredOf, SameFunction
      <3>4. seen.count \in Nat
        BY DEF RegistrationRow
      <3>5. seen.count + 1 \in 1..Cardinality(StoredOf(c)')
        BY <1>2, <3>2, <3>4
      <3>6. QED
        BY <3>1, <3>3, <3>5
    <2>6. QED
      BY <2>4, <2>5
  <1>6. QED
    BY <1>4, <1>5

LEMMA CountStep ==
  ASSUME TypeInv, IdInv, CountInv, [Next]_vars
  PROVE  CountInv'
  <1>1. Shapes
    BY DEF TypeInv
  <1>2. ASSUME NEW i \in inventory' PROVE Counts(i, i.id)'
    <2>1. CASE UNCHANGED <<tables, Stored>>
      BY <1>2, <2>1 DEF CountInv, Counts, Answered, SameInventory, SameFunction, tables
    <2>2. QED
      BY <1>2, <2>1, CountsOne, OnlyCommits
  <1>3. ASSUME NEW d \in Calls, NEW row, row = plan'[d].inv, row # None PROVE Counts(row, d)'
    <2>1. row \in InventoryRow /\ Counts(row, d)
      <3>1. CASE row = plan[d].inv
        BY <1>1, <1>3, <3>1, PlanIs DEF CountInv
      <3>2. CASE row \in inventory /\ row.fn = Of[d].fn /\ row.project = Of[d].project
        <4>1. SameInventory(row.id, d) /\ Counts(row, row.id) /\ row \in InventoryRow
          BY <1>1, <3>2 DEF IdInv, SameInventory, SameFunction, CountInv, Shapes
        <4>2. QED
          BY <4>1, SameCounts
      <3>3. QED
        BY <1>3, <3>1, <3>2, ReadsKnow
    <2>2. CASE UNCHANGED <<tables, Stored>>
      BY <2>1, <2>2 DEF Counts, Answered, SameInventory, SameFunction
    <2>3. QED
      BY <2>1, <2>2, CountsStay, OnlyCommits
  <1>4. ASSUME NEW g \in registrations' PROVE g.count \in 1..Cardinality(StoredOf(g.id)')
    <2>1. CASE UNCHANGED <<tables, Stored>>
      BY <1>4, <2>1 DEF CountInv, StoredOf, SameFunction, tables
    <2>2. QED
      BY <1>4, <2>1, RegisteredOne, OnlyCommits
  <1>5. ASSUME NEW d \in Calls, NEW row, row = plan'[d].reg, row # None
        PROVE  row.count \in 1..Cardinality(StoredOf(d)')
    <2>1. row.count \in Nat /\ row.count \in 1..Cardinality(StoredOf(d))
      <3>1. CASE row = plan[d].reg
        BY <1>1, <1>5, <3>1, PlanIs DEF CountInv, RegistrationRow
      <3>2. CASE row \in registrations /\ row.fn = Of[d].fn
        <4>1. row.count \in Nat /\ row.count \in 1..Cardinality(StoredOf(row.id))
          BY <1>1, <3>2 DEF CountInv, Shapes, RegistrationRow
        <4>2. StoredOf(row.id) = StoredOf(d)
          BY <3>2 DEF IdInv, StoredOf, SameFunction
        <4>3. QED
          BY <4>1, <4>2
      <3>3. QED
        BY <1>5, <3>1, <3>2, ReadsKnow
    <2>2. CASE UNCHANGED <<tables, Stored>>
      BY <2>1, <2>2 DEF StoredOf, SameFunction
    <2>3. ASSUME NEW c \in Calls, Commit(c) PROVE row.count \in 1..Cardinality(StoredOf(d)')
      <3>1. /\ Cardinality(StoredOf(d)) \in Nat /\ Cardinality(StoredOf(d)') \in Nat
            /\ Cardinality(StoredOf(d)) <= Cardinality(StoredOf(d)')
        BY <2>3, Recount
      <3>2. QED
        BY <2>1, <3>1
    <2>4. QED
      BY <2>2, <2>3, OnlyCommits
  <1>6. QED
    BY <1>2, <1>3, <1>4, <1>5 DEF CountInv

-----------------------------------------------------------------------------
(* Requests in flight *)

\* How a request that is in flight after a step came there.
LEMMA Flies ==
  ASSUME TypeInv, [Next]_vars, NEW x \in Calls, x \in InFlight'
  PROVE  \/ x \in InFlight /\ pc'[x] = pc[x] /\ plan'[x] = plan[x]
         \/ Receive(x) /\ pc'[x] = "inventory"
         \/ ReadInventory(x) /\ pc'[x] = "registration" /\ UNCHANGED tables
         \/ /\ ReadRegistration(x) /\ pc[x] = "registration" /\ UNCHANGED tables
            /\ plan'[x].inv = plan[x].inv
            /\ pc'[x] = IF Ingests(x) /\ Of[x].model # None THEN "usage" ELSE "flush"
         \/ /\ ReadUsage(x) /\ pc[x] = "usage" /\ pc'[x] = "flush" /\ UNCHANGED tables
            /\ plan'[x].inv = plan[x].inv /\ plan'[x].reg = plan[x].reg
         \/ /\ pc[x] = "flush" /\ plan'[x] = plan[x] /\ UNCHANGED tables
            /\ pc'[x] \in {"rest", "commit"} \/ (pc'[x] = "poisoned" /\ Clash(x))
         \/ /\ pc[x] \in {"rest", "alerts"} /\ plan'[x] = plan[x] /\ UNCHANGED tables
            /\ \/ pc'[x] \in {"alerts", "commit"}
               \/ pc'[x] = "poisoned" /\ (x \in faulted' \/ ClashDaily(x))
  <1>1. pc \in [Calls -> Flying \cup {"sent", "done"}] /\ plan \in [Calls -> Plans]
    BY DEF TypeInv, Shapes
  <1>2. pc'[x] # "done"
    BY DEF InFlight
  <1>3. pc'[x] = pc[x] => x \in InFlight
    BY DEF InFlight
  <1>4. ASSUME NEW c \in Calls, c # x, Lose(c) \/ Serve(c) \/ FailEarly(c) \/ FailLate(c)
        PROVE  pc'[x] = pc[x] /\ plan'[x] = plan[x]
    <2>1. Lose(c) \/ Receive(c) \/ PoolTimeout(c) \/ Raise(c) \/ Commit(c) =>
            pc'[x] = pc[x] /\ plan'[x] = plan[x]
      BY <1>1, <1>4 DEF Lose, Receive, PoolTimeout, Raise, Commit, Finished, Goto
    <2>2. ReadInventory(c) \/ ReadRegistration(c) \/ ReadUsage(c) =>
            pc'[x] = pc[x] /\ plan'[x] = plan[x]
      BY <1>1, <1>4 DEF ReadInventory, ReadRegistration, ReadUsage, Goto
    <2>3. FlushIngest(c) \/ FlushUpsert(c) \/ FailEarly(c) => pc'[x] = pc[x] /\ plan'[x] = plan[x]
      BY <1>1, <1>4 DEF FlushIngest, FlushUpsert, FailEarly, Flush, Goto
    <2>4. ReadSummary(c) \/ Link(c) \/ FailLate(c) => pc'[x] = pc[x] /\ plan'[x] = plan[x]
      BY <1>1, <1>4 DEF ReadSummary, Link, FailLate, Goto
    <2>5. QED
      BY <1>4, <2>1, <2>2, <2>3, <2>4 DEF Serve
  <1>5. ~Lose(x) /\ ~PoolTimeout(x) /\ ~Raise(x) /\ ~Commit(x)
    BY <1>1, <1>2 DEF Lose, PoolTimeout, Raise, Commit, Finished, Goto
  <1>6. Receive(x) => pc'[x] = "inventory"
    BY <1>1, <1>2 DEF Receive, Finished, Goto
  <1>7. ReadInventory(x) => pc'[x] = "registration" /\ UNCHANGED tables
    BY <1>1 DEF ReadInventory, Goto
  <1>8. ReadRegistration(x) =>
          /\ pc[x] = "registration" /\ UNCHANGED tables /\ plan'[x].inv = plan[x].inv
          /\ pc'[x] = IF Ingests(x) /\ Of[x].model # None THEN "usage" ELSE "flush"
    <2>1. \A r : [plan[x] EXCEPT !.reg = r].inv = plan[x].inv
      BY <1>1 DEF Plans
    <2>2. QED
      BY <1>1, <2>1 DEF ReadRegistration, Goto
  <1>9. ReadUsage(x) =>
          /\ pc[x] = "usage" /\ pc'[x] = "flush" /\ UNCHANGED tables
          /\ plan'[x].inv = plan[x].inv /\ plan'[x].reg = plan[x].reg
    <2>1. \A r : /\ [plan[x] EXCEPT !.use = r].inv = plan[x].inv
                 /\ [plan[x] EXCEPT !.use = r].reg = plan[x].reg
      BY <1>1 DEF Plans
    <2>2. QED
      BY <1>1, <2>1 DEF ReadUsage, Goto
  <1>10. FlushIngest(x) \/ FlushUpsert(x) \/ FailEarly(x) =>
           /\ pc[x] = "flush" /\ plan'[x] = plan[x] /\ UNCHANGED tables
           /\ pc'[x] \in {"rest", "commit"} \/ (pc'[x] = "poisoned" /\ Clash(x))
    BY <1>1 DEF FlushIngest, FlushUpsert, FailEarly, Flush, Goto
  <1>11. ReadSummary(x) \/ Link(x) \/ FailLate(x) =>
           /\ pc[x] \in {"rest", "alerts"} /\ plan'[x] = plan[x] /\ UNCHANGED tables
           /\ \/ pc'[x] \in {"alerts", "commit"}
              \/ pc'[x] = "poisoned" /\ (x \in faulted' \/ ClashDaily(x))
    BY <1>1 DEF ReadSummary, Link, FailLate, Fault, Goto
  <1>12. Restart => pc'[x] = pc[x] /\ plan'[x] = plan[x]
    BY <1>1, <1>2 DEF Restart
  <1>13. UNCHANGED vars \/ Rebuild => pc'[x] = pc[x] /\ plan'[x] = plan[x]
    BY DEF vars, Rebuild
  <1>14. CASE \E c \in Calls : c # x /\ (Lose(c) \/ Serve(c) \/ FailEarly(c) \/ FailLate(c))
    BY <1>3, <1>4, <1>14
  <1>15. CASE Lose(x) \/ Serve(x) \/ FailEarly(x) \/ FailLate(x)
    BY <1>5, <1>6, <1>7, <1>8, <1>9, <1>10, <1>11, <1>15 DEF Serve
  <1>16. QED
    BY <1>3, <1>12, <1>13, <1>14, <1>15 DEF Next

\* The pool: only a receipt adds a request, when there is room for it.
LEMMA InFlightBound ==
  ASSUME TypeInv, PoolInv, [Next]_vars
  PROVE  Cardinality(InFlight') <= PoolSize
  <1>1. /\ InFlight \subseteq Calls /\ InFlight' \subseteq Calls /\ PoolSize \in Nat
        /\ pc \in [Calls -> Flying \cup {"sent", "done"}]
    BY DecoratorAssumption DEF InFlight, TypeInv, Shapes
  <1>2. PICK A : A = InFlight
    OBVIOUS
  <1>3. PICK B : B = InFlight'
    OBVIOUS
  <1>4. IsFiniteSet(A) /\ Cardinality(A) \in Nat /\ IsFiniteSet(B) /\ Cardinality(B) \in Nat
    BY <1>1, <1>2, <1>3, StoredFinite
  <1>5. ASSUME NEW c \in Calls, Receive(c), pc'[c] = "inventory" PROVE Cardinality(B) <= PoolSize
    <2>1. Cardinality(A) < PoolSize
      BY <1>1, <1>2, <1>5 DEF Receive, Finished, Goto
    <2>2. B \subseteq A \cup {c}
      BY <1>1, <1>2, <1>3, <1>5 DEF Receive, Finished, Goto, InFlight
    <2>3. IsFiniteSet(A \cup {c}) /\ Cardinality(A \cup {c}) <= Cardinality(A) + 1
      BY <1>4, FS_AddElement
    <2>4. Cardinality(B) <= Cardinality(A \cup {c})
      BY <2>2, <2>3, FS_Subset
    <2>5. Cardinality(A \cup {c}) \in Nat
      BY <2>3, FS_CardinalityType
    <2>6. QED
      BY <1>1, <1>4, <2>1, <2>3, <2>4, <2>5
  <1>6. CASE ~\E c \in Calls : Receive(c) /\ pc'[c] = "inventory"
    <2>1. B \subseteq A
      <3>1. ASSUME NEW x \in Calls, x \in InFlight' PROVE x \in InFlight
        BY <1>6, <3>1, Flies DEF InFlight, ReadInventory, ReadRegistration, ReadUsage
      <3>2. QED
        BY <1>1, <1>2, <1>3, <3>1
    <2>2. Cardinality(B) <= Cardinality(A)
      BY <1>4, <2>1, FS_Subset
    <2>3. QED
      BY <1>1, <1>2, <1>3, <1>4, <2>2 DEF PoolInv
  <1>7. QED
    BY <1>3, <1>5, <1>6

\* A call that may register a function after a step could before it, or has just seen
\* that it has no registration.
LEMMA MayRegister ==
  ASSUME TypeInv, [Next]_vars, NEW x \in Calls, x \in InFlight',
         pc'[x] \notin {"inventory", "registration"}, plan'[x].reg = None
  PROVE  \/ x \in Registrants(Of[x].fn)
         \/ \A g \in registrations' : g.fn # Of[x].fn
  <1>1. plan[x] \in Plans
    BY DEF TypeInv, Shapes
  <1>2. CASE ReadRegistration(x)
    <2>1. PICK r \in First({g \in registrations : g.fn = Of[x].fn}) :
            plan' = [plan EXCEPT ![x].reg = r]
      BY <1>2 DEF ReadRegistration
    <2>2. r = None
      BY <1>1, <2>1 DEF Plans, TypeInv, Shapes
    <2>3. None \notin registrations
      BY NoneIsNoRow DEF TypeInv, Shapes
    <2>4. {g \in registrations : g.fn = Of[x].fn} = {}
      BY <2>1, <2>2, <2>3, FirstIs
    <2>5. registrations' = registrations
      BY <1>2 DEF ReadRegistration, tables
    <2>6. QED
      BY <2>4, <2>5
  <1>3. CASE ~ReadRegistration(x)
    <2>1. /\ plan[x].reg = None /\ x \in InFlight
          /\ pc[x] \notin {"inventory", "registration"}
      BY <1>3, Flies DEF InFlight
    <2>2. QED
      BY <2>1 DEF Registrants
  <1>4. QED
    BY <1>2, <1>3

LEMMA PoolStep ==
  ASSUME TypeInv, IdInv, PoolInv, [Next]_vars
  PROVE  PoolInv'
  <1>1. Shapes
    BY DEF TypeInv
  <1>2. ASSUME NEW g \in registrations' PROVE g.id \in Registrants(g.fn)
    <2>1. CASE UNCHANGED tables
      BY <1>2, <2>1 DEF Registrants, tables
    <2>2. ASSUME NEW c \in Calls, Commit(c) PROVE g.id \in Registrants(g.fn)
      <3>1. CASE plan[c].reg = None
        <4>1. c \in InFlight /\ pc[c] = "commit"
          BY <2>2, CommitStores
        <4>2. g \in registrations \/ (g.id = c /\ g.fn = Of[c].fn)
          BY <2>2, <3>1, CommitWrites DEF NewRegistration
        <4>3. QED
          BY <3>1, <4>1, <4>2 DEF Registrants
      <3>2. CASE plan[c].reg # None
        <4>1. PICK h \in registrations : g = Registration(c, h)
          BY <2>2, <3>2, CommitWrites
        <4>2. g.id = h.id /\ g.fn = h.fn
          BY <1>1, <3>2, <4>1, RegistrationIs DEF Shapes
        <4>3. QED
          BY <4>2 DEF Registrants
      <3>3. QED
        BY <3>1, <3>2
    <2>3. QED
      BY <2>1, <2>2, OnlyCommits
  <1>3. ASSUME NEW fn \in Functions PROVE Cardinality(Registrants(fn)') <= PoolSize
    <2>1. PICK A : A = Registrants(fn)
      OBVIOUS
    <2>2. PICK B : B = Registrants(fn)'
      OBVIOUS
    <2>3. /\ A \subseteq Calls /\ IsFiniteSet(A) /\ Cardinality(A) \in Nat /\ PoolSize \in Nat
          /\ Cardinality(A) <= PoolSize
      <3>1. A \subseteq Calls
        BY <1>1, <2>1 DEF Registrants, InFlight, Shapes, RegistrationRow
      <3>2. QED
        BY <2>1, <3>1, StoredFinite, DecoratorAssumption DEF PoolInv
    <2>4. CASE B \subseteq A
      BY <2>2, <2>3, <2>4, FS_Subset, FS_CardinalityType
    <2>5. ASSUME ~(B \subseteq A) PROVE Cardinality(B) <= PoolSize
      <3>1. PICK x \in B : x \notin A
        BY <2>5
      <3>2. /\ x \in InFlight' /\ x \in Calls /\ Of[x].fn = fn
            /\ pc'[x] \notin {"inventory", "registration"} /\ plan'[x].reg = None
        BY <1>2, <2>1, <2>2, <3>1 DEF Registrants, InFlight
      <3>3. \A g \in registrations' : g.fn # fn
        BY <2>1, <3>1, <3>2, MayRegister
      <3>4. B \subseteq InFlight' /\ InFlight' \subseteq Calls
        BY <2>2, <3>3 DEF Registrants, InFlight
      <3>5. IsFiniteSet(InFlight') /\ Cardinality(InFlight') \in Nat
        BY <3>4, StoredFinite
      <3>6. Cardinality(B) <= Cardinality(InFlight') /\ Cardinality(B) \in Nat
        BY <3>4, <3>5, FS_Subset, FS_CardinalityType
      <3>7. QED
        BY <2>3, <3>5, <3>6, InFlightBound
    <2>6. QED
      BY <2>2, <2>3, <2>4, <2>5
  <1>4. QED
    BY <1>3, InFlightBound DEF PoolInv

-----------------------------------------------------------------------------
(* Overlaps and refusals *)

LEMMA UsagesGrow ==
  ASSUME TypeInv, NEW c \in Calls, Commit(c), NEW u \in usage'
  PROVE  \/ \E r \in usage : u.project = r.project /\ u.model = r.model
         \/ /\ Ingests(c) /\ Of[c].model # None
            /\ u.project = Of[c].project /\ u.model = Of[c].model
  <1>1. Shapes
    BY DEF TypeInv
  <1>2. CASE ~Ingests(c) \/ Of[c].model = None
    BY <1>2, CommitWrites
  <1>3. CASE Ingests(c) /\ Of[c].model # None /\ plan[c].use = None
    BY <1>3, CommitWrites DEF NewUsage
  <1>4. CASE Ingests(c) /\ Of[c].model # None /\ plan[c].use # None
    <2>1. PICK r \in usage : u = Used(c, r)
      BY <1>4, CommitWrites
    <2>2. u.project = r.project /\ u.model = r.model
      BY <1>1, <1>4, <2>1, UsedIs DEF Shapes
    <2>3. QED
      BY <2>2
  <1>5. QED
    BY <1>2, <1>3, <1>4

\* Two requests in flight that share a row both know that they overlap.
LEMMA BesideStep ==
  ASSUME TypeInv, OverlapInv, [Next]_vars, NEW c \in Calls, NEW d \in Calls, c # d,
         c \in InFlight', d \in InFlight', SameFunction(c, d) \/ SameUsage(c, d)
  PROVE  c \in overlap'
  <1>1. pc \in [Calls -> Flying \cup {"sent", "done"}] /\ overlap \subseteq overlap'
    BY OnlyCommits DEF TypeInv, Shapes
  <1>2. SameFunction(d, c) \/ SameUsage(d, c)
    BY DEF SameFunction, SameUsage
  <1>3. CASE c \in InFlight /\ d \in InFlight
    BY <1>1, <1>3 DEF OverlapInv
  <1>4. ASSUME NEW x \in {c, d}, Receive(x), pc'[x] = "inventory" PROVE c \in overlap'
    <2>1. PICK y \in {c, d} : y # x
      OBVIOUS
    <2>2. y \in InFlight /\ (SameFunction(x, y) \/ SameUsage(x, y))
      BY <1>1, <1>2, <1>4, <2>1 DEF Receive, Finished, Goto, InFlight
    <2>3. Of[x].by # "module"
      BY <1>1, <1>4 DEF Receive, Finished, Goto
    <2>4. x \in overlap' /\ y \in overlap'
      BY <1>4, <2>2, <2>3 DEF Receive, With
    <2>5. QED
      BY <2>1, <2>4
  <1>5. ASSUME NEW x \in {c, d}, x \notin InFlight PROVE Receive(x) /\ pc'[x] = "inventory"
    BY <1>5, Flies DEF InFlight, ReadInventory
  <1>6. QED
    BY <1>3, <1>4, <1>5

\* A row a request did not find is there only if it overlapped the one that wrote it.
LEMMA UnseenStep ==
  ASSUME TypeInv, OverlapInv, [Next]_vars, NEW c \in Calls, c \in InFlight', c \notin overlap'
  PROVE  /\ pc'[c] # "inventory" /\ plan'[c].inv = None => ~KeyTaken(c)'
         /\ pc'[c] \notin {"inventory", "registration"} /\ plan'[c].reg = None =>
              \A g \in registrations' : g.fn # Of[c].fn
         /\ pc'[c] \in {"flush", "rest", "alerts", "commit"} /\ Ingests(c) /\ Of[c].model # None
              /\ plan'[c].use = None => \A u \in usage' :
                ~(u.project = Of[c].project /\ u.model = Of[c].model)
  <1>1. Shapes /\ plan[c] \in Plans /\ c \notin overlap
    BY OnlyCommits DEF TypeInv, Shapes
  <1>2. ASSUME pc'[c] # "inventory", plan'[c].inv = None PROVE ~KeyTaken(c)'
    <2>1. CASE ReadInventory(c)
      <3>1. PICK r \in First({i \in inventory : i.fn = Of[c].fn /\ i.project = Of[c].project}) :
              plan' = [plan EXCEPT ![c].inv = r]
        BY <2>1 DEF ReadInventory
      <3>2. r = None
        BY <1>1, <1>2, <3>1 DEF Plans, Shapes
      <3>3. None \notin inventory
        BY <1>1, NoneIsNoRow DEF Shapes
      <3>4. {i \in inventory : i.fn = Of[c].fn /\ i.project = Of[c].project} = {}
        BY <3>1, <3>2, <3>3, FirstIs
      <3>5. inventory' = inventory
        BY <2>1 DEF ReadInventory, tables
      <3>6. QED
        BY <3>4, <3>5 DEF KeyTaken
    <2>2. CASE ~ReadInventory(c)
      <3>1. pc[c] # "inventory" /\ plan[c].inv = None /\ c \in InFlight
        BY <1>2, <2>2, Flies DEF InFlight
      <3>2. ~KeyTaken(c)
        BY <1>1, <3>1 DEF OverlapInv
      <3>3. CASE UNCHANGED tables
        BY <3>2, <3>3 DEF KeyTaken, tables
      <3>4. ASSUME NEW e \in Calls, Commit(e), NEW i \in inventory',
                   i.fn = Of[c].fn, i.project = Of[c].project
            PROVE  FALSE
        <4>1. e \in InFlight /\ e # c
          BY <3>4, CommitStores DEF InFlight
        <4>2. ~SameFunction(c, e)
          BY <1>1, <3>1, <4>1 DEF OverlapInv
        <4>3. QED
          BY <3>2, <3>4, <4>2, KeysGrow DEF KeyTaken, SameFunction
      <3>5. QED
        BY <3>3, <3>4, OnlyCommits DEF KeyTaken
    <2>3. QED
      BY <2>1, <2>2
  <1>3. ASSUME pc'[c] \in {"flush", "rest", "alerts", "commit"}, Ingests(c), Of[c].model # None,
               plan'[c].use = None, NEW u \in usage', u.project = Of[c].project,
               u.model = Of[c].model
        PROVE  FALSE
    <2>1. CASE ReadUsage(c)
      <3>1. PICK r \in First({v \in usage : v.project = Of[c].project /\ v.model = Of[c].model}) :
              plan' = [plan EXCEPT ![c].use = r]
        BY <2>1 DEF ReadUsage
      <3>2. r = None
        BY <1>1, <1>3, <3>1 DEF Plans, Shapes
      <3>3. None \notin usage
        BY <1>1, NoneIsNoRow DEF Shapes
      <3>4. {v \in usage : v.project = Of[c].project /\ v.model = Of[c].model} = {}
        BY <3>1, <3>2, <3>3, FirstIs
      <3>5. usage' = usage
        BY <2>1 DEF ReadUsage, tables
      <3>6. QED
        BY <1>3, <3>4, <3>5
    <2>2. CASE ~ReadUsage(c)
      <3>1. /\ pc[c] \in {"flush", "rest", "alerts", "commit"} /\ plan[c].use = None
            /\ c \in InFlight
        BY <1>3, <2>2, Flies DEF InFlight
      <3>2. \A v \in usage : ~(v.project = Of[c].project /\ v.model = Of[c].model)
        BY <1>1, <1>3, <3>1 DEF OverlapInv
      <3>3. CASE UNCHANGED tables
        BY <1>3, <3>2, <3>3 DEF tables
      <3>4. ASSUME NEW e \in Calls, Commit(e) PROVE FALSE
        <4>1. e \in InFlight /\ e # c
          BY <3>4, CommitStores DEF InFlight
        <4>2. ~SameUsage(c, e)
          BY <1>1, <3>1, <4>1 DEF OverlapInv
        <4>3. QED
          BY <1>3, <3>2, <3>4, <4>2, UsagesGrow DEF SameUsage
      <3>5. QED
        BY <3>3, <3>4, OnlyCommits
    <2>3. QED
      BY <2>1, <2>2
  <1>4. ASSUME pc'[c] \notin {"inventory", "registration"}, plan'[c].reg = None,
               NEW g \in registrations', g.fn = Of[c].fn
        PROVE  FALSE
    <2>1. CASE ReadRegistration(c)
      <3>1. PICK r \in First({h \in registrations : h.fn = Of[c].fn}) :
              plan' = [plan EXCEPT ![c].reg = r]
        BY <2>1 DEF ReadRegistration
      <3>2. r = None
        BY <1>1, <1>4, <3>1 DEF Plans, Shapes
      <3>3. None \notin registrations
        BY <1>1, NoneIsNoRow DEF Shapes
      <3>4. {h \in registrations : h.fn = Of[c].fn} = {}
        BY <3>1, <3>2, <3>3, FirstIs
      <3>5. registrations' = registrations
        BY <2>1 DEF ReadRegistration, tables
      <3>6. QED
        BY <1>4, <3>4, <3>5
    <2>2. CASE ~ReadRegistration(c)
      <3>1. /\ pc[c] \notin {"inventory", "registration"} /\ plan[c].reg = None
            /\ c \in InFlight
        BY <1>4, <2>2, Flies DEF InFlight
      <3>2. \A h \in registrations : h.fn # Of[c].fn
        BY <1>1, <3>1 DEF OverlapInv
      <3>3. CASE UNCHANGED tables
        BY <1>4, <3>2, <3>3 DEF tables
      <3>4. ASSUME NEW e \in Calls, Commit(e) PROVE FALSE
        <4>1. e \in InFlight /\ e # c
          BY <3>4, CommitStores DEF InFlight
        <4>2. ~SameFunction(c, e)
          BY <1>1, <3>1, <4>1 DEF OverlapInv
        <4>3. QED
          BY <1>4, <3>2, <3>4, <4>2, NamesGrow DEF SameFunction
      <3>5. QED
        BY <3>3, <3>4, OnlyCommits
    <2>3. QED
      BY <2>1, <2>2
  <1>5. QED
    BY <1>2, <1>3, <1>4

LEMMA RefusedBy ==
  ASSUME TypeInv, [Next]_vars, NEW c \in Calls, answer'[c] = 500
  PROVE  answer[c] = 500 \/ pc[c] = "poisoned" \/ c \in disturbed'
  <1>1. answer \in [Calls -> {None, 200, 401, 500}]
    BY DEF TypeInv, Shapes
  <1>2. ASSUME NEW x \in Calls, Receive(x) \/ PoolTimeout(x) \/ Raise(x) \/ Commit(x)
        PROVE  answer[c] = 500 \/ pc[c] = "poisoned" \/ c \in disturbed'
    BY <1>1, <1>2 DEF Receive, PoolTimeout, Raise, Commit, Finished
  <1>3. ASSUME NEW x \in Calls,
               Lose(x) \/ ReadInventory(x) \/ ReadRegistration(x) \/ ReadUsage(x)
                 \/ FlushIngest(x) \/ FlushUpsert(x) \/ ReadSummary(x) \/ Link(x)
                 \/ FailEarly(x) \/ FailLate(x)
        PROVE  answer' = answer
    BY <1>3 DEF Lose, ReadInventory, ReadRegistration, ReadUsage, FlushIngest, FlushUpsert,
                ReadSummary, Link, FailEarly, FailLate, Flush
  <1>4. Restart \/ Rebuild \/ UNCHANGED vars => answer' = answer
    BY DEF Restart, Rebuild, vars
  <1>5. QED
    BY <1>2, <1>3, <1>4 DEF Next, Serve

LEMMA OverlapStep ==
  ASSUME TypeInv, OverlapInv, [Next]_vars
  PROVE  OverlapInv'
  <1>1. InFlight' \subseteq Calls
    BY DEF InFlight
  <1>2. ASSUME NEW c \in InFlight', NEW d \in InFlight', c # d,
               SameFunction(c, d) \/ SameUsage(c, d)
        PROVE  c \in overlap'
    BY <1>1, <1>2, BesideStep
  <1>3. ASSUME NEW c \in InFlight', c \notin overlap'
        PROVE  /\ pc'[c] # "inventory" /\ plan'[c].inv = None => ~KeyTaken(c)'
               /\ pc'[c] \notin {"inventory", "registration"} /\ plan'[c].reg = None =>
                    \A g \in registrations' : g.fn # Of[c].fn
               /\ pc'[c] \in {"flush", "rest", "alerts", "commit"} /\ Ingests(c)
                    /\ Of[c].model # None /\ plan'[c].use = None => \A u \in usage' :
                      ~(u.project = Of[c].project /\ u.model = Of[c].model)
    BY <1>1, <1>3, UnseenStep
  <1>4. QED
    BY <1>2, <1>3 DEF OverlapInv, SameFunction, SameUsage, Ingests

-----------------------------------------------------------------------------
(* The summary row *)

\* What a step does to the summary rows, to what is known of them, and to who has met
\* another: only a commit forgets that.
LEMMA DaySteps ==
  ASSUME TypeInv, DailyTypes, [Next]_vars, NEW c \in Calls
  PROVE  /\ c \in disturbed => c \in disturbed' \/ Commit(c)
         /\ \/ daily'[c] = daily[c] /\ (c \in InFlight => c \in InFlight')
            \/ daily'[c] = "unread"
            \/ /\ pc[c] = "rest" /\ pc'[c] = "alerts" /\ summaries' = summaries
               /\ daily'[c] = IF SummaryKey(c) \in summaries THEN "row" ELSE "none"
            \/ /\ daily[c] = "row" /\ daily'[c] = "gone" /\ c \in disturbed'
               /\ c \in InFlight => c \in InFlight'
         /\ \/ summaries' \subseteq summaries
            \/ daily[c] # "unread" => c \in disturbed'
            \/ \E e \in Calls : /\ Commit(e) /\ daily[e] = "none"
                                 /\ summaries' \subseteq summaries \cup {SummaryKey(e)}
  <1>1. /\ daily \in [Calls -> {"unread", "none", "row", "gone"}]
        /\ pc \in [Calls -> Flying \cup {"sent", "done"}]
    BY DEF DailyTypes, TypeInv, Shapes
  <1> DEFINE stays == c \in InFlight => c \in InFlight'
             same == daily'[c] = "unread" \/ (daily'[c] = daily[c] /\ stays)
  <1>2. ASSUME NEW e \in Calls, Receive(e) \/ PoolTimeout(e)
        PROVE  disturbed \subseteq disturbed' /\ summaries' = summaries /\ same
    <2>1. disturbed \subseteq disturbed' /\ summaries' = summaries
      BY <1>2 DEF Receive, PoolTimeout
    <2>2. e # c => daily'[c] = daily[c] /\ pc'[c] = pc[c]
      BY <1>1, <1>2 DEF Receive, PoolTimeout, Finished, Goto
    <2>3. pc[e] = "sent"
      BY <1>2 DEF Receive, PoolTimeout
    <2>4. daily'[c] \in {daily[c], "unread"}
      BY <1>1, <1>2 DEF Receive, PoolTimeout, Finished
    <2>5. QED
      BY <2>1, <2>2, <2>3, <2>4 DEF InFlight
  <1>3. ASSUME NEW e \in Calls,
               Lose(e) \/ ReadInventory(e) \/ ReadRegistration(e) \/ ReadUsage(e)
                 \/ FlushIngest(e) \/ FlushUpsert(e) \/ Link(e) \/ FailEarly(e) \/ FailLate(e)
        PROVE  UNCHANGED day /\ stays
    <2>1. UNCHANGED day
      BY <1>3 DEF Lose, ReadInventory, ReadRegistration, ReadUsage, FlushIngest, FlushUpsert,
                  Link, FailEarly, FailLate, Flush
    <2>2. Lose(e) => stays
      BY <1>1 DEF Lose, Goto, InFlight
    <2>3. ReadInventory(e) \/ ReadRegistration(e) \/ ReadUsage(e) => stays
      BY <1>1 DEF ReadInventory, ReadRegistration, ReadUsage, Goto, InFlight
    <2>4. FlushIngest(e) \/ FlushUpsert(e) \/ FailEarly(e) => stays
      BY <1>1 DEF FlushIngest, FlushUpsert, FailEarly, Flush, Goto, InFlight
    <2>5. Link(e) \/ FailLate(e) => stays
      BY <1>1 DEF Link, FailLate, Goto, InFlight
    <2>6. QED
      BY <1>3, <2>1, <2>2, <2>3, <2>4, <2>5
  <1>4. ASSUME NEW e \in Calls, ReadSummary(e)
        PROVE  /\ UNCHANGED <<disturbed, summaries>>
               /\ \/ daily'[c] = daily[c] /\ stays
                  \/ /\ pc[c] = "rest" /\ pc'[c] = "alerts"
                     /\ daily'[c] = IF SummaryKey(c) \in summaries THEN "row" ELSE "none"
    BY <1>1, <1>4 DEF ReadSummary, Goto, InFlight
  <1>5. ASSUME NEW e \in Calls, Commit(e)
        PROVE  /\ disturbed' = disturbed \ {e} /\ same
               /\ \/ summaries' = summaries
                  \/ daily[e] = "none" /\ summaries' = summaries \cup {SummaryKey(e)}
    <2>1. e = c => daily'[c] = "unread"
      BY <1>1, <1>5 DEF Commit, Finished
    <2>2. e # c => daily'[c] = daily[c] /\ pc'[c] = pc[c]
      BY <1>1, <1>5 DEF Commit, Finished, Goto
    <2>3. QED
      BY <1>5, <2>1, <2>2 DEF Commit, InFlight
  <1>6. ASSUME NEW e \in Calls, Raise(e)
        PROVE  UNCHANGED <<disturbed, summaries>> /\ same
    <2>1. e = c => daily'[c] = "unread"
      BY <1>1, <1>6 DEF Raise, Finished
    <2>2. e # c => daily'[c] = daily[c] /\ pc'[c] = pc[c]
      BY <1>1, <1>6 DEF Raise, Finished, Goto
    <2>3. QED
      BY <1>6, <2>1, <2>2 DEF Raise, InFlight
  <1>7. Restart => UNCHANGED <<disturbed, summaries>> /\ same
    BY DEF Restart, InFlight
  <1>8. Rebuild =>
          /\ disturbed \subseteq disturbed' /\ (daily[c] # "unread" => c \in disturbed')
          /\ daily'[c] = IF daily[c] = "row" THEN "gone" ELSE daily[c]
          /\ stays
    BY DEF Rebuild, InFlight
  <1>9. UNCHANGED vars => UNCHANGED day /\ stays
    BY DEF vars, InFlight
  <1>10. UNCHANGED day => UNCHANGED <<disturbed, summaries, daily>>
    BY DEF day
  <1>11. CASE \E e \in Calls : Commit(e)
    BY <1>5, <1>11
  <1>12. CASE Rebuild
    BY <1>8, <1>12
  <1>13. CASE UNCHANGED day /\ stays
    BY <1>10, <1>13
  <1>14. CASE \E e \in Calls : Receive(e) \/ PoolTimeout(e) \/ ReadSummary(e) \/ Raise(e)
    BY <1>2, <1>4, <1>6, <1>14
  <1>15. QED
    BY <1>3, <1>7, <1>9, <1>11, <1>12, <1>13, <1>14 DEF Next, Serve

LEMMA DailyTypesStep ==
  ASSUME TypeInv, DailyTypes, [Next]_vars
  PROVE  DailyTypes'
  <1>1. keys' \in Schemas
    BY OnlyCommits DEF DailyTypes
  <1>2. ASSUME NEW c \in Calls
        PROVE  /\ daily'[c] \in {"unread", "none", "row", "gone"}
               /\ daily'[c] # "unread" => Ingests(c) /\ c \in InFlight'
    <2>1. /\ daily[c] \in {"unread", "none", "row", "gone"}
          /\ daily[c] # "unread" => Ingests(c) /\ c \in InFlight
      BY DEF DailyTypes
    <2>2. (pc[c] = "rest" => Ingests(c)) /\ (pc'[c] = "alerts" => c \in InFlight')
      BY DEF TypeInv, Progress, InFlight
    <2>3. QED
      BY <2>1, <2>2, DaySteps
  <1>3. daily' \in [Calls -> {"unread", "none", "row", "gone"}]
    <2>1. daily \in [Calls -> {"unread", "none", "row", "gone"}]
      BY DEF DailyTypes
    <2>2. ASSUME NEW c \in Calls, NEW s \in {"unread", "none", "row"},
                 daily' = [daily EXCEPT ![c] = s]
          PROVE  daily' \in [Calls -> {"unread", "none", "row", "gone"}]
      BY <2>1, <2>2
    <2>3. ASSUME NEW c \in Calls, Serve(c) \/ Lose(c) \/ FailEarly(c) \/ FailLate(c)
          PROVE  daily' = daily \/ \E s \in {"unread", "none", "row"} :
                                     daily' = [daily EXCEPT ![c] = s]
      <3>1. Receive(c) \/ PoolTimeout(c) \/ Commit(c) \/ Raise(c) =>
              daily' = daily \/ daily' = [daily EXCEPT ![c] = "unread"]
        BY DEF Receive, PoolTimeout, Commit, Raise, Finished
      <3>2. ReadSummary(c) => \E s \in {"none", "row"} : daily' = [daily EXCEPT ![c] = s]
        BY DEF ReadSummary
      <3>3. Lose(c) \/ ReadInventory(c) \/ ReadRegistration(c) \/ ReadUsage(c) \/ FlushIngest(c)
              \/ FlushUpsert(c) \/ Link(c) \/ FailEarly(c) \/ FailLate(c) => daily' = daily
        BY DEF Lose, ReadInventory, ReadRegistration, ReadUsage, FlushIngest, FlushUpsert, Link,
               FailEarly, FailLate, Flush, day
      <3>4. QED
        BY <2>3, <3>1, <3>2, <3>3 DEF Serve
    <2>4. CASE Restart \/ Rebuild
      BY <1>2, <2>4 DEF Restart, Rebuild
    <2>5. CASE UNCHANGED vars
      BY <2>1, <2>5 DEF vars, day
    <2>6. QED
      BY <2>1, <2>2, <2>3, <2>4, <2>5 DEF Next
  <1>4. QED
    BY <1>1, <1>2, <1>3 DEF DailyTypes, Ingests

LEMMA DailyStep ==
  ASSUME TypeInv, DailyInv, [Next]_vars
  PROVE  DailyInv'
  <1>1. /\ DailyTypes /\ pc \in [Calls -> Flying \cup {"sent", "done"}]
        /\ InFlight \subseteq Calls /\ InFlight' \subseteq Calls
    BY DEF DailyInv, TypeInv, Shapes, InFlight
  <1>2. ASSUME NEW c \in Calls, c \in InFlight' PROVE c \in disturbed => c \in disturbed'
    <2>1. ~Commit(c)
      BY <1>2, CommitStores DEF InFlight
    <2>2. QED
      BY <1>1, <2>1, DaySteps
  <1>3. ASSUME NEW c \in Calls, c \in InFlight', c \notin InFlight
        PROVE  /\ daily'[c] = daily[c] /\ Receive(c) /\ pc'[c] = "inventory"
               /\ disturbed' = disturbed \cup With(c, {d \in InFlight : SameSummary(c, d)})
    <2>1. Receive(c) /\ pc'[c] = "inventory"
      BY <1>3, Flies DEF InFlight, ReadInventory
    <2>2. Of[c].by # "module"
      BY <1>1, <2>1 DEF Receive, Finished, Goto
    <2>3. QED
      BY <2>1, <2>2 DEF Receive
  <1>4. ASSUME NEW c \in InFlight', NEW d \in InFlight', c # d, SameSummary(c, d)
        PROVE  c \in disturbed'
    <2>1. SameSummary(d, c) /\ c \in Calls /\ d \in Calls
      BY <1>1, <1>4 DEF SameSummary
    <2>2. CASE c \in InFlight /\ d \in InFlight
      BY <1>2, <1>4, <2>1, <2>2 DEF DailyInv
    <2>3. ASSUME c \notin InFlight PROVE c \in disturbed'
      <3>1. d \in InFlight
        <4>1. pc'[d] = pc[d]
          BY <1>1, <1>3, <1>4, <2>1, <2>3 DEF Receive, Finished, Goto
        <4>2. QED
          BY <1>4, <2>1, <4>1 DEF InFlight
      <3>2. QED
        BY <1>3, <1>4, <2>1, <2>3, <3>1 DEF With
    <2>4. ASSUME d \notin InFlight PROVE c \in disturbed'
      <3>1. c \in InFlight
        <4>1. pc'[c] = pc[c]
          BY <1>1, <1>3, <1>4, <2>1, <2>4 DEF Receive, Finished, Goto
        <4>2. QED
          BY <1>4, <2>1, <4>1 DEF InFlight
      <3>2. QED
        BY <1>3, <1>4, <2>1, <2>4, <3>1 DEF With
    <2>5. QED
      BY <2>2, <2>3, <2>4
  <1>5. ASSUME NEW c \in InFlight', c \notin disturbed', ClashDaily(c)' PROVE FALSE
    <2>1. c \in Calls /\ c \notin disturbed
      BY <1>1, <1>2, <1>5
    <2>2. daily'[c] = "gone" \/ (daily'[c] = "none" /\ SummaryKey(c) \in summaries')
      BY <1>5 DEF ClashDaily, SummaryKey
    <2>3. CASE daily'[c] # daily[c]
      BY <1>1, <1>5, <2>1, <2>2, <2>3, DaySteps
    <2>4. CASE daily'[c] = daily[c]
      <3>1. c \in InFlight /\ Ingests(c) /\ ~ClashDaily(c)
        BY <1>1, <1>5, <2>1, <2>2, <2>4 DEF DailyTypes, DailyInv
      <3>2. daily[c] = "none" /\ SummaryKey(c) \notin summaries /\ SummaryKey(c) \in summaries'
        BY <1>5, <2>4, <3>1 DEF ClashDaily, SummaryKey
      <3>3. PICK e \in Calls : /\ Commit(e) /\ daily[e] = "none"
                              /\ summaries' \subseteq summaries \cup {SummaryKey(e)}
        BY <1>1, <1>5, <2>1, <3>2, DaySteps
      <3>4. e # c /\ e \in InFlight
        BY <1>5, <3>3, CommitStores DEF InFlight
      <3>5. SameSummary(c, e)
        BY <1>1, <3>1, <3>2, <3>3 DEF SameSummary, DailyTypes
      <3>6. QED
        BY <2>1, <3>1, <3>4, <3>5 DEF DailyInv
    <2>5. QED
      BY <2>3, <2>4
  <1>6. QED
    BY <1>1, <1>4, <1>5, DailyTypesStep DEF DailyInv, SameSummary, SummaryKey, Ingests

-----------------------------------------------------------------------------
(* Refusals *)

\* A flush fails on a row that came after the read, or on one of another project.
LEMMA ClashReason ==
  ASSUME TypeInv, IdInv, OverlapInv, NEW c \in Calls, pc[c] = "flush", Clash(c)
  PROVE  c \in overlap \/ Foreign(c)
  <1>1. c \in InFlight
    BY DEF InFlight
  <1>2. ASSUME plan[c].inv = None, NEW i \in inventory, i.fn = Of[c].fn,
               KeyedInventory(c, i.project), i.project # Of[c].project
        PROVE  Foreign(c)
    <2>1. "function" \in keys
      BY <1>2 DEF KeyedInventory
    <2>2. i.id \in Stored /\ SameFunction(c, i.id) /\ Of[i.id].project # Of[c].project
      BY <1>2 DEF IdInv, SameFunction
    <2>3. QED
      BY <2>1, <2>2 DEF Foreign
  <1>3. QED
    BY <1>1, <1>2 DEF Clash, OverlapInv, KeyTaken

LEMMA RefusedStep ==
  ASSUME TypeInv, IdInv, OverlapInv, DailyInv, RefusedInv, [Next]_vars
  PROVE  RefusedInv'
  <1>1. /\ overlap \subseteq overlap' /\ faulted \subseteq faulted' /\ keys' = keys
        /\ Stored \subseteq Stored'
    BY OnlyCommits, CommitStores
  <1>2. ASSUME NEW c \in Calls, ~Commit(c), Reason(c) PROVE Reason(c)'
    <2>1. c \in disturbed => c \in disturbed'
      BY <1>2, DaySteps DEF DailyInv
    <2>2. Foreign(c) => Foreign(c)'
      BY <1>1 DEF Foreign, SameFunction
    <2>3. QED
      BY <1>1, <1>2, <2>1, <2>2 DEF Reason
  <1>3. ASSUME NEW c \in Calls, pc'[c] = "poisoned" PROVE Reason(c)'
    <2>1. c \in InFlight' /\ ~Commit(c)
      BY <1>3, CommitStores DEF InFlight
    <2>2. \/ pc[c] = "poisoned" \/ c \in faulted'
          \/ pc[c] = "flush" /\ Clash(c)
          \/ pc[c] \in {"rest", "alerts"} /\ ClashDaily(c)
      BY <1>3, <2>1, Flies
    <2>3. c \in faulted' \/ Reason(c)
      <3>1. pc[c] = "flush" /\ Clash(c) => Reason(c)
        BY ClashReason DEF Reason
      <3>2. pc[c] \in {"rest", "alerts"} /\ ClashDaily(c) => Reason(c)
        BY DEF DailyInv, InFlight, Reason
      <3>3. QED
        BY <2>2, <3>1, <3>2 DEF RefusedInv
    <2>4. QED
      BY <1>2, <2>1, <2>3 DEF Reason
  <1>4. ASSUME NEW c \in Calls, answer'[c] = 500 PROVE Reason(c)'
    <2>1. c \in disturbed' \/ Reason(c)
      BY <1>4, RefusedBy DEF RefusedInv
    <2>2. ~Commit(c)
      BY <1>4, CommitStores
    <2>3. QED
      BY <1>2, <2>1, <2>2 DEF Reason
  <1>5. QED
    BY <1>3, <1>4 DEF RefusedInv

-----------------------------------------------------------------------------
(* The rows a call is counted in *)

\* Each stored call is in one row of its key at most, so the rows of a key share the calls
\* of that key: at says which, and no row counts more than its share.  S are the stored
\* calls, rows those of the table, read what the requests in flight have read.
Ended(S, s) == {d \in S : Of[d].status = s}
Charged(S) == {d \in S : Ingests(d) /\ Of[d].model # None}
Shares(at, S) == [x \in Calls |-> Cardinality({d \in S : at[d] = x})]
Moved(at, c, y) == [at EXCEPT ![c] = y]
Grown(A, B, y) ==
  \A x \in Calls : A[x] \in Nat /\ B[x] \in Nat /\ A[x] <= B[x] /\ (x = y => B[x] = A[x] + 1)
Covers(at, row, S) ==
  /\ row.total <= Shares(at, S)[row.id]
  /\ row.ok <= Shares(at, Ended(S, "success"))[row.id]
  /\ row.err <= Shares(at, Ended(S, "error"))[row.id]
InventoryShared(at, S, rows, read) ==
  /\ \A d \in S : SameInventory(at[d], d)
  /\ \A i \in rows : Covers(at, i, S)
  /\ \A c \in Calls : read[c].inv # None => Covers(at, read[c].inv, S)
RegistrationsShared(at, S, rows, read) ==
  /\ \A d \in S : SameFunction(at[d], d)
  /\ \A g \in rows : g.count <= Shares(at, S)[g.id]
  /\ \A c \in Calls : read[c].reg # None =>
       read[c].reg.count <= Shares(at, S)[read[c].reg.id]
UsageShared(at, S, rows, read) ==
  /\ \A d \in S : SameUsage(at[d], d)
  /\ \A u \in rows : u.count <= Shares(at, S)[u.id]
  /\ \A c \in Calls : read[c].use # None =>
       read[c].use.count <= Shares(at, S)[read[c].use.id]
UsageIds ==
  /\ \A u, v \in usage : u.id = v.id => u = v
  /\ \A c \in Calls : pc[c] = "usage" => Ingests(c) /\ Of[c].model # None
  /\ \A c \in Calls : plan[c].use # None => SameUsage(plan[c].use.id, c)
ShareInv ==
  /\ UsageIds
  /\ \E at \in [Calls -> Calls] : InventoryShared(at, Stored, inventory, plan)
  /\ \E at \in [Calls -> Calls] : RegistrationsShared(at, Stored, registrations, plan)
  /\ \E at \in [Calls -> Calls] : UsageShared(at, Charged(Stored), usage, plan)

\* What a call then knows of the usages.
LEMMA UsesKnow ==
  ASSUME TypeInv, [Next]_vars, NEW d \in Calls
  PROVE  \/ plan'[d].use = plan[d].use \/ plan'[d].use = None
         \/ /\ UNCHANGED tables /\ plan'[d].use \in usage /\ pc[d] = "usage"
            /\ plan'[d].use.project = Of[d].project /\ plan'[d].use.model = Of[d].model
  <1>1. plan[d] \in Plans
    BY DEF TypeInv, Shapes
  <1>2. NoPlan.use = None
    BY DEF NoPlan
  <1>3. \A r : /\ [plan[d] EXCEPT !.inv = r].use = plan[d].use
               /\ [plan[d] EXCEPT !.reg = r].use = plan[d].use
               /\ [plan[d] EXCEPT !.use = r].use = r
    BY <1>1 DEF Plans
  <1>4. CASE plan'[d] = plan[d] \/ plan'[d] = NoPlan
    BY <1>2, <1>4
  <1>5. CASE \E r : plan'[d] = [plan[d] EXCEPT !.inv = r] \/ plan'[d] = [plan[d] EXCEPT !.reg = r]
    BY <1>3, <1>5
  <1>6. CASE /\ ReadUsage(d) /\ UNCHANGED tables
             /\ \E r \in First({u \in usage : u.project = Of[d].project /\ u.model = Of[d].model}) :
                  plan'[d] = [plan[d] EXCEPT !.use = r]
    <2>1. PICK r \in First({u \in usage : u.project = Of[d].project /\ u.model = Of[d].model}) :
            plan'[d] = [plan[d] EXCEPT !.use = r]
      BY <1>6
    <2>2. r = None \/ (r \in usage /\ r.project = Of[d].project /\ r.model = Of[d].model)
      BY FirstIs
    <2>3. plan'[d].use = r /\ pc[d] = "usage" /\ UNCHANGED tables
      BY <1>3, <1>6, <2>1 DEF ReadUsage
    <2>4. QED
      BY <2>2, <2>3
  <1>7. QED
    BY <1>4, <1>5, <1>6, ReadsOnly

LEMMA UsageIdsStep ==
  ASSUME TypeInv, IdInv, UsageIds, [Next]_vars
  PROVE  UsageIds'
  <1>1. Shapes /\ \A d \in Calls : Progress(d)
    BY DEF TypeInv
  <1>2. ASSUME NEW d \in Calls, pc'[d] = "usage" PROVE Ingests(d) /\ Of[d].model # None
    <2>1. d \in InFlight'
      BY <1>2 DEF InFlight
    <2>2. QED
      BY <1>2, <2>1, Flies DEF UsageIds
  <1>3. ASSUME NEW d \in Calls, plan'[d].use # None PROVE SameUsage(plan'[d].use.id, d)
    BY <1>3, UsesKnow DEF UsageIds, IdInv, SameUsage
  <1>4. ASSUME NEW u \in usage', NEW v \in usage', u.id = v.id PROVE u = v
    <2>1. CASE UNCHANGED tables
      BY <1>4, <2>1 DEF UsageIds, tables
    <2>2. ASSUME NEW c \in Calls, Commit(c) PROVE u = v
      <3>1. c \notin Stored
        BY <2>2, CommitStores
      <3>2. CASE usage' = usage
        BY <1>4, <3>2 DEF UsageIds
      <3>3. CASE usage' = usage \cup {NewUsage(c)}
        <4>1. NewUsage(c).id = c
          BY DEF NewUsage
        <4>2. QED
          BY <1>4, <3>1, <3>3, <4>1 DEF UsageIds, IdInv
      <3>4. CASE plan[c].use # None /\ usage' = {Used(c, r) : r \in usage}
        <4>1. PICK r \in usage : u = Used(c, r)
          BY <3>4
        <4>2. PICK q \in usage : v = Used(c, q)
          BY <3>4
        <4>3. u.id = r.id /\ v.id = q.id
          BY <1>1, <3>4, <4>1, <4>2, UsedIs DEF Shapes
        <4>4. QED
          BY <1>4, <4>1, <4>2, <4>3 DEF UsageIds
      <3>5. QED
        BY <2>2, <3>2, <3>3, <3>4, CommitWrites
    <2>3. QED
      BY <2>1, <2>2, OnlyCommits
  <1>5. QED
    BY <1>2, <1>3, <1>4 DEF UsageIds, SameUsage, Ingests

LEMMA SharesAre ==
  ASSUME NEW S \in SUBSET Calls, NEW at, NEW x \in Calls
  PROVE  Shares(at, S)[x] \in Nat
  <1>1. PICK M : M = {d \in S : at[d] = x}
    OBVIOUS
  <1>2. Shares(at, S)[x] = Cardinality(M) /\ M \in SUBSET Calls
    BY <1>1 DEF Shares
  <1>3. QED
    BY <1>2, StoredFinite

\* A call that is stored joins the share of one row; a call that is not changes no share.
LEMMA SharesStay ==
  ASSUME NEW c \in Calls, NEW S \in SUBSET Calls, c \notin S, NEW at \in [Calls -> Calls],
         NEW y \in Calls
  PROVE  Shares(Moved(at, c, y), S) = Shares(at, S)
  <1>1. \A d \in S : Moved(at, c, y)[d] = at[d]
    BY DEF Moved
  <1>2. QED
    BY <1>1 DEF Shares

LEMMA SharesGrow ==
  ASSUME NEW c \in Calls, NEW S \in SUBSET Calls, c \notin S, NEW at \in [Calls -> Calls],
         NEW y \in Calls
  PROVE  Grown(Shares(at, S), Shares(Moved(at, c, y), S \cup {c}), y)
  <1>1. PICK A : A = Shares(at, S)
    OBVIOUS
  <1>2. PICK B : B = Shares(Moved(at, c, y), S \cup {c})
    OBVIOUS
  <1>3. ASSUME NEW x \in Calls
        PROVE  A[x] \in Nat /\ B[x] \in Nat /\ A[x] <= B[x] /\ (x = y => B[x] = A[x] + 1)
    <2>1. PICK M : M = {d \in S : at[d] = x}
      OBVIOUS
    <2>2. PICK N : N = {d \in S \cup {c} : Moved(at, c, y)[d] = x}
      OBVIOUS
    <2>3. M \in SUBSET Calls /\ c \notin M /\ N = IF x = y THEN M \cup {c} ELSE M
      BY <2>1, <2>2 DEF Moved
    <2>4. A[x] = Cardinality(M) /\ B[x] = Cardinality(N)
      BY <1>1, <1>2, <2>1, <2>2 DEF Shares
    <2>5. IsFiniteSet(M) /\ Cardinality(M) \in Nat
      BY <2>3, StoredFinite
    <2>6. Cardinality(M \cup {c}) = Cardinality(M) + 1
      BY <2>3, <2>5, FS_AddElement
    <2>7. CASE x = y
      BY <2>3, <2>4, <2>5, <2>6, <2>7
    <2>8. CASE x # y
      BY <2>3, <2>4, <2>5, <2>8
    <2>9. QED
      BY <2>7, <2>8
  <1>4. QED
    BY <1>1, <1>2, <1>3 DEF Grown

LEMMA InventoryJoins ==
  ASSUME TypeInv, IdInv, NEW c \in Calls, Commit(c), NEW at \in [Calls -> Calls],
         InventoryShared(at, Stored, inventory, plan),
         NEW y, y = IF plan[c].inv = None THEN c ELSE plan[c].inv.id,
         NEW to, to = Moved(at, c, y), NEW S, S = Stored'
  PROVE  /\ y \in Calls /\ SameInventory(y, c)
         /\ \A row \in InventoryRow : Covers(at, row, Stored) => Covers(to, row, S)
         /\ \A i \in inventory' : Covers(to, i, S)
  <1>1. Shapes /\ \A row \in InventoryRow :
          row.id \in Calls /\ row.total \in Nat /\ row.ok \in Nat /\ row.err \in Nat
    BY DEF TypeInv, InventoryRow
  <1>2. y \in Calls /\ SameInventory(y, c)
    BY <1>1, PlanIs DEF IdInv, SameInventory, SameFunction
  <1>3. S = Stored \cup {c} /\ c \notin Stored /\ Stored \in SUBSET Calls
    BY CommitStores DEF Stored
  <1>4. PICK A : A = Shares(at, Stored)
    OBVIOUS
  <1>5. PICK B : B = Shares(to, S)
    OBVIOUS
  <1>6. Grown(A, B, y)
    BY <1>2, <1>3, <1>4, <1>5, SharesGrow
  <1>7. ASSUME NEW s, NEW O, O = Shares(at, Ended(Stored, s)), NEW N, N = Shares(to, Ended(S, s))
        PROVE  IF Of[c].status = s THEN Grown(O, N, y)
               ELSE O = N /\ \A x \in Calls : O[x] \in Nat
    <2>1. PICK R : R = Ended(Stored, s)
      OBVIOUS
    <2>2. PICK T : T = Ended(S, s)
      OBVIOUS
    <2>3. R \in SUBSET Calls /\ c \notin R /\ T = IF Of[c].status = s THEN R \cup {c} ELSE R
      BY <1>3, <2>1, <2>2 DEF Ended
    <2>4. O = Shares(at, R) /\ N = Shares(Moved(at, c, y), T)
      BY <1>7, <2>1, <2>2
    <2>5. CASE Of[c].status = s
      BY <1>2, <2>3, <2>4, <2>5, SharesGrow
    <2>6. CASE Of[c].status # s
      BY <1>2, <2>3, <2>4, <2>6, SharesStay, SharesAre
    <2>7. QED
      BY <2>5, <2>6
  <1>8. PICK P : P = Shares(at, Ended(Stored, "success"))
    OBVIOUS
  <1>9. PICK Q : Q = Shares(to, Ended(S, "success"))
    OBVIOUS
  <1>10. \A x \in Calls : /\ P[x] \in Nat /\ Q[x] \in Nat /\ P[x] <= Q[x]
                          /\ x = y /\ Of[c].status = "success" => Q[x] = P[x] + 1
    BY <1>7, <1>8, <1>9 DEF Grown
  <1>11. PICK E : E = Shares(at, Ended(Stored, "error"))
    OBVIOUS
  <1>12. PICK F : F = Shares(to, Ended(S, "error"))
    OBVIOUS
  <1>13. \A x \in Calls : /\ E[x] \in Nat /\ F[x] \in Nat /\ E[x] <= F[x]
                          /\ x = y /\ Of[c].status = "error" => F[x] = E[x] + 1
    BY <1>7, <1>11, <1>12 DEF Grown
  <1>14. ASSUME NEW row
         PROVE  /\ Covers(at, row, Stored) <=>
                     row.total <= A[row.id] /\ row.ok <= P[row.id] /\ row.err <= E[row.id]
                /\ Covers(to, row, S) <=>
                     row.total <= B[row.id] /\ row.ok <= Q[row.id] /\ row.err <= F[row.id]
    BY <1>4, <1>5, <1>8, <1>9, <1>11, <1>12 DEF Covers
  <1>15. ASSUME NEW row \in InventoryRow, Covers(at, row, Stored) PROVE Covers(to, row, S)
    BY <1>1, <1>6, <1>10, <1>13, <1>14, <1>15 DEF Grown
  <1>16. ASSUME NEW i \in inventory' PROVE Covers(to, i, S)
    <2>1. CASE plan[c].inv = None
      <3>1. i \in inventory \/ i = NewItem(c)
        BY <2>1, CommitWrites
      <3>2. CASE i \in inventory
        BY <1>1, <1>15, <3>2 DEF InventoryShared, Shapes
      <3>3. CASE i = NewItem(c)
        <4>1. i.id = y /\ i.total = 1 /\ i.ok = One(c, "success") /\ i.err = One(c, "error")
          BY <2>1, <3>3 DEF NewItem
        <4>2. i.total <= B[y] /\ i.ok <= Q[y] /\ i.err <= F[y]
          BY <1>2, <1>6, <1>10, <1>13, <4>1 DEF One, Grown
        <4>3. QED
          BY <1>14, <4>1, <4>2
      <3>4. QED
        BY <3>1, <3>2, <3>3
    <2>2. CASE plan[c].inv # None
      <3>1. PICK r \in inventory : i = Item(c, r)
        BY <2>2, CommitWrites
      <3>2. r \in InventoryRow /\ Covers(at, r, Stored) /\ Covers(to, r, S)
        BY <1>1, <1>15, <3>1 DEF InventoryShared, Shapes
      <3>3. PICK seen \in InventoryRow : seen = plan[c].inv
        BY <1>1, <2>2, PlanIs
      <3>4. Covers(at, seen, Stored) /\ seen.id = y
        BY <1>2, <2>2, <3>3 DEF InventoryShared
      <3>5. CASE r.id # y
        BY <1>1, <2>2, <3>1, <3>2, <3>3, <3>4, <3>5, ItemIs
      <3>6. CASE r.id = y
        <4>1. /\ i.id = y /\ i.total = seen.total + 1
              /\ i.ok = IF Of[c].status = "success" THEN seen.ok + 1 ELSE r.ok
              /\ i.err = IF Of[c].status = "error" THEN seen.err + 1 ELSE r.err
          BY <1>1, <2>2, <3>1, <3>2, <3>3, <3>4, <3>6, ItemIs
        <4>2. /\ seen.total \in Nat /\ seen.ok \in Nat /\ seen.err \in Nat
              /\ seen.total <= A[y] /\ seen.ok <= P[y] /\ seen.err <= E[y]
              /\ r.ok <= Q[y] /\ r.err <= F[y]
          BY <1>1, <1>14, <3>2, <3>4, <3>6
        <4>3. i.total <= B[y]
          BY <1>2, <1>6, <4>1, <4>2 DEF Grown
        <4>4. i.ok <= Q[y]
          BY <1>2, <1>10, <4>1, <4>2
        <4>5. i.err <= F[y]
          BY <1>2, <1>13, <4>1, <4>2
        <4>6. QED
          BY <1>14, <4>1, <4>3, <4>4, <4>5
      <3>7. QED
        BY <3>5, <3>6
    <2>3. QED
      BY <2>1, <2>2
  <1>17. QED
    BY <1>2, <1>15, <1>16

LEMMA InventoryShareStep ==
  ASSUME TypeInv, IdInv, [Next]_vars, NEW at \in [Calls -> Calls],
         InventoryShared(at, Stored, inventory, plan)
  PROVE  \E to \in [Calls -> Calls] : InventoryShared(to, Stored', inventory', plan')
  <1>1. Shapes
    BY DEF TypeInv
  <1>2. ASSUME NEW d \in Calls, plan'[d].inv # None
        PROVE  plan'[d].inv \in InventoryRow /\ Covers(at, plan'[d].inv, Stored)
    BY <1>1, <1>2, ReadsKnow, PlanIs DEF InventoryShared, Shapes
  <1>3. CASE UNCHANGED <<tables, Stored>>
    <2>1. InventoryShared(at, Stored', inventory', plan')
      BY <1>2, <1>3 DEF InventoryShared, tables
    <2>2. QED
      BY <2>1
  <1>4. ASSUME NEW c \in Calls, Commit(c)
        PROVE  \E to \in [Calls -> Calls] : InventoryShared(to, Stored', inventory', plan')
    <2>1. PICK y : y = IF plan[c].inv = None THEN c ELSE plan[c].inv.id
      OBVIOUS
    <2>2. PICK to : to = Moved(at, c, y)
      OBVIOUS
    <2>3. PICK S : S = Stored'
      OBVIOUS
    <2>4. /\ y \in Calls /\ SameInventory(y, c)
          /\ \A row \in InventoryRow : Covers(at, row, Stored) => Covers(to, row, S)
          /\ \A i \in inventory' : Covers(to, i, S)
      BY <1>4, <2>1, <2>2, <2>3, InventoryJoins
    <2>5. to \in [Calls -> Calls]
      BY <2>2, <2>4 DEF Moved
    <2>6. S = Stored \cup {c} /\ Stored \subseteq Calls
      BY <1>4, <2>3, CommitStores DEF Stored
    <2>7. \A d \in S : SameInventory(to[d], d)
      BY <2>2, <2>4, <2>6 DEF InventoryShared, Moved
    <2>8. \A d \in Calls : plan'[d].inv # None => Covers(to, plan'[d].inv, S)
      BY <1>2, <2>4
    <2>9. InventoryShared(to, S, inventory', plan')
      BY <2>4, <2>7, <2>8 DEF InventoryShared
    <2>10. QED
      BY <2>3, <2>5, <2>9
  <1>5. QED
    BY <1>3, <1>4, OnlyCommits

LEMMA RegistrationShareStep ==
  ASSUME TypeInv, IdInv, [Next]_vars, NEW at \in [Calls -> Calls],
         RegistrationsShared(at, Stored, registrations, plan)
  PROVE  \E to \in [Calls -> Calls] : RegistrationsShared(to, Stored', registrations', plan')
  <1>1. Shapes /\ \A row \in RegistrationRow : row.id \in Calls /\ row.count \in Nat
    BY DEF TypeInv, RegistrationRow
  <1>2. PICK A : A = Shares(at, Stored)
    OBVIOUS
  <1>3. \A g \in registrations : g \in RegistrationRow /\ g.count <= A[g.id]
    BY <1>1, <1>2 DEF RegistrationsShared, Shapes
  <1>4. ASSUME NEW d \in Calls, plan'[d].reg # None
        PROVE  plan'[d].reg \in RegistrationRow /\ plan'[d].reg.count <= A[plan'[d].reg.id]
    BY <1>1, <1>2, <1>3, <1>4, ReadsKnow, PlanIs DEF RegistrationsShared
  <1>5. CASE UNCHANGED <<tables, Stored>>
    <2>1. RegistrationsShared(at, Stored, registrations', plan')
      BY <1>2, <1>4, <1>5 DEF RegistrationsShared, tables
    <2>2. QED
      BY <1>5, <2>1
  <1>6. ASSUME NEW c \in Calls, Commit(c)
        PROVE  \E to \in [Calls -> Calls] : RegistrationsShared(to, Stored', registrations', plan')
    <2>1. PICK y : y = IF plan[c].reg = None THEN c ELSE plan[c].reg.id
      OBVIOUS
    <2>2. PICK to : to = Moved(at, c, y)
      OBVIOUS
    <2>3. PICK S : S = Stored'
      OBVIOUS
    <2>4. y \in Calls /\ SameFunction(y, c)
      BY <1>1, <2>1, PlanIs DEF IdInv, SameFunction
    <2>5. S = Stored \cup {c} /\ c \notin Stored /\ Stored \in SUBSET Calls
      BY <1>6, <2>3, CommitStores DEF Stored
    <2>6. PICK B : B = Shares(to, S)
      OBVIOUS
    <2>7. Grown(A, B, y)
      BY <1>2, <2>2, <2>4, <2>5, <2>6, SharesGrow
    <2>8. \A row \in RegistrationRow : row.count <= A[row.id] => row.count <= B[row.id]
      BY <1>1, <2>7 DEF Grown
    <2>9. ASSUME NEW g \in registrations' PROVE g.count <= B[g.id]
      <3>1. CASE plan[c].reg = None
        <4>1. NewRegistration(c).id = y /\ NewRegistration(c).count = 1
          BY <2>1, <3>1 DEF NewRegistration
        <4>2. 1 <= B[y]
          BY <2>4, <2>7 DEF Grown
        <4>3. g \in registrations \/ g = NewRegistration(c)
          BY <1>6, <3>1, CommitWrites
        <4>4. QED
          BY <1>3, <2>8, <4>1, <4>2, <4>3
      <3>2. CASE plan[c].reg # None
        <4>1. PICK h \in registrations : g = Registration(c, h)
          BY <1>6, <3>2, CommitWrites
        <4>2. PICK seen \in RegistrationRow : seen = plan[c].reg
          BY <1>1, <3>2, PlanIs
        <4>3. seen.id = y /\ seen.count \in Nat /\ seen.count <= A[y]
          BY <1>1, <1>2, <2>1, <3>2, <4>2 DEF RegistrationsShared
        <4>4. h \in RegistrationRow /\ h.count <= B[h.id]
          BY <1>3, <2>8
        <4>5. CASE h.id # y
          BY <1>1, <3>2, <4>1, <4>2, <4>3, <4>4, <4>5, RegistrationIs
        <4>6. CASE h.id = y
          <5>1. g.id = y /\ g.count = seen.count + 1
            BY <1>1, <3>2, <4>1, <4>2, <4>3, <4>4, <4>6, RegistrationIs
          <5>2. QED
            BY <2>4, <2>7, <4>3, <5>1 DEF Grown
        <4>7. QED
          BY <4>5, <4>6
      <3>3. QED
        BY <3>1, <3>2
    <2>10. to \in [Calls -> Calls] /\ \A d \in S : SameFunction(to[d], d)
      BY <2>2, <2>4, <2>5 DEF RegistrationsShared, Moved
    <2>11. \A d \in Calls : plan'[d].reg # None => plan'[d].reg.count <= B[plan'[d].reg.id]
      BY <1>4, <2>8
    <2>12. RegistrationsShared(to, S, registrations', plan')
      BY <2>6, <2>9, <2>10, <2>11 DEF RegistrationsShared
    <2>13. QED
      BY <2>3, <2>10, <2>12
  <1>7. QED
    BY <1>5, <1>6, OnlyCommits

\* A usage row counts the ingests of its model.
LEMMA UsedCount ==
  ASSUME Shapes, NEW c \in Calls, plan[c].use # None, NEW u \in UsageRow
  PROVE  /\ Used(c, u).id = u.id
         /\ u.id # plan[c].use.id => Used(c, u) = u
         /\ u.id = plan[c].use.id => Used(c, u).count = plan[c].use.count + 1
  BY DEF Used, UsageRow

LEMMA UsageShareStep ==
  ASSUME TypeInv, IdInv, UsageIds, [Next]_vars, NEW at \in [Calls -> Calls],
         UsageShared(at, Charged(Stored), usage, plan)
  PROVE  \E to \in [Calls -> Calls] : UsageShared(to, Charged(Stored'), usage', plan')
  <1>1. Shapes /\ \A row \in UsageRow : row.id \in Calls /\ row.count \in Nat
    BY DEF TypeInv, UsageRow
  <1>2. PICK R : R = Charged(Stored)
    OBVIOUS
  <1>3. PICK A : A = Shares(at, R)
    OBVIOUS
  <1>4. \A u \in usage : u \in UsageRow /\ u.count <= A[u.id]
    BY <1>1, <1>2, <1>3 DEF UsageShared, Shapes
  <1>5. ASSUME NEW d \in Calls, plan'[d].use # None
        PROVE  plan'[d].use \in UsageRow /\ plan'[d].use.count <= A[plan'[d].use.id]
    BY <1>1, <1>2, <1>3, <1>4, <1>5, UsesKnow, PlanIs DEF UsageShared
  <1>6. CASE usage' = usage /\ Charged(Stored') = R
    <2>1. UsageShared(at, R, usage', plan')
      BY <1>2, <1>3, <1>5, <1>6 DEF UsageShared
    <2>2. QED
      BY <1>6, <2>1
  <1>7. ASSUME NEW c \in Calls, Commit(c), Ingests(c) /\ Of[c].model # None
        PROVE  \E to \in [Calls -> Calls] : UsageShared(to, Charged(Stored'), usage', plan')
    <2>1. PICK y : y = IF plan[c].use = None THEN c ELSE plan[c].use.id
      OBVIOUS
    <2>2. PICK to : to = Moved(at, c, y)
      OBVIOUS
    <2>3. PICK S : S = Charged(Stored')
      OBVIOUS
    <2>4. y \in Calls /\ SameUsage(y, c)
      BY <1>1, <1>7, <2>1, PlanIs DEF UsageIds, SameUsage
    <2>5. S = R \cup {c} /\ c \notin R /\ R \in SUBSET Calls
      BY <1>2, <1>7, <2>3, CommitStores DEF Stored, Charged
    <2>6. PICK B : B = Shares(to, S)
      OBVIOUS
    <2>7. Grown(A, B, y)
      BY <1>3, <2>2, <2>4, <2>5, <2>6, SharesGrow
    <2>8. \A row \in UsageRow : row.count <= A[row.id] => row.count <= B[row.id]
      BY <1>1, <2>7 DEF Grown
    <2>9. ASSUME NEW u \in usage' PROVE u.count <= B[u.id]
      <3>1. CASE plan[c].use = None
        <4>1. NewUsage(c).id = y /\ NewUsage(c).count = 1
          BY <2>1, <3>1 DEF NewUsage
        <4>2. 1 <= B[y]
          BY <2>4, <2>7 DEF Grown
        <4>3. u \in usage \/ u = NewUsage(c)
          BY <1>7, <3>1, CommitWrites
        <4>4. QED
          BY <1>4, <2>8, <4>1, <4>2, <4>3
      <3>2. CASE plan[c].use # None
        <4>1. PICK h \in usage : u = Used(c, h)
          BY <1>7, <3>2, CommitWrites
        <4>2. PICK seen \in UsageRow : seen = plan[c].use
          BY <1>1, <3>2, PlanIs
        <4>3. seen.id = y /\ seen.count \in Nat /\ seen.count <= A[y]
          BY <1>1, <1>2, <1>3, <2>1, <3>2, <4>2 DEF UsageShared
        <4>4. h \in UsageRow /\ h.count <= B[h.id]
          BY <1>4, <2>8
        <4>5. CASE h.id # y
          BY <1>1, <3>2, <4>1, <4>2, <4>3, <4>4, <4>5, UsedCount
        <4>6. CASE h.id = y
          <5>1. u.id = y /\ u.count = seen.count + 1
            BY <1>1, <3>2, <4>1, <4>2, <4>3, <4>4, <4>6, UsedCount
          <5>2. QED
            BY <2>4, <2>7, <4>3, <5>1 DEF Grown
        <4>7. QED
          BY <4>5, <4>6
      <3>3. QED
        BY <3>1, <3>2
    <2>10. to \in [Calls -> Calls] /\ \A d \in S : SameUsage(to[d], d)
      BY <1>2, <2>2, <2>4, <2>5 DEF UsageShared, Moved
    <2>11. \A d \in Calls : plan'[d].use # None => plan'[d].use.count <= B[plan'[d].use.id]
      BY <1>5, <2>8
    <2>12. UsageShared(to, S, usage', plan')
      BY <2>6, <2>9, <2>10, <2>11 DEF UsageShared
    <2>13. QED
      BY <2>3, <2>10, <2>12
  <1>8. CASE UNCHANGED <<tables, Stored>>
    BY <1>2, <1>6, <1>8 DEF tables
  <1>9. ASSUME NEW c \in Calls, Commit(c), ~(Ingests(c) /\ Of[c].model # None)
        PROVE  usage' = usage /\ Charged(Stored') = R
    <2>1. Stored' = Stored \cup {c}
      BY <1>9, CommitStores
    <2>2. QED
      BY <1>2, <1>9, <2>1, CommitWrites DEF Charged
  <1>10. QED
    BY <1>6, <1>7, <1>8, <1>9, OnlyCommits

LEMMA ShareStep ==
  ASSUME TypeInv, IdInv, ShareInv, [Next]_vars
  PROVE  ShareInv'
  <1>1. \E at \in [Calls -> Calls] : InventoryShared(at, Stored', inventory', plan')
    BY InventoryShareStep DEF ShareInv
  <1>2. \E at \in [Calls -> Calls] : RegistrationsShared(at, Stored', registrations', plan')
    BY RegistrationShareStep DEF ShareInv
  <1>3. \E at \in [Calls -> Calls] : UsageShared(at, Charged(Stored'), usage', plan')
    BY UsageShareStep DEF ShareInv
  <1>4. UsageIds'
    BY UsageIdsStep DEF ShareInv
  <1>5. QED
    BY <1>1, <1>2, <1>3, <1>4 DEF ShareInv

-----------------------------------------------------------------------------
(* Counters without an overlap *)

\* While no two calls of a function have been in flight together its inventory rows and its
\* registration are one each, hold its stored calls exactly, and are what a request in
\* flight has read.  Likewise the usage of a model.
QuietFunction(c) == \A d \in Calls : SameFunction(c, d) => d \notin overlap
QuietUsage(c) == \A d \in Calls : SameUsage(c, d) => d \notin overlap
Items(c) == ListInventory(Of[c].project, Of[c].fn)
Tally(c, row) ==
  /\ row.total = Cardinality(Answered(c, {"success", "error"}))
  /\ row.ok = Cardinality(Answered(c, {"success"}))
  /\ row.err = Cardinality(Answered(c, {"error"}))
InventoryExact(c) ==
  /\ \A i, j \in Items(c) : i = j
  /\ \A i \in Items(c) : Tally(c, i)
  /\ Items(c) = {} => Answered(c, {"success", "error"}) = {}
  /\ c \in InFlight /\ pc[c] # "inventory" =>
       IF plan[c].inv = None THEN Items(c) = {} ELSE plan[c].inv \in Items(c)
Registered(c) == ListRegistrations(Of[c].fn)
RegistrationExact(c) ==
  /\ \A g, h \in Registered(c) : g = h
  /\ \A g \in Registered(c) : g.count = Cardinality(StoredOf(c))
  /\ Registered(c) = {} => StoredOf(c) = {}
  /\ c \in InFlight /\ pc[c] \notin {"inventory", "registration"} =>
       IF plan[c].reg = None THEN Registered(c) = {} ELSE plan[c].reg \in Registered(c)
Uses(c) == ListProjectModelUsage(Of[c].project, Of[c].model)
UsesOf(c) == {d \in Stored : SameUsage(c, d)}
UsageExact(c) ==
  /\ \A u, v \in Uses(c) : u = v
  /\ \A u \in Uses(c) : u.count = Cardinality(UsesOf(c))
  /\ Uses(c) = {} => UsesOf(c) = {}
  /\ c \in InFlight /\ pc[c] \notin {"inventory", "registration", "usage"} =>
       IF plan[c].use = None THEN Uses(c) = {} ELSE plan[c].use \in Uses(c)
ExactInv ==
  \A c \in Calls :
    /\ QuietFunction(c) => InventoryExact(c) /\ RegistrationExact(c)
    /\ QuietUsage(c) /\ Ingests(c) /\ Of[c].model # None => UsageExact(c)

\* What a commit of e does to the inventory rows of c.
LEMMA ItemsAfter ==
  ASSUME TypeInv, IdInv, NEW e \in Calls, Commit(e), NEW c \in Calls
  PROVE  /\ ~SameInventory(c, e) => Items(c)' = Items(c)
         /\ SameInventory(c, e) =>
              Items(c)' = IF plan[e].inv = None THEN Items(c) \cup {NewItem(e)}
                          ELSE {Item(e, r) : r \in Items(c)}
  <1>1. Shapes
    BY DEF TypeInv
  <1>2. CASE plan[e].inv = None
    <2>1. inventory' = inventory \cup {NewItem(e)}
      BY <1>2, CommitWrites
    <2>2. NewItem(e).fn = Of[e].fn /\ NewItem(e).project = Of[e].project
      BY DEF NewItem
    <2>3. QED
      BY <1>2, <2>1, <2>2 DEF Items, ListInventory, SameInventory, SameFunction
  <1>3. CASE plan[e].inv # None
    <2>1. inventory' = {Item(e, r) : r \in inventory}
      BY <1>3, CommitWrites
    <2>2. \A r \in inventory : /\ Item(e, r).fn = r.fn /\ Item(e, r).project = r.project
                               /\ r.id # plan[e].inv.id => Item(e, r) = r
      BY <1>1, <1>3, ItemIs DEF Shapes
    <2>3. Items(c)' = {Item(e, r) : r \in Items(c)}
      BY <2>1, <2>2 DEF Items, ListInventory
    <2>4. ASSUME ~SameInventory(c, e), NEW r \in Items(c) PROVE Item(e, r) = r
      <3>1. r \in inventory /\ r.fn = Of[c].fn /\ r.project = Of[c].project
        BY DEF Items, ListInventory
      <3>2. r.id # plan[e].inv.id
        BY <1>3, <2>4, <3>1 DEF IdInv, SameInventory, SameFunction
      <3>3. QED
        BY <2>2, <3>1, <3>2
    <2>5. QED
      BY <1>3, <2>3, <2>4
  <1>4. QED
    BY <1>2, <1>3

LEMMA TallyMoves ==
  ASSUME TypeInv, NEW e \in Calls, Commit(e), NEW c \in Calls, NEW row, NEW new
  PROVE  /\ ~SameInventory(c, e) /\ Tally(c, row) => Tally(c, row)'
         /\ /\ SameInventory(c, e) /\ Tally(c, row)
            /\ new.total = row.total + 1
            /\ new.ok = IF Of[e].status = "success" THEN row.ok + 1 ELSE row.ok
            /\ new.err = IF Of[e].status = "error" THEN row.err + 1 ELSE row.err
            => Tally(c, new)'
         /\ /\ SameInventory(c, e) /\ Answered(c, {"success", "error"}) = {}
            /\ new = NewItem(e)
            => Tally(c, new)'
  <1>1. Of[e].status \in {"success", "error"}
    BY DecoratorAssumption
  <1>2. PICK a : a = Cardinality(Answered(c, {"success", "error"}))
    OBVIOUS
  <1>3. PICK s : s = Cardinality(Answered(c, {"success"}))
    OBVIOUS
  <1>4. PICK f : f = Cardinality(Answered(c, {"error"}))
    OBVIOUS
  <1>5. /\ a \in Nat
        /\ Cardinality(Answered(c, {"success", "error"})') =
             IF SameInventory(c, e) THEN a + 1 ELSE a
    BY <1>1, <1>2, Recount
  <1>6. /\ s \in Nat
        /\ Cardinality(Answered(c, {"success"})') =
             IF SameInventory(c, e) /\ Of[e].status = "success" THEN s + 1 ELSE s
    BY <1>3, Recount
  <1>7. /\ f \in Nat
        /\ Cardinality(Answered(c, {"error"})') =
             IF SameInventory(c, e) /\ Of[e].status = "error" THEN f + 1 ELSE f
    BY <1>4, Recount
  <1>8. ASSUME Answered(c, {"success", "error"}) = {} PROVE a = 0 /\ s = 0 /\ f = 0
    <2>1. Answered(c, {"success"}) = {} /\ Answered(c, {"error"}) = {}
      BY <1>8 DEF Answered
    <2>2. QED
      BY <1>2, <1>3, <1>4, <1>8, <2>1, FS_EmptySet
  <1>9. ASSUME SameInventory(c, e), Answered(c, {"success", "error"}) = {}, new = NewItem(e)
        PROVE  Tally(c, new)'
    <2>1. new.total = 1 /\ new.ok = One(e, "success") /\ new.err = One(e, "error")
      BY <1>9 DEF NewItem
    <2>2. QED
      BY <1>5, <1>6, <1>7, <1>8, <1>9, <2>1 DEF Tally, One
  <1>10. QED
    BY <1>2, <1>3, <1>4, <1>5, <1>6, <1>7, <1>9 DEF Tally

LEMMA AloneInFlight ==
  ASSUME TypeInv, OverlapInv, NEW e \in Calls, Commit(e), NEW c \in Calls, c \notin overlap,
         SameFunction(c, e) \/ SameUsage(c, e)
  PROVE  c \notin InFlight'
  BY CommitStores DEF OverlapInv

\* A commit of a call of another key leaves what a request in flight has read.
LEMMA StaysInFlight ==
  ASSUME TypeInv, NEW e \in Calls, Commit(e), NEW c \in InFlight'
  PROVE  c \in InFlight /\ pc'[c] = pc[c] /\ plan'[c] = plan[c]
  BY CommitStores DEF InFlight

LEMMA InventoryExactStep ==
  ASSUME TypeInv, IdInv, OverlapInv, [Next]_vars, NEW c \in Calls, QuietFunction(c),
         \A e \in Calls : SameFunction(c, e) => InventoryExact(e)
  PROVE  InventoryExact(c)'
  <1>1. Shapes /\ InventoryExact(c) /\ c \notin overlap /\ plan[c] \in Plans
    BY DEF TypeInv, SameFunction, QuietFunction, Shapes
  <1>2. CASE UNCHANGED <<tables, Stored>>
    <2>1. Items(c)' = Items(c)
      BY <1>2 DEF Items, ListInventory, tables
    <2>2. \A statuses : Answered(c, statuses)' = Answered(c, statuses)
      BY <1>2 DEF Answered, SameInventory, SameFunction
    <2>3. \A i \in Items(c)' : Tally(c, i)'
      BY <1>1, <2>1, <2>2 DEF InventoryExact, Tally
    <2>4. ASSUME c \in InFlight', pc'[c] # "inventory"
          PROVE  IF plan'[c].inv = None THEN Items(c) = {} ELSE plan'[c].inv \in Items(c)
      <3>1. CASE ReadInventory(c)
        <4>1. PICK r \in First({i \in inventory : i.fn = Of[c].fn /\ i.project = Of[c].project}) :
                plan' = [plan EXCEPT ![c].inv = r]
          BY <3>1 DEF ReadInventory
        <4>2. plan'[c].inv = r
          BY <1>1, <4>1 DEF Plans, Shapes
        <4>3. {i \in inventory : i.fn = Of[c].fn /\ i.project = Of[c].project} = Items(c)
          BY DEF Items, ListInventory
        <4>4. r \in Items(c) \/ (r = None /\ Items(c) = {})
          BY <4>1, <4>3, FirstIs
        <4>5. None \notin Items(c)
          BY <1>1, NoneIsNoRow DEF Items, ListInventory, Shapes
        <4>6. QED
          BY <4>2, <4>4, <4>5
      <3>2. CASE ~ReadInventory(c)
        <4>1. pc[c] # "inventory" /\ c \in InFlight /\ plan'[c].inv = plan[c].inv
          BY <2>4, <3>2, Flies DEF InFlight
        <4>2. QED
          BY <1>1, <4>1 DEF InventoryExact
      <3>3. QED
        BY <3>1, <3>2
    <2>5. QED
      BY <1>1, <2>1, <2>2, <2>3, <2>4 DEF InventoryExact
  <1>3. ASSUME NEW e \in Calls, Commit(e), ~SameInventory(c, e) PROVE InventoryExact(c)'
    <2>1. Items(c)' = Items(c)
      BY <1>3, ItemsAfter
    <2>2. \A i \in Items(c)' : Tally(c, i)'
      BY <1>1, <1>3, <2>1, TallyMoves DEF InventoryExact
    <2>3. Answered(c, {"success", "error"})' = Answered(c, {"success", "error"})
      BY <1>3, CommitStores DEF Answered, SameInventory, SameFunction
    <2>4. c \in InFlight' => c \in InFlight /\ pc'[c] = pc[c] /\ plan'[c] = plan[c]
      BY <1>3, StaysInFlight
    <2>5. QED
      BY <1>1, <2>1, <2>2, <2>3, <2>4 DEF InventoryExact
  <1>4. ASSUME NEW e \in Calls, Commit(e), SameInventory(c, e) PROVE InventoryExact(c)'
    <2>1. /\ Items(e) = Items(c) /\ InventoryExact(e) /\ pc[e] = "commit" /\ e \in InFlight
          /\ Answered(e, {"success", "error"}) = Answered(c, {"success", "error"})
      BY <1>4, CommitStores DEF SameInventory, SameFunction, Items, Answered
    <2>2. c \notin InFlight'
      BY <1>1, <1>4, AloneInFlight DEF SameInventory
    <2>3. CASE plan[e].inv = None
      <3>1. Items(c) = {} /\ Answered(c, {"success", "error"}) = {}
        BY <2>1, <2>3 DEF InventoryExact
      <3>2. Items(c)' = {NewItem(e)}
        BY <1>4, <2>3, <3>1, ItemsAfter
      <3>3. Tally(c, NewItem(e))'
        BY <1>4, <3>1, TallyMoves
      <3>4. QED
        BY <2>2, <3>2, <3>3 DEF InventoryExact
    <2>4. CASE plan[e].inv # None
      <3>1. PICK seen : seen = plan[e].inv
        OBVIOUS
      <3>2. seen \in InventoryRow /\ Items(c) = {seen} /\ Tally(c, seen)
        BY <1>1, <2>1, <2>4, <3>1, PlanIs DEF InventoryExact
      <3>3. PICK new : new = Item(e, seen)
        OBVIOUS
      <3>4. Items(c)' = {new}
        BY <1>4, <2>4, <3>2, <3>3, ItemsAfter
      <3>5. /\ new.total = seen.total + 1
            /\ new.ok = IF Of[e].status = "success" THEN seen.ok + 1 ELSE seen.ok
            /\ new.err = IF Of[e].status = "error" THEN seen.err + 1 ELSE seen.err
        BY <1>1, <2>4, <3>1, <3>2, <3>3, ItemIs
      <3>6. Tally(c, new)'
        BY <1>4, <3>2, <3>5, TallyMoves
      <3>7. QED
        BY <2>2, <3>4, <3>6 DEF InventoryExact
    <2>5. QED
      BY <2>3, <2>4
  <1>5. QED
    BY <1>2, <1>3, <1>4, OnlyCommits

LEMMA RegisteredAfter ==
  ASSUME TypeInv, IdInv, NEW e \in Calls, Commit(e), NEW c \in Calls
  PROVE  /\ ~SameFunction(c, e) => Registered(c)' = Registered(c)
         /\ SameFunction(c, e) =>
              Registered(c)' = IF plan[e].reg = None THEN Registered(c) \cup {NewRegistration(e)}
                               ELSE {Registration(e, g) : g \in Registered(c)}
  <1>1. Shapes
    BY DEF TypeInv
  <1>2. CASE plan[e].reg = None
    <2>1. registrations' = registrations \cup {NewRegistration(e)}
      BY <1>2, CommitWrites
    <2>2. NewRegistration(e).fn = Of[e].fn
      BY DEF NewRegistration
    <2>3. QED
      BY <1>2, <2>1, <2>2 DEF Registered, ListRegistrations, SameFunction
  <1>3. CASE plan[e].reg # None
    <2>1. registrations' = {Registration(e, g) : g \in registrations}
      BY <1>3, CommitWrites
    <2>2. \A g \in registrations : /\ Registration(e, g).fn = g.fn
                                   /\ g.id # plan[e].reg.id => Registration(e, g) = g
      BY <1>1, <1>3, RegistrationIs DEF Shapes
    <2>3. Registered(c)' = {Registration(e, g) : g \in Registered(c)}
      BY <2>1, <2>2 DEF Registered, ListRegistrations
    <2>4. ASSUME ~SameFunction(c, e), NEW g \in Registered(c) PROVE Registration(e, g) = g
      <3>1. g \in registrations /\ g.fn = Of[c].fn
        BY DEF Registered, ListRegistrations
      <3>2. g.id # plan[e].reg.id
        BY <1>3, <2>4, <3>1 DEF IdInv, SameFunction
      <3>3. QED
        BY <2>2, <3>1, <3>2
    <2>5. QED
      BY <1>3, <2>3, <2>4
  <1>4. QED
    BY <1>2, <1>3

LEMMA RegistrationExactStep ==
  ASSUME TypeInv, IdInv, OverlapInv, [Next]_vars, NEW c \in Calls, QuietFunction(c),
         \A e \in Calls : SameFunction(c, e) => RegistrationExact(e)
  PROVE  RegistrationExact(c)'
  <1>1. Shapes /\ RegistrationExact(c) /\ c \notin overlap /\ plan[c] \in Plans
    BY DEF TypeInv, SameFunction, QuietFunction, Shapes
  <1>2. CASE UNCHANGED <<tables, Stored>>
    <2>1. Registered(c)' = Registered(c) /\ StoredOf(c)' = StoredOf(c)
      BY <1>2 DEF Registered, ListRegistrations, StoredOf, SameFunction, tables
    <2>2. ASSUME c \in InFlight', pc'[c] \notin {"inventory", "registration"}
          PROVE  IF plan'[c].reg = None THEN Registered(c) = {} ELSE plan'[c].reg \in Registered(c)
      <3>1. CASE ReadRegistration(c)
        <4>1. PICK r \in First({g \in registrations : g.fn = Of[c].fn}) :
                plan' = [plan EXCEPT ![c].reg = r]
          BY <3>1 DEF ReadRegistration
        <4>2. plan'[c].reg = r
          BY <1>1, <4>1 DEF Plans, Shapes
        <4>3. {g \in registrations : g.fn = Of[c].fn} = Registered(c)
          BY DEF Registered, ListRegistrations
        <4>4. r \in Registered(c) \/ (r = None /\ Registered(c) = {})
          BY <4>1, <4>3, FirstIs
        <4>5. None \notin Registered(c)
          BY <1>1, NoneIsNoRow DEF Registered, ListRegistrations, Shapes
        <4>6. QED
          BY <4>2, <4>4, <4>5
      <3>2. CASE ~ReadRegistration(c)
        <4>1. /\ pc[c] \notin {"inventory", "registration"} /\ c \in InFlight
              /\ plan'[c].reg = plan[c].reg
          BY <2>2, <3>2, Flies DEF InFlight
        <4>2. QED
          BY <1>1, <4>1 DEF RegistrationExact
      <3>3. QED
        BY <3>1, <3>2
    <2>3. QED
      BY <1>1, <2>1, <2>2 DEF RegistrationExact
  <1>3. ASSUME NEW e \in Calls, Commit(e), ~SameFunction(c, e) PROVE RegistrationExact(c)'
    <2>1. Registered(c)' = Registered(c)
      BY <1>3, RegisteredAfter
    <2>2. StoredOf(c)' = StoredOf(c)
      BY <1>3, CommitStores DEF StoredOf, SameFunction
    <2>3. c \in InFlight' => c \in InFlight /\ pc'[c] = pc[c] /\ plan'[c] = plan[c]
      BY <1>3, StaysInFlight
    <2>4. QED
      BY <1>1, <2>1, <2>2, <2>3 DEF RegistrationExact
  <1>4. ASSUME NEW e \in Calls, Commit(e), SameFunction(c, e) PROVE RegistrationExact(c)'
    <2>1. /\ Registered(e) = Registered(c) /\ StoredOf(e) = StoredOf(c)
          /\ RegistrationExact(e) /\ pc[e] = "commit" /\ e \in InFlight
      BY <1>4, CommitStores DEF SameFunction, Registered, StoredOf
    <2>2. c \notin InFlight'
      BY <1>1, <1>4, AloneInFlight
    <2>3. PICK n : n = Cardinality(StoredOf(c))
      OBVIOUS
    <2>4. PICK m : m = Cardinality(StoredOf(c)')
      OBVIOUS
    <2>5. n \in Nat /\ m = n + 1
      BY <1>4, <2>3, <2>4, Recount
    <2>6. \E new : Registered(c)' = {new} /\ new.count = m
      <3>1. CASE plan[e].reg = None
        <4>1. Registered(c) = {} /\ StoredOf(c) = {}
          BY <2>1, <3>1 DEF RegistrationExact
        <4>2. Registered(c)' = {NewRegistration(e)}
          BY <1>4, <3>1, <4>1, RegisteredAfter
        <4>3. n = 0 /\ NewRegistration(e).count = 1
          BY <2>3, <4>1, FS_EmptySet DEF NewRegistration
        <4>4. QED
          BY <2>5, <4>2, <4>3
      <3>2. CASE plan[e].reg # None
        <4>1. PICK seen : seen = plan[e].reg
          OBVIOUS
        <4>2. seen \in RegistrationRow /\ Registered(c) = {seen} /\ seen.count = n
          BY <1>1, <2>1, <2>3, <3>2, <4>1, PlanIs DEF RegistrationExact
        <4>3. PICK new : new = Registration(e, seen)
          OBVIOUS
        <4>4. Registered(c)' = {new}
          BY <1>4, <3>2, <4>2, <4>3, RegisteredAfter
        <4>5. new.count = seen.count + 1
          BY <1>1, <3>2, <4>1, <4>2, <4>3, RegistrationIs
        <4>6. QED
          BY <2>5, <4>2, <4>4, <4>5
      <3>3. QED
        BY <3>1, <3>2
    <2>7. QED
      BY <2>2, <2>4, <2>6 DEF RegistrationExact
  <1>5. QED
    BY <1>2, <1>3, <1>4, OnlyCommits

LEMMA UsesAfter ==
  ASSUME TypeInv, IdInv, UsageIds, NEW e \in Calls, Commit(e), NEW c \in Calls,
         Ingests(c), Of[c].model # None
  PROVE  /\ ~SameUsage(c, e) => Uses(c)' = Uses(c)
         /\ SameUsage(c, e) =>
              Uses(c)' = IF plan[e].use = None THEN Uses(c) \cup {NewUsage(e)}
                         ELSE {Used(e, u) : u \in Uses(c)}
  <1>1. Shapes
    BY DEF TypeInv
  <1>2. CASE ~Ingests(e) \/ Of[e].model = None
    BY <1>2, CommitWrites DEF Uses, ListProjectModelUsage, SameUsage
  <1>3. CASE Ingests(e) /\ Of[e].model # None /\ plan[e].use = None
    <2>1. usage' = usage \cup {NewUsage(e)}
      BY <1>3, CommitWrites
    <2>2. NewUsage(e).project = Of[e].project /\ NewUsage(e).model = Of[e].model
      BY DEF NewUsage
    <2>3. QED
      BY <1>3, <2>1, <2>2 DEF Uses, ListProjectModelUsage, SameUsage
  <1>4. CASE Ingests(e) /\ Of[e].model # None /\ plan[e].use # None
    <2>1. usage' = {Used(e, u) : u \in usage}
      BY <1>4, CommitWrites
    <2>2. \A u \in usage : /\ Used(e, u).project = u.project /\ Used(e, u).model = u.model
                           /\ u.id # plan[e].use.id => Used(e, u) = u
      BY <1>1, <1>4, UsedIs, UsedCount DEF Shapes
    <2>3. Uses(c)' = {Used(e, u) : u \in Uses(c)}
      BY <2>1, <2>2 DEF Uses, ListProjectModelUsage
    <2>4. ASSUME ~SameUsage(c, e), NEW u \in Uses(c) PROVE Used(e, u) = u
      <3>1. u \in usage /\ u.project = Of[c].project /\ u.model = Of[c].model
        BY DEF Uses, ListProjectModelUsage
      <3>2. u.id # plan[e].use.id
        BY <1>4, <2>4, <3>1 DEF IdInv, UsageIds, SameUsage
      <3>3. QED
        BY <2>2, <3>1, <3>2
    <2>5. QED
      BY <1>4, <2>3, <2>4
  <1>5. QED
    BY <1>2, <1>3, <1>4

LEMMA UsageExactStep ==
  ASSUME TypeInv, IdInv, UsageIds, OverlapInv, [Next]_vars, NEW c \in Calls, QuietUsage(c),
         Ingests(c), Of[c].model # None, \A e \in Calls : SameUsage(c, e) => UsageExact(e)
  PROVE  UsageExact(c)'
  <1>1. /\ Shapes /\ UsageExact(c) /\ c \notin overlap /\ plan[c] \in Plans /\ SameUsage(c, c)
        /\ Cardinality(UsesOf(c)) \in Nat /\ IsFiniteSet(UsesOf(c))
    <2>1. UsesOf(c) \in SUBSET Calls
      BY DEF UsesOf, Stored
    <2>2. QED
      BY <2>1, StoredFinite DEF TypeInv, SameUsage, QuietUsage, Shapes
  <1>2. CASE UNCHANGED <<tables, Stored>>
    <2>1. Uses(c)' = Uses(c) /\ UsesOf(c)' = UsesOf(c)
      BY <1>2 DEF Uses, ListProjectModelUsage, UsesOf, SameUsage, Ingests, tables
    <2>2. ASSUME c \in InFlight', pc'[c] \notin {"inventory", "registration", "usage"}
          PROVE  IF plan'[c].use = None THEN Uses(c) = {} ELSE plan'[c].use \in Uses(c)
      <3>1. CASE ReadUsage(c)
        <4>1. PICK r \in First({u \in usage : u.project = Of[c].project /\ u.model = Of[c].model}) :
                plan' = [plan EXCEPT ![c].use = r]
          BY <3>1 DEF ReadUsage
        <4>2. plan'[c].use = r
          BY <1>1, <4>1 DEF Plans, Shapes
        <4>3. {u \in usage : u.project = Of[c].project /\ u.model = Of[c].model} = Uses(c)
          BY DEF Uses, ListProjectModelUsage
        <4>4. r \in Uses(c) \/ (r = None /\ Uses(c) = {})
          BY <4>1, <4>3, FirstIs
        <4>5. None \notin Uses(c)
          BY <1>1, NoneIsNoRow DEF Uses, ListProjectModelUsage, Shapes
        <4>6. QED
          BY <4>2, <4>4, <4>5
      <3>2. CASE ~ReadUsage(c)
        <4>1. /\ pc[c] \notin {"inventory", "registration", "usage"} /\ c \in InFlight
              /\ plan'[c] = plan[c]
          BY <2>2, <3>2, Flies DEF InFlight
        <4>2. QED
          BY <1>1, <4>1 DEF UsageExact
      <3>3. QED
        BY <3>1, <3>2
    <2>3. QED
      BY <1>1, <2>1, <2>2 DEF UsageExact
  <1>3. ASSUME NEW e \in Calls, Commit(e), ~SameUsage(c, e) PROVE UsageExact(c)'
    <2>1. Uses(c)' = Uses(c)
      BY <1>3, UsesAfter
    <2>2. UsesOf(c)' = UsesOf(c)
      BY <1>3, CommitStores DEF UsesOf, SameUsage, Ingests
    <2>3. c \in InFlight' => c \in InFlight /\ pc'[c] = pc[c] /\ plan'[c] = plan[c]
      BY <1>3, StaysInFlight
    <2>4. QED
      BY <1>1, <2>1, <2>2, <2>3 DEF UsageExact
  <1>4. ASSUME NEW e \in Calls, Commit(e), SameUsage(c, e) PROVE UsageExact(c)'
    <2>1. /\ Uses(e) = Uses(c) /\ UsesOf(e) = UsesOf(c)
          /\ UsageExact(e) /\ pc[e] = "commit" /\ e \in InFlight
      BY <1>4, CommitStores DEF SameUsage, Uses, UsesOf
    <2>2. c \notin InFlight'
      BY <1>1, <1>4, AloneInFlight
    <2>3. PICK U : U = UsesOf(c)
      OBVIOUS
    <2>4. UsesOf(c)' = U \cup {e} /\ e \notin U
      BY <1>4, <2>3, CommitStores DEF UsesOf, SameUsage, Ingests
    <2>5. PICK n : n = Cardinality(U)
      OBVIOUS
    <2>6. n \in Nat /\ Cardinality(U \cup {e}) = n + 1
      BY <1>1, <2>3, <2>4, <2>5, FS_AddElement
    <2>7. \E new : Uses(c)' = {new} /\ new.count = n + 1
      <3>1. CASE plan[e].use = None
        <4>1. Uses(c) = {} /\ U = {}
          BY <2>1, <2>3, <3>1 DEF UsageExact
        <4>2. Uses(c)' = {NewUsage(e)}
          BY <1>4, <3>1, <4>1, UsesAfter
        <4>3. n = 0 /\ NewUsage(e).count = 1
          BY <2>5, <4>1, FS_EmptySet DEF NewUsage
        <4>4. QED
          BY <4>2, <4>3
      <3>2. CASE plan[e].use # None
        <4>1. PICK seen : seen = plan[e].use
          OBVIOUS
        <4>2. seen \in UsageRow /\ Uses(c) = {seen} /\ seen.count = n
          BY <1>1, <2>1, <2>3, <2>5, <3>2, <4>1, PlanIs DEF UsageExact
        <4>3. PICK new : new = Used(e, seen)
          OBVIOUS
        <4>4. Uses(c)' = {new}
          BY <1>4, <3>2, <4>2, <4>3, UsesAfter
        <4>5. new.count = seen.count + 1
          BY <1>1, <3>2, <4>1, <4>2, <4>3, UsedCount
        <4>6. QED
          BY <4>2, <4>4, <4>5
      <3>3. QED
        BY <3>1, <3>2
    <2>8. QED
      BY <2>2, <2>4, <2>6, <2>7 DEF UsageExact
  <1>5. QED
    BY <1>2, <1>3, <1>4, OnlyCommits

LEMMA ExactStep ==
  ASSUME TypeInv, IdInv, UsageIds, OverlapInv, ExactInv, [Next]_vars
  PROVE  ExactInv'
  <1>1. overlap \subseteq overlap'
    BY OnlyCommits
  <1>2. ASSUME NEW c \in Calls, QuietFunction(c)'
        PROVE  InventoryExact(c)' /\ RegistrationExact(c)'
    <2>1. QuietFunction(c)
      BY <1>1, <1>2 DEF QuietFunction, SameFunction
    <2>2. \A e \in Calls : SameFunction(c, e) => InventoryExact(e) /\ RegistrationExact(e)
      BY <2>1 DEF QuietFunction, SameFunction, ExactInv
    <2>3. QED
      BY <2>1, <2>2, InventoryExactStep, RegistrationExactStep
  <1>3. ASSUME NEW c \in Calls, QuietUsage(c)', Ingests(c), Of[c].model # None
        PROVE  UsageExact(c)'
    <2>1. QuietUsage(c)
      BY <1>1, <1>3 DEF QuietUsage, SameUsage, Ingests
    <2>2. \A e \in Calls : SameUsage(c, e) => UsageExact(e)
      BY <2>1 DEF QuietUsage, SameUsage, ExactInv
    <2>3. QED
      BY <1>3, <2>1, <2>2, UsageExactStep
  <1>4. QED
    BY <1>2, <1>3 DEF ExactInv, Ingests

-----------------------------------------------------------------------------
(* The service *)

ServiceInv ==
  /\ TypeInv /\ TrailInv /\ IdInv /\ HolderInv /\ CountInv /\ PoolInv /\ OverlapInv
  /\ DailyInv /\ RefusedInv /\ ShareInv /\ ExactInv

LEMMA ServiceInit == Init => ServiceInv
  <1> SUFFICES ASSUME Init PROVE ServiceInv
    OBVIOUS
  <1>1. TypeInv
    BY TypeInit
  <1>2. /\ pc = [c \in Calls |-> "sent"] /\ answer = [c \in Calls |-> None]
        /\ plan = [c \in Calls |-> NoPlan] /\ inventory = {} /\ registrations = {} /\ usage = {}
        /\ logs = {} /\ events = {}
    BY DEF Init
  <1>3. Stored = {} /\ InFlight = {}
    BY <1>2, NoneIsNoRow DEF Stored, InFlight
  <1>4. NoPlan.inv = None /\ NoPlan.reg = None /\ NoPlan.use = None
    BY DEF NoPlan
  <1>5. TrailInv /\ IdInv /\ HolderInv /\ CountInv
    BY <1>2, <1>3, <1>4 DEF TrailInv, IdInv, HolderInv, CountInv, Holding
  <1>6. PoolInv
    <2>1. \A fn \in Functions : Registrants(fn) = {}
      BY <1>2, <1>3 DEF Registrants
    <2>2. PoolSize \in Nat /\ PoolSize >= 0
      BY DecoratorAssumption
    <2>3. QED
      BY <1>3, <2>1, <2>2, FS_EmptySet DEF PoolInv
  <1>7. OverlapInv
    BY <1>2, <1>3 DEF OverlapInv
  <1>8. ShareInv
    <2>1. PICK at : at = [c \in Calls |-> c]
      OBVIOUS
    <2>2. at \in [Calls -> Calls] /\ Charged(Stored) = {}
      BY <1>3, <2>1 DEF Charged
    <2>3. /\ InventoryShared(at, Stored, inventory, plan)
          /\ RegistrationsShared(at, Stored, registrations, plan)
          /\ UsageShared(at, Charged(Stored), usage, plan)
      BY <1>2, <1>3, <1>4, <2>2 DEF InventoryShared, RegistrationsShared, UsageShared
    <2>4. UsageIds
      BY <1>2, <1>4 DEF UsageIds
    <2>5. QED
      BY <2>2, <2>3, <2>4 DEF ShareInv
  <1>9. ExactInv
    <2>1. ASSUME NEW c \in Calls
          PROVE  /\ Items(c) = {} /\ Registered(c) = {} /\ Uses(c) = {}
                 /\ Answered(c, {"success", "error"}) = {} /\ StoredOf(c) = {} /\ UsesOf(c) = {}
      BY <1>2, <1>3 DEF Items, ListInventory, Registered, ListRegistrations, Uses,
                        ListProjectModelUsage, Answered, StoredOf, UsesOf
    <2>2. QED
      BY <1>3, <2>1 DEF ExactInv, InventoryExact, RegistrationExact, UsageExact
  <1>10. DailyInv /\ RefusedInv
    <2>1. keys \in Schemas /\ daily = [c \in Calls |-> "unread"]
      BY DEF Init
    <2>2. DailyInv
      BY <1>3, <2>1 DEF DailyInv, DailyTypes
    <2>3. RefusedInv
      BY <1>2, NoneIsNoRow DEF RefusedInv
    <2>4. QED
      BY <2>2, <2>3
  <1>11. QED
    BY <1>1, <1>5, <1>6, <1>7, <1>8, <1>9, <1>10 DEF ServiceInv

LEMMA ServiceAlways == Spec => []ServiceInv
  <1>1. ServiceInv /\ [Next]_vars => ServiceInv'
    <2> SUFFICES ASSUME ServiceInv, [Next]_vars PROVE ServiceInv'
      OBVIOUS
    <2>1. TypeInv /\ TrailInv /\ IdInv /\ HolderInv /\ CountInv /\ PoolInv /\ OverlapInv
      BY DEF ServiceInv
    <2>2. ShareInv /\ ExactInv /\ UsageIds
      BY DEF ServiceInv, ShareInv
    <2>3. TypeInv' /\ TrailInv' /\ IdInv' /\ HolderInv' /\ CountInv' /\ PoolInv' /\ OverlapInv'
      BY <2>1, TypeStep, TrailStep, IdStep, HolderStep, CountStep, PoolStep, OverlapStep
    <2>4. ShareInv' /\ ExactInv'
      BY <2>1, <2>2, ShareStep, ExactStep
    <2>5. DailyInv' /\ RefusedInv'
      BY <2>1, DailyStep, RefusedStep DEF ServiceInv
    <2>6. QED
      BY <2>3, <2>4, <2>5 DEF ServiceInv
  <1>2. QED
    BY ServiceInit, <1>1, PTL DEF Spec

\* Every status is one the routes answer, counters start at one and never pass the
\* calls there are, an inventory key with a project has one row although the lookup
\* and the insert are two steps of concurrent requests, and the pool and the faults
\* stay in their bounds (_upsert_inventory of router.py and inventory.py, get_db).
THEOREM RowsAreTyped == Spec => []TypeOK
  <1>1. ServiceInv => TypeOK
    <2> SUFFICES ASSUME ServiceInv PROVE TypeOK
      OBVIOUS
    <2>1. Shapes /\ (\A c \in Calls : Progress(c)) /\ IdInv /\ HolderInv /\ CountInv /\ PoolInv
      BY DEF ServiceInv, TypeInv
    <2>2. Cardinality(Calls) \in Nat /\ IsFiniteSet(Calls)
      BY StoredFinite
    <2>3. ASSUME NEW S \in SUBSET Calls, NEW n \in 1..Cardinality(S)
          PROVE  n \in 1..Cardinality(Calls)
      <3>1. Cardinality(S) <= Cardinality(Calls) /\ Cardinality(S) \in Nat
        BY <2>2, FS_Subset, StoredFinite
      <3>2. QED
        BY <2>2, <3>1
    <2>4. \A i \in inventory : i.id \in Calls /\ i.total \in 1..Cardinality(Calls)
      <3>1. ASSUME NEW i \in inventory
            PROVE  i.id \in Calls /\ i.total \in 1..Cardinality(Calls)
        <4>1. i.id \in Calls /\ i.total \in 1..Cardinality(Answered(i.id, {"success", "error"}))
          BY <2>1 DEF CountInv, Counts, IdInv, Stored
        <4>2. Answered(i.id, {"success", "error"}) \in SUBSET Calls
          BY DEF Answered, Stored
        <4>3. QED
          BY <2>3, <4>1, <4>2
      <3>2. QED
        BY <3>1
    <2>5. \A g \in registrations : g.id \in Calls /\ g.count \in 1..Cardinality(Calls)
      <3>1. ASSUME NEW g \in registrations
            PROVE  g.id \in Calls /\ g.count \in 1..Cardinality(Calls)
        <4>1. g.id \in Calls /\ g.count \in 1..Cardinality(StoredOf(g.id))
          BY <2>1 DEF CountInv, IdInv, Stored
        <4>2. StoredOf(g.id) \in SUBSET Calls
          BY DEF StoredOf, Stored
        <4>3. QED
          BY <2>3, <4>1, <4>2
      <3>2. QED
        BY <3>1
    <2>6. \A i, j \in inventory : i.id = j.id => i = j
      BY <2>1 DEF IdInv
    <2>7. \A i, j \in inventory :
            i.project = j.project /\ i.fn = j.fn /\ i.project # None => i = j
      BY <2>1 DEF HolderInv
    <2>8. \A c \in Calls :
            answer[c] \in {None, 200, 401, 500} /\ (answer[c] # None => pc[c] = "done")
      BY <2>1 DEF Shapes, Progress
    <2>9. keys \in Schemas /\ \A c \in Calls : daily[c] \in {"unread", "none", "row", "gone"}
      BY DEF ServiceInv, DailyInv, DailyTypes
    <2>10. QED
      BY <2>1, <2>4, <2>5, <2>6, <2>7, <2>8, <2>9 DEF TypeOK, PoolInv, Shapes
  <1>2. QED
    BY <1>1, ServiceAlways, PTL

\* A 200 and a log are the same thing for an ingest, whatever failed on the way: the
\* swallowed pipeline, the poisoned session, a restart between the flush and the
\* commit; and what the pages count and list of them is what was answered
\* (ingest_decorator_call and list_request_response_logs of router.py).
THEOREM TrailIsKept == Spec => []AuditTrail
  <1>1. ServiceInv => AuditTrail
    <2> SUFFICES ASSUME ServiceInv PROVE AuditTrail
      OBVIOUS
    <2>1. Shapes /\ TrailInv /\ IdInv
      BY DEF ServiceInv, TypeInv
    <2>2. \A c \in Calls : Ingests(c) => (c \in Stored <=> \E l \in logs : l.call = c)
      BY <2>1 DEF TrailInv
    <2>3. \A r \in inventory \cup registrations \cup usage : r.id \in Stored
      BY <2>1 DEF IdInv
    <2>4. events \subseteq {l.call : l \in logs}
      BY <2>1 DEF TrailInv
    <2>5. {l.call : l \in {k \in logs : k.linked}} \subseteq events
      BY <2>1 DEF TrailInv
    <2>6. ASSUME NEW c \in Stored, Ingests(c), c \notin faulted
          PROVE  \E l \in ListRequestResponseLogs(Of[c].project) : l.call = c
      <3>1. PICK l \in logs : l.call = c /\ l.linked /\ c \in events
        BY <2>1, <2>6 DEF TrailInv
      <3>2. QED
        BY <3>1 DEF ListRequestResponseLogs
    <2>7. DecoratorStats.audit = Cardinality({c \in Stored : Ingests(c)})
      <3> DEFINE f == [l \in logs |-> l.call]
                 T == {c \in Stored : Ingests(c)}
      <3>1. f \in [logs -> T] /\ \A l, k \in logs : f[l] = f[k] => l = k
        BY <2>1 DEF TrailInv
      <3>2. \A c \in T : \E l \in logs : f[l] = c
        BY <2>1 DEF TrailInv
      <3>3. IsFiniteSet(T)
        BY StoredFinite DEF Stored
      <3>4. f \in Injection(logs, T) /\ f \in Surjection(logs, T)
        <4> HIDE DEF f, T
        <4>1. QED
          BY <3>1, <3>2, Fun_IsInj, Fun_IsSurj
      <3>5. Cardinality(logs) = Cardinality(T)
        <4> HIDE DEF f, T
        <4>1. QED
          BY <3>3, <3>4, FS_Injection
      <3>6. DecoratorStats.audit = Cardinality(logs)
        BY DEF DecoratorStats
      <3>7. QED
        BY <3>5, <3>6
    <2>8. QED
      BY <2>2, <2>3, <2>4, <2>5, <2>6, <2>7 DEF AuditTrail
  <1>2. QED
    BY <1>1, ServiceAlways, PTL

\* The lookup of a registration and its insert are apart.  Without a unique key as many
\* requests as the pool lets in can register one function, and no more, because those
\* that may insert all looked before the first row and are in flight together; with
\* the key of the SQL files a function has one in each module (_upsert_registration of
\* router.py).
THEOREM DuplicatesWithinPool == Spec => []RegistrationsBounded
  <1>1. ServiceInv => RegistrationsBounded
    <2> SUFFICES ASSUME ServiceInv, NEW c \in Calls
                 PROVE  Cardinality(ListRegistrations(Of[c].fn)) <= PoolSize
      BY DEF RegistrationsBounded, ServiceInv, HolderInv, ListRegistrations
    <2>1. Shapes /\ IdInv /\ PoolInv
      BY DEF ServiceInv, TypeInv
    <2>2. PICK L : L = ListRegistrations(Of[c].fn)
      OBVIOUS
    <2>3. PICK R : R = Registrants(Of[c].fn)
      OBVIOUS
    <2> DEFINE f == [g \in L |-> g.id]
    <2>4. f \in [L -> R] /\ \A g, h \in L : f[g] = f[h] => g = h
      BY <2>1, <2>2, <2>3 DEF IdInv, ListRegistrations, Registrants
    <2>5. R \in SUBSET Calls
      BY <2>1, <2>3 DEF Registrants, InFlight, Shapes, RegistrationRow
    <2>6. f \in Injection(L, R)
      <3> HIDE DEF f
      <3>1. QED
        BY <2>4, Fun_IsInj
    <2>7. Cardinality(L) <= Cardinality(R) /\ IsFiniteSet(L)
      <3> HIDE DEF f
      <3>1. QED
        BY <2>5, <2>6, StoredFinite, FS_Injection
    <2>8. Cardinality(R) <= PoolSize /\ PoolSize \in Nat
      BY <2>1, <2>3, DecoratorAssumption DEF PoolInv, Functions
    <2>9. Cardinality(L) \in Nat /\ Cardinality(R) \in Nat
      BY <2>5, <2>7, StoredFinite, FS_CardinalityType
    <2>10. QED
      BY <2>2, <2>7, <2>8, <2>9
  <1>2. QED
    BY <1>1, ServiceAlways, PTL

\* A 500 of a request with a key is explained, whichever keys the tables have: a fault
\* of the database or of the code after the flush; a full pool; a unique key that
\* another request inserted while this one was in flight, of its function or model or
\* of the day's summary, or a summary row that a rebuild replaced; or a key of the
\* function that another project holds (the constraints in models.py and the SQL
\* files, get_db, _upsert_daily_summary).
THEOREM RefusalsHaveReasons == Spec => []RefusedOnlyOnOverlap
  <1>1. ServiceInv => RefusedOnlyOnOverlap
    BY DEF ServiceInv, RefusedInv, Reason, RefusedOnlyOnOverlap
  <1>2. QED
    BY <1>1, ServiceAlways, PTL

\* No row ever counts more calls, successes or failures than the service has stored of
\* its function and project, although an update writes back a value computed from an
\* earlier read: increments are lost under overlap, never invented
\* (_upsert_inventory and _upsert_registration of router.py).
RowsNeverAhead ==
  /\ \A i \in inventory :
       LET of(s) == {d \in Stored : SameInventory(i.id, d) /\ Of[d].status \in s}
       IN  /\ i.total <= Cardinality(of({"success", "error"}))
           /\ i.ok <= Cardinality(of({"success"})) /\ i.err <= Cardinality(of({"error"}))
  /\ \A g \in registrations : g.count <= Cardinality({d \in Stored : SameFunction(g.id, d)})
THEOREM CountersNeverAhead == Spec => []RowsNeverAhead
  <1>1. ServiceInv => RowsNeverAhead
    <2> SUFFICES ASSUME ServiceInv PROVE RowsNeverAhead
      OBVIOUS
    <2>1. CountInv /\ Shapes
      BY DEF ServiceInv, TypeInv
    <2>2. ASSUME NEW i \in inventory
          PROVE  /\ i.total <= Cardinality(Answered(i.id, {"success", "error"}))
                 /\ i.ok <= Cardinality(Answered(i.id, {"success"}))
                 /\ i.err <= Cardinality(Answered(i.id, {"error"}))
      <3>1. Counts(i, i.id) /\ Cardinality(Answered(i.id, {"success", "error"})) \in Nat
        <4>1. Answered(i.id, {"success", "error"}) \in SUBSET Calls
          BY DEF Answered, Stored
        <4>2. QED
          BY <2>1, <4>1, StoredFinite DEF CountInv
      <3>2. QED
        BY <3>1 DEF Counts
    <2>3. ASSUME NEW g \in registrations PROVE g.count <= Cardinality(StoredOf(g.id))
      <3>1. StoredOf(g.id) \in SUBSET Calls
        BY DEF StoredOf, Stored
      <3>2. Cardinality(StoredOf(g.id)) \in Nat /\ g.count \in 1..Cardinality(StoredOf(g.id))
        BY <2>1, <3>1, StoredFinite DEF CountInv
      <3>3. QED
        BY <3>2
    <2>4. QED
      BY <2>2, <2>3 DEF RowsNeverAhead, Answered, StoredOf
  <1>2. QED
    BY <1>1, ServiceAlways, PTL

-----------------------------------------------------------------------------
(* Totals of the pages *)

LEMMA SumIs ==
  ASSUME NEW f, NEW D, D = DOMAIN f
  PROVE  SumOf(f) = SumOn(f, D)
  <1> DEFINE E(g) == g = [s \in SUBSET D |-> IF s = {} THEN 0
                                             ELSE f[Pick(s)] + g[s \ {Pick(s)}]]
  <1>1. SumOf(f) = (CHOOSE g : E(g))[D]
    BY DEF SumOf, MapThenSumSet, MapThenFoldSet, Pick
  <1>2. \A g : E(g) <=> SumEq(f, D, g)
    BY DEF SumEq
  <1>3. (CHOOSE g : E(g)) = (CHOOSE g : SumEq(f, D, g))
    <2> HIDE DEF E
    <2>1. QED
      BY <1>2
  <1>4. QED
    BY <1>1, <1>3 DEF SumOn

LEMMA RowsFinite ==
  ASSUME NEW R, \A r \in R : r.id \in Calls, \A r, q \in R : r.id = q.id => r = q
  PROVE  IsFiniteSet(R)
  <1> DEFINE f == [r \in R |-> r.id]
  <1>1. f \in [R -> Calls] /\ \A r, q \in R : f[r] = f[q] => r = q
    OBVIOUS
  <1>2. f \in Injection(R, Calls)
    <2> HIDE DEF f
    <2>1. QED
      BY <1>1, Fun_IsInj
  <1>3. QED
    <2> HIDE DEF f
    <2>1. QED
      BY <1>2, StoredFinite, FS_Injection

\* Rows that count no more than their shares of S count, together, no more than the calls
\* of S that are in one of them.
LEMMA RowsFit ==
  ASSUME NEW R, \A r \in R : r.id \in Calls, \A r, q \in R : r.id = q.id => r = q,
         NEW S \in SUBSET Calls, NEW at, NEW A, A = Shares(at, S),
         NEW f, Whole(f, R), \A r \in R : f[r] <= A[r.id],
         NEW T \in SUBSET Calls, \A d \in S : \A r \in R : at[d] = r.id => d \in T
  PROVE  SumOn(f, R) \in Nat /\ SumOn(f, R) <= Cardinality(T)
  <1> DEFINE In == {d \in S : \E r \in R : at[d] = r.id}
             k == [d \in In |-> CHOOSE r \in R : r.id = at[d]]
             one == [d \in In |-> 1]
             g == [r \in R |-> Cardinality(WithKey(k, In, r))]
  <1>1. IsFiniteSet(R)
    BY RowsFinite
  <1>2. In \in SUBSET T /\ In \in SUBSET Calls /\ \A d \in In : d \in S
    OBVIOUS
  <1>3. \A d \in In : k[d] \in R /\ k[d].id = at[d]
    OBVIOUS
  <1>4. ASSUME NEW r \in R PROVE WithKey(k, In, r) = {d \in S : at[d] = r.id}
    <2>1. \A d \in In : k[d] = r <=> at[d] = r.id
      BY <1>3
    <2>2. \A d \in S : at[d] = r.id => d \in In
      OBVIOUS
    <2> HIDE DEF k
    <2>3. QED
      BY <1>2, <2>1, <2>2 DEF WithKey
  <1>5. ASSUME NEW r \in R
        PROVE  g[r] \in Nat /\ f[r] <= g[r] /\ g[r] = SumOn(one, WithKey(k, In, r))
    <2>1. PICK M : M = WithKey(k, In, r)
      OBVIOUS
    <2>2. M = {d \in S : at[d] = r.id} /\ M \in SUBSET Calls /\ g[r] = Cardinality(M)
      BY <1>4, <2>1
    <2>3. A[r.id] = Cardinality(M)
      BY <2>2 DEF Shares
    <2>4. IsFiniteSet(M) /\ Cardinality(M) \in Nat
      BY <2>2, StoredFinite
    <2>5. \A d \in M : one[d] = 1
      BY <2>1 DEF WithKey
    <2> HIDE DEF one, g, k, In
    <2>6. SumOn(one, M) = Cardinality(M)
      BY <2>4, <2>5, SumOnes
    <2>7. QED
      BY <2>1, <2>2, <2>3, <2>4, <2>6
  <1>6. IsFiniteSet(In) /\ IsFiniteSet(T) /\ Cardinality(T) \in Nat
    BY <1>2, StoredFinite
  <1>7. Whole(one, In) /\ \A d \in In : one[d] = 1
    BY DEF Whole
  <1>8. WithKeys(k, In, R) = In
    BY <1>3 DEF WithKeys
  <1> HIDE DEF one, g, k, In
  <1>9. SumOn(g, R) = SumOn(one, WithKeys(k, In, R))
    BY <1>1, <1>5, <1>6, <1>7, SumFibres
  <1>10. SumOn(g, R) = Cardinality(In)
    BY <1>6, <1>7, <1>8, <1>9, SumOnes
  <1>11. Cardinality(In) <= Cardinality(T) /\ Cardinality(In) \in Nat
    BY <1>2, <1>6, FS_Subset, FS_CardinalityType
  <1>12. Whole(g, R)
    BY <1>5 DEF Whole
  <1>13. SumOn(f, R) <= SumOn(g, R) /\ SumOn(f, R) \in Nat
    BY <1>1, <1>5, <1>12, SumLess, SumWhole
  <1>14. QED
    BY <1>6, <1>10, <1>11, <1>13

LEMMA SumOfFits ==
  ASSUME NEW R, \A r \in R : r.id \in Calls, \A r, q \in R : r.id = q.id => r = q,
         NEW S \in SUBSET Calls, NEW at, NEW A, A = Shares(at, S),
         NEW f, DOMAIN f = R, \A r \in R : f[r] \in Nat /\ f[r] <= A[r.id],
         NEW T \in SUBSET Calls, \A d \in S : \A r \in R : at[d] = r.id => d \in T
  PROVE  SumOf(f) \in Nat /\ SumOf(f) <= Cardinality(T)
  <1>1. SumOf(f) = SumOn(f, R)
    BY SumIs
  <1>2. Whole(f, R)
    BY DEF Whole
  <1>3. SumOn(f, R) \in Nat /\ SumOn(f, R) <= Cardinality(T)
    BY <1>2, RowsFit
  <1>4. QED
    BY <1>1, <1>3

\* One row counts for itself, no row for nothing.
LEMMA SumOfOne ==
  ASSUME NEW R, \A r, q \in R : r = q, NEW n \in Nat, NEW f, DOMAIN f = R,
         \A r \in R : f[r] = n, R = {} => n = 0
  PROVE  SumOf(f) = n
  <1>1. SumOf(f) = SumOn(f, R)
    BY SumIs
  <1>2. CASE R = {}
    BY <1>1, <1>2, SumEmpty
  <1>3. CASE R # {}
    <2>1. PICK r : R = {r}
      BY <1>3
    <2>2. SumOn(f, {r}) = n
      BY <2>1, SumOne
    <2>3. QED
      BY <1>1, <2>1, <2>2
  <1>4. QED
    BY <1>2, <1>3

TotalOf(c) == SumOf([i \in Items(c) |-> i.total])
OkOf(c) == SumOf([i \in Items(c) |-> i.ok])
ErrOf(c) == SumOf([i \in Items(c) |-> i.err])
CountOf(c) == SumOf([g \in Registered(c) |-> g.count])
CallsOf(c) == SumOf([u \in Uses(c) |-> u.count])

\* Each stored call has one of the two statuses.
LEMMA AnsweredSplit ==
  ASSUME NEW c \in Calls
  PROVE  /\ Answered(c, {"success", "error"}) = {d \in Stored : SameInventory(c, d)}
         /\ \A s : Answered(c, s) \in SUBSET Calls /\ Cardinality(Answered(c, s)) \in Nat
         /\ Cardinality(Answered(c, {"success", "error"}))
              = Cardinality(Answered(c, {"success"})) + Cardinality(Answered(c, {"error"}))
  <1>1. \A d \in Calls : Of[d].status \in {"success", "error"}
    BY DecoratorAssumption
  <1>2. Answered(c, {"success", "error"}) = {d \in Stored : SameInventory(c, d)}
    BY <1>1 DEF Answered, Stored
  <1>3. ASSUME NEW s PROVE Answered(c, s) \in SUBSET Calls /\ Cardinality(Answered(c, s)) \in Nat
    <2>1. Answered(c, s) \in SUBSET Calls
      BY DEF Answered, Stored
    <2>2. QED
      BY <2>1, StoredFinite
  <1>4. PICK S : S = Answered(c, {"success"})
    OBVIOUS
  <1>5. PICK E : E = Answered(c, {"error"})
    OBVIOUS
  <1>6. S \cap E = {} /\ S \cup E = Answered(c, {"success", "error"})
    BY <1>4, <1>5 DEF Answered
  <1>7. IsFiniteSet(S) /\ IsFiniteSet(E) /\ Cardinality(S) \in Nat /\ Cardinality(E) \in Nat
    BY <1>3, <1>4, <1>5, StoredFinite
  <1>8. Cardinality(S \cup E) = Cardinality(S) + Cardinality(E) - Cardinality(S \cap E)
    BY <1>7, FS_Union
  <1>9. Cardinality(S \cup E) = Cardinality(S) + Cardinality(E)
    <2>1. Cardinality(S \cap E) = 0
      BY <1>6, FS_EmptySet
    <2>2. QED
      BY <1>7, <1>8, <2>1
  <1>10. QED
    BY <1>2, <1>3, <1>4, <1>5, <1>6, <1>9

LEMMA ItemsFit ==
  ASSUME ServiceInv, NEW c \in Calls
  PROVE  /\ TotalOf(c) \in Nat /\ OkOf(c) \in Nat /\ ErrOf(c) \in Nat
         /\ TotalOf(c) <= Cardinality(Answered(c, {"success", "error"}))
         /\ OkOf(c) <= Cardinality(Answered(c, {"success"}))
         /\ ErrOf(c) <= Cardinality(Answered(c, {"error"}))
  <1>1. Shapes /\ IdInv
    BY DEF ServiceInv, TypeInv
  <1>2. PICK at \in [Calls -> Calls] : InventoryShared(at, Stored, inventory, plan)
    BY DEF ServiceInv, ShareInv
  <1>3. PICK R : R = Items(c)
    OBVIOUS
  <1>4. \A i \in R : /\ i \in inventory /\ i.id \in Calls /\ SameInventory(c, i.id)
                     /\ i.total \in Nat /\ i.ok \in Nat /\ i.err \in Nat
    BY <1>1, <1>3 DEF Items, ListInventory, IdInv, Shapes, Stored, InventoryRow,
                      SameInventory, SameFunction
  <1>5. \A i, j \in R : i.id = j.id => i = j
    BY <1>1, <1>4 DEF IdInv
  <1>6. \A d \in Stored : \A i \in R : at[d] = i.id => SameInventory(c, d)
    BY <1>2, <1>4 DEF InventoryShared, SameInventory, SameFunction
  <1>7. \A i \in R : Covers(at, i, Stored)
    BY <1>2, <1>4 DEF InventoryShared
  <1>8. /\ Stored \in SUBSET Calls /\ \A s : Ended(Stored, s) \in SUBSET Calls
        /\ \A s : Answered(c, s) \in SUBSET Calls
    BY DEF Stored, Ended, Answered
  <1>9. TotalOf(c) \in Nat /\ TotalOf(c) <= Cardinality(Answered(c, {"success", "error"}))
    <2>1. PICK A : A = Shares(at, Stored)
      OBVIOUS
    <2>2. PICK T : T = Answered(c, {"success", "error"})
      OBVIOUS
    <2>3. T \in SUBSET Calls /\ \A d \in Stored : \A i \in R : at[d] = i.id => d \in T
      BY <1>6, <1>8, <2>2, AnsweredSplit
    <2>4. PICK f : f = [i \in R |-> i.total]
      OBVIOUS
    <2>5. DOMAIN f = R /\ \A i \in R : f[i] \in Nat /\ f[i] <= A[i.id]
      BY <1>4, <1>7, <2>1, <2>4 DEF Covers
    <2>6. SumOf(f) \in Nat /\ SumOf(f) <= Cardinality(T)
      BY <1>4, <1>5, <1>8, <2>1, <2>3, <2>5, SumOfFits
    <2>7. QED
      BY <1>3, <2>2, <2>4, <2>6 DEF TotalOf
  <1>10. OkOf(c) \in Nat /\ OkOf(c) <= Cardinality(Answered(c, {"success"}))
    <2>1. PICK S : S = Ended(Stored, "success")
      OBVIOUS
    <2>2. PICK A : A = Shares(at, S)
      OBVIOUS
    <2>3. PICK T : T = Answered(c, {"success"})
      OBVIOUS
    <2>4. T \in SUBSET Calls /\ S \in SUBSET Calls
      BY <1>8, <2>1, <2>3
    <2>5. \A d \in S : \A i \in R : at[d] = i.id => d \in T
      BY <1>6, <2>1, <2>3 DEF Ended, Answered
    <2>6. PICK f : f = [i \in R |-> i.ok]
      OBVIOUS
    <2>7. DOMAIN f = R /\ \A i \in R : f[i] \in Nat /\ f[i] <= A[i.id]
      BY <1>4, <1>7, <2>1, <2>2, <2>6 DEF Covers
    <2>8. SumOf(f) \in Nat /\ SumOf(f) <= Cardinality(T)
      BY <1>4, <1>5, <2>2, <2>4, <2>5, <2>7, SumOfFits
    <2>9. QED
      BY <1>3, <2>3, <2>6, <2>8 DEF OkOf
  <1>11. ErrOf(c) \in Nat /\ ErrOf(c) <= Cardinality(Answered(c, {"error"}))
    <2>1. PICK S : S = Ended(Stored, "error")
      OBVIOUS
    <2>2. PICK A : A = Shares(at, S)
      OBVIOUS
    <2>3. PICK T : T = Answered(c, {"error"})
      OBVIOUS
    <2>4. T \in SUBSET Calls /\ S \in SUBSET Calls
      BY <1>8, <2>1, <2>3
    <2>5. \A d \in S : \A i \in R : at[d] = i.id => d \in T
      BY <1>6, <2>1, <2>3 DEF Ended, Answered
    <2>6. PICK f : f = [i \in R |-> i.err]
      OBVIOUS
    <2>7. DOMAIN f = R /\ \A i \in R : f[i] \in Nat /\ f[i] <= A[i.id]
      BY <1>4, <1>7, <2>1, <2>2, <2>6 DEF Covers
    <2>8. SumOf(f) \in Nat /\ SumOf(f) <= Cardinality(T)
      BY <1>4, <1>5, <2>2, <2>4, <2>5, <2>7, SumOfFits
    <2>9. QED
      BY <1>3, <2>3, <2>6, <2>8 DEF ErrOf
  <1>12. QED
    BY <1>9, <1>10, <1>11

LEMMA RegistrationsFit ==
  ASSUME ServiceInv, NEW c \in Calls
  PROVE  CountOf(c) <= Cardinality(StoredOf(c))
  <1>1. Shapes /\ IdInv
    BY DEF ServiceInv, TypeInv
  <1>2. PICK at \in [Calls -> Calls] : RegistrationsShared(at, Stored, registrations, plan)
    BY DEF ServiceInv, ShareInv
  <1>3. PICK R : R = Registered(c)
    OBVIOUS
  <1>4. \A g \in R : /\ g \in registrations /\ g.id \in Calls /\ SameFunction(c, g.id)
                     /\ g.count \in Nat
    BY <1>1, <1>3 DEF Registered, ListRegistrations, IdInv, Shapes, Stored, RegistrationRow,
                      SameFunction
  <1>5. \A g, h \in R : g.id = h.id => g = h
    BY <1>1, <1>4 DEF IdInv
  <1>6. PICK T : T = StoredOf(c)
    OBVIOUS
  <1>7. PICK A : A = Shares(at, Stored)
    OBVIOUS
  <1>8. /\ T \in SUBSET Calls /\ Stored \in SUBSET Calls
        /\ \A d \in Stored : \A g \in R : at[d] = g.id => d \in T
    BY <1>2, <1>4, <1>6 DEF RegistrationsShared, SameFunction, StoredOf, Stored
  <1>9. PICK f : f = [g \in R |-> g.count]
    OBVIOUS
  <1>10. DOMAIN f = R /\ \A g \in R : f[g] \in Nat /\ f[g] <= A[g.id]
    BY <1>2, <1>4, <1>7, <1>9 DEF RegistrationsShared
  <1>11. SumOf(f) <= Cardinality(T)
    BY <1>4, <1>5, <1>7, <1>8, <1>10, SumOfFits
  <1>12. QED
    BY <1>3, <1>6, <1>9, <1>11 DEF CountOf

LEMMA UsesFit ==
  ASSUME ServiceInv, NEW c \in Calls, Of[c].model # None
  PROVE  CallsOf(c) <= Cardinality(UsesOf(c))
  <1>1. Shapes /\ IdInv /\ UsageIds
    BY DEF ServiceInv, TypeInv, ShareInv
  <1>2. PICK at \in [Calls -> Calls] : UsageShared(at, Charged(Stored), usage, plan)
    BY DEF ServiceInv, ShareInv
  <1>3. PICK R : R = Uses(c)
    OBVIOUS
  <1>4. Ingests(c)
    BY DecoratorAssumption DEF Ingests
  <1>5. \A u \in R : u \in usage /\ u.id \in Calls /\ SameUsage(c, u.id) /\ u.count \in Nat
    BY <1>1, <1>3, <1>4 DEF Uses, ListProjectModelUsage, IdInv, Shapes, Stored, UsageRow,
                            SameUsage
  <1>6. \A u, v \in R : u.id = v.id => u = v
    BY <1>1, <1>5 DEF UsageIds
  <1>7. PICK T : T = UsesOf(c)
    OBVIOUS
  <1>8. PICK S : S = Charged(Stored)
    OBVIOUS
  <1>9. PICK A : A = Shares(at, S)
    OBVIOUS
  <1>10. T \in SUBSET Calls /\ S \in SUBSET Calls /\ \A d \in S : d \in Stored
    BY <1>7, <1>8 DEF UsesOf, Charged, Stored
  <1>11. \A d \in S : \A u \in R : at[d] = u.id => d \in T
    BY <1>2, <1>5, <1>7, <1>8, <1>10 DEF UsageShared, SameUsage, UsesOf
  <1>12. PICK f : f = [u \in R |-> u.count]
    OBVIOUS
  <1>13. DOMAIN f = R /\ \A u \in R : f[u] \in Nat /\ f[u] <= A[u.id]
    BY <1>2, <1>5, <1>8, <1>9, <1>12 DEF UsageShared
  <1>14. SumOf(f) <= Cardinality(T)
    <2>1. \A u \in R : u.id \in Calls
      BY <1>5
    <2>2. T \in SUBSET Calls
      BY <1>10
    <2>3. S \in SUBSET Calls
      BY <1>10
    <2>4. SumOf(f) \in Nat /\ SumOf(f) <= Cardinality(T)
      BY <1>6, <1>9, <1>11, <1>13, <2>1, <2>2, <2>3, SumOfFits, SMTT(60)
    <2>5. QED
      BY <2>4
  <1>15. QED
    BY <1>3, <1>7, <1>12, <1>14 DEF CallsOf

\* A table whose rows count a set of calls exactly, and has one if there is one.
LEMMA SumOfExact ==
  ASSUME NEW R, \A r, q \in R : r = q, NEW T \in SUBSET Calls, NEW f, DOMAIN f = R,
         \A r \in R : f[r] = Cardinality(T), R = {} => T = {}
  PROVE  SumOf(f) = Cardinality(T)
  <1>1. Cardinality(T) \in Nat /\ (R = {} => Cardinality(T) = 0)
    BY StoredFinite, FS_EmptySet
  <1>2. QED
    BY <1>1, SumOfOne

LEMMA ItemsExact ==
  ASSUME ServiceInv, NEW c \in Calls, QuietFunction(c)
  PROVE  /\ TotalOf(c) = Cardinality(Answered(c, {"success", "error"}))
         /\ OkOf(c) = Cardinality(Answered(c, {"success"}))
         /\ ErrOf(c) = Cardinality(Answered(c, {"error"}))
  <1>1. InventoryExact(c)
    BY DEF ServiceInv, ExactInv
  <1>2. PICK R : R = Items(c)
    OBVIOUS
  <1>3. (\A i, j \in R : i = j) /\ (\A i \in R : Tally(c, i))
    BY <1>1, <1>2 DEF InventoryExact
  <1>4. \A s : Answered(c, s) \in SUBSET Calls
    BY AnsweredSplit
  <1>5. R = {} => /\ Answered(c, {"success", "error"}) = {} /\ Answered(c, {"success"}) = {}
                  /\ Answered(c, {"error"}) = {}
    BY <1>1, <1>2 DEF InventoryExact, Answered
  <1>6. TotalOf(c) = Cardinality(Answered(c, {"success", "error"}))
    <2>1. PICK T : T = Answered(c, {"success", "error"})
      OBVIOUS
    <2>2. PICK f : f = [i \in R |-> i.total]
      OBVIOUS
    <2>3. DOMAIN f = R /\ \A i \in R : f[i] = Cardinality(T)
      BY <1>3, <2>1, <2>2 DEF Tally
    <2>4. SumOf(f) = Cardinality(T)
      BY <1>3, <1>4, <1>5, <2>1, <2>3, SumOfExact
    <2>5. QED
      BY <1>2, <2>1, <2>2, <2>4 DEF TotalOf
  <1>7. OkOf(c) = Cardinality(Answered(c, {"success"}))
    <2>1. PICK T : T = Answered(c, {"success"})
      OBVIOUS
    <2>2. PICK f : f = [i \in R |-> i.ok]
      OBVIOUS
    <2>3. DOMAIN f = R /\ \A i \in R : f[i] = Cardinality(T)
      BY <1>3, <2>1, <2>2 DEF Tally
    <2>4. SumOf(f) = Cardinality(T)
      BY <1>3, <1>4, <1>5, <2>1, <2>3, SumOfExact
    <2>5. QED
      BY <1>2, <2>1, <2>2, <2>4 DEF OkOf
  <1>8. ErrOf(c) = Cardinality(Answered(c, {"error"}))
    <2>1. PICK T : T = Answered(c, {"error"})
      OBVIOUS
    <2>2. PICK f : f = [i \in R |-> i.err]
      OBVIOUS
    <2>3. DOMAIN f = R /\ \A i \in R : f[i] = Cardinality(T)
      BY <1>3, <2>1, <2>2 DEF Tally
    <2>4. SumOf(f) = Cardinality(T)
      BY <1>3, <1>4, <1>5, <2>1, <2>3, SumOfExact
    <2>5. QED
      BY <1>2, <2>1, <2>2, <2>4 DEF ErrOf
  <1>9. QED
    BY <1>6, <1>7, <1>8

LEMMA RegistrationsExact ==
  ASSUME ServiceInv, NEW c \in Calls, QuietFunction(c)
  PROVE  CountOf(c) = Cardinality(StoredOf(c))
  <1>1. RegistrationExact(c)
    BY DEF ServiceInv, ExactInv
  <1>2. PICK R : R = Registered(c)
    OBVIOUS
  <1>3. PICK T : T = StoredOf(c)
    OBVIOUS
  <1>4. PICK f : f = [g \in R |-> g.count]
    OBVIOUS
  <1>5. /\ T \in SUBSET Calls /\ \A g, h \in R : g = h
        /\ (R = {} => T = {}) /\ DOMAIN f = R /\ \A g \in R : f[g] = Cardinality(T)
    BY <1>1, <1>2, <1>3, <1>4 DEF RegistrationExact, StoredOf, Stored
  <1>6. SumOf(f) = Cardinality(T)
    BY <1>5, SumOfExact
  <1>7. QED
    BY <1>2, <1>3, <1>4, <1>6 DEF CountOf

LEMMA UsesExact ==
  ASSUME ServiceInv, NEW c \in Calls, QuietUsage(c), Ingests(c), Of[c].model # None
  PROVE  CallsOf(c) = Cardinality(UsesOf(c))
  <1>1. UsageExact(c)
    BY DEF ServiceInv, ExactInv
  <1>2. PICK R : R = Uses(c)
    OBVIOUS
  <1>3. PICK T : T = UsesOf(c)
    OBVIOUS
  <1>4. PICK f : f = [u \in R |-> u.count]
    OBVIOUS
  <1>5. /\ T \in SUBSET Calls /\ \A u, v \in R : u = v
        /\ (R = {} => T = {}) /\ DOMAIN f = R /\ \A u \in R : f[u] = Cardinality(T)
    BY <1>1, <1>2, <1>3, <1>4 DEF UsageExact, UsesOf, Stored
  <1>6. SumOf(f) = Cardinality(T)
    BY <1>5, SumOfExact
  <1>7. QED
    BY <1>2, <1>3, <1>4, <1>6 DEF CallsOf

\* The pages of a function and of a model: whatever requests overlap, their totals over
\* all rows of a key, duplicates included, never exceed the stored calls, and without an
\* overlap they are exact.  A lost update costs a count, and a second row takes no call
\* twice (_upsert_inventory, _upsert_registration and _upsert_model_usage of router.py).
THEOREM CountersAreKept == Spec => []CountersFollowCalls
  <1>1. ServiceInv => CountersFollowCalls
    <2> SUFFICES ASSUME ServiceInv PROVE CountersFollowCalls
      OBVIOUS
    <2>1. ASSUME NEW c \in Calls
          PROVE  /\ TotalOf(c) <= Cardinality({d \in Stored : SameInventory(c, d)})
                 /\ OkOf(c) + ErrOf(c) <= Cardinality({d \in Stored : SameInventory(c, d)})
                 /\ CountOf(c) <= Cardinality({d \in Stored : SameFunction(c, d)})
                 /\ Of[c].model # None =>
                      CallsOf(c) <= Cardinality({d \in Stored : SameUsage(c, d)})
      <3>1. Cardinality({d \in Stored : SameInventory(c, d)})
              = Cardinality(Answered(c, {"success"})) + Cardinality(Answered(c, {"error"}))
        BY AnsweredSplit
      <3>2. /\ Cardinality(Answered(c, {"success"})) \in Nat
            /\ Cardinality(Answered(c, {"error"})) \in Nat
            /\ Answered(c, {"success", "error"}) = {d \in Stored : SameInventory(c, d)}
        BY AnsweredSplit
      <3>3. OkOf(c) + ErrOf(c) <= Cardinality({d \in Stored : SameInventory(c, d)})
        BY <3>1, <3>2, ItemsFit
      <3>4. TotalOf(c) <= Cardinality({d \in Stored : SameInventory(c, d)})
        BY <3>2, ItemsFit
      <3>5. CountOf(c) <= Cardinality({d \in Stored : SameFunction(c, d)})
        BY RegistrationsFit DEF StoredOf
      <3>6. Of[c].model # None => CallsOf(c) <= Cardinality({d \in Stored : SameUsage(c, d)})
        BY UsesFit DEF UsesOf
      <3>7. QED
        BY <3>3, <3>4, <3>5, <3>6
    <2>2. ASSUME NEW c \in Calls,
                 {d \in Calls : SameFunction(c, d) \/ SameUsage(c, d)} \cap overlap = {}
          PROVE  /\ TotalOf(c) = Cardinality({d \in Stored : SameInventory(c, d)})
                 /\ OkOf(c) + ErrOf(c) = TotalOf(c)
                 /\ CountOf(c) = Cardinality({d \in Stored : SameFunction(c, d)})
                 /\ Ingests(c) /\ Of[c].model # None =>
                      CallsOf(c) = Cardinality({d \in Stored : SameUsage(c, d)})
      <3>1. QuietFunction(c) /\ QuietUsage(c)
        BY <2>2 DEF QuietFunction, QuietUsage
      <3>2. /\ TotalOf(c) = Cardinality(Answered(c, {"success", "error"}))
            /\ OkOf(c) + ErrOf(c)
                 = Cardinality(Answered(c, {"success"})) + Cardinality(Answered(c, {"error"}))
        BY <3>1, ItemsExact
      <3>3. /\ Answered(c, {"success", "error"}) = {d \in Stored : SameInventory(c, d)}
            /\ Cardinality(Answered(c, {"success", "error"}))
                 = Cardinality(Answered(c, {"success"})) + Cardinality(Answered(c, {"error"}))
        BY AnsweredSplit
      <3>4. CountOf(c) = Cardinality({d \in Stored : SameFunction(c, d)})
        BY <3>1, RegistrationsExact DEF StoredOf
      <3>5. Ingests(c) /\ Of[c].model # None =>
              CallsOf(c) = Cardinality({d \in Stored : SameUsage(c, d)})
        BY <3>1, UsesExact DEF UsesOf
      <3>6. QED
        BY <3>2, <3>3, <3>4, <3>5
    <2>3. QED
      BY <2>1, <2>2 DEF CountersFollowCalls, TotalOf, OkOf, ErrOf, CountOf, CallsOf,
                        Items, Registered, Uses
  <1>2. QED
    BY <1>1, ServiceAlways, PTL

=============================================================================
