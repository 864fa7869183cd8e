------------------------- MODULE ProxyPipeline_proofs -------------------------
(***************************************************************************)
(* ProxyPipeline and its reports for any requests, workers, keys, rows,    *)
(* pools and policies: calls with one key are never with the provider      *)
(* together, a usage row whose requests run on one event loop counts the   *)
(* billed calls exactly, a call is recorded whole or not at all, and the   *)
(* report pages agree with each other and with the verdicts of the scans.  *)
(***************************************************************************)
EXTENDS ProxyReports, Sums, FiniteSetTheorems, TLAPS

-----------------------------------------------------------------------------
(* Locks *)

\* Steps at which a request has flushed the UPDATE of its key.
Holding == {"body", "scan", "upstream", "usage", "flush", "commit"}

LockTypes ==
  /\ pc \in [Requests -> Steps \cup Answers]
  /\ keyLock \in [Keys -> Requests \cup {NoOne}]
  /\ usageLock \in [Rows -> Requests \cup {NoOne}]

\* The locks of a request end with its transaction, and the key's is not given
\* back before.
LockInv ==
  /\ LockTypes
  /\ \A k \in Keys : keyLock[k] # NoOne => pc[keyLock[k]] \in InTransaction
  /\ \A u \in Rows : usageLock[u] # NoOne => pc[usageLock[u]] = "commit"
  /\ \A r \in Requests : pc[r] \in Holding => keyLock[KeyOf[r]] = r

\* A request goes on to a later step of its transaction, or towards it.
LEMMA MoveKeepsLocks ==
  ASSUME ProxyAssumption, LockInv, NEW r \in Requests, NEW step \in Steps,
         Goto(r, step), UNCHANGED <<keyLock, usageLock>>,
         pc[r] # "commit",
         pc[r] \in InTransaction => step \in InTransaction,
         step \in Holding => pc[r] \in Holding
  PROVE  LockInv'
  <1>1. pc' = [pc EXCEPT ![r] = step]
    BY DEF Goto
  <1>2. LockTypes'
    BY <1>1 DEF LockInv, LockTypes
  <1>3. \A k \in Keys : keyLock'[k] # NoOne => pc'[keyLock'[k]] \in InTransaction
    BY <1>1 DEF LockInv, LockTypes
  <1>4. \A u \in Rows : usageLock'[u] # NoOne => pc'[usageLock'[u]] = "commit"
    BY <1>1 DEF LockInv, LockTypes
  <1>5. \A q \in Requests : pc'[q] \in Holding => keyLock'[KeyOf[q]] = q
    BY <1>1 DEF LockInv, LockTypes
  <1>6. QED
    BY <1>2, <1>3, <1>4, <1>5 DEF LockInv

\* A request whose transaction ends, or is rolled back, gives its locks back.
LEMMA EndKeepsLocks ==
  ASSUME ProxyAssumption, LockInv, NEW r \in Requests, NEW step \in Steps \cup Answers,
         Goto(r, step), ReleaseLocks(r), step \notin Holding
  PROVE  LockInv'
  <1>1. /\ pc' = [pc EXCEPT ![r] = step]
        /\ keyLock' = [k \in Keys |-> IF keyLock[k] = r THEN NoOne ELSE keyLock[k]]
        /\ usageLock' = [u \in Rows |-> IF usageLock[u] = r THEN NoOne ELSE usageLock[u]]
    BY DEF Goto, ReleaseLocks
  <1>2. LockTypes'
    BY <1>1 DEF LockInv, LockTypes
  <1>3. \A k \in Keys : keyLock'[k] # NoOne => pc'[keyLock'[k]] \in InTransaction
    BY <1>1 DEF LockInv, LockTypes
  <1>4. \A u \in Rows : usageLock'[u] # NoOne => pc'[usageLock'[u]] = "commit"
    BY <1>1 DEF LockInv, LockTypes
  <1>5. \A q \in Requests : pc'[q] \in Holding => keyLock'[KeyOf[q]] = q
    BY <1>1 DEF LockInv, LockTypes, ProxyAssumption
  <1>6. QED
    BY <1>2, <1>3, <1>4, <1>5 DEF LockInv

LEMMA TouchKeyKeepsLocks ==
  ASSUME ProxyAssumption, LockInv, NEW r \in Requests, TouchKey(r)
  PROVE  LockInv'
  <1>1. /\ pc[r] = "touch_key" /\ keyLock[KeyOf[r]] = NoOne
        /\ pc' = [pc EXCEPT ![r] = "body"]
        /\ keyLock' = [keyLock EXCEPT ![KeyOf[r]] = r] /\ usageLock' = usageLock
    BY DEF TouchKey, At, Await, Goto
  <1>2. LockTypes'
    BY <1>1 DEF LockInv, LockTypes, Steps, InTransaction
  <1>3. \A k \in Keys : keyLock'[k] # NoOne => pc'[keyLock'[k]] \in InTransaction
    BY <1>1 DEF LockInv, LockTypes, InTransaction
  <1>4. \A u \in Rows : usageLock'[u] # NoOne => pc'[usageLock'[u]] = "commit"
    BY <1>1 DEF LockInv, LockTypes
  <1>5. \A q \in Requests : pc'[q] \in Holding => keyLock'[KeyOf[q]] = q
    BY <1>1 DEF LockInv, LockTypes, ProxyAssumption
  <1>6. QED
    BY <1>2, <1>3, <1>4, <1>5 DEF LockInv

LEMMA FlushRecordKeepsLocks ==
  ASSUME ProxyAssumption, LockInv, NEW r \in Requests, FlushRecord(r)
  PROVE  LockInv'
  <1>1. CASE Poison(r)
    <2>1. Goto(r, "poisoned") /\ ReleaseLocks(r)
      BY <1>1 DEF Poison, GoOn
    <2>2. QED
      BY <2>1, EndKeepsLocks DEF Steps, InTransaction, Holding
  <1>2. CASE ~Poison(r)
    <2>1. /\ pc[r] = "flush" /\ usageLock[RowOf[r]] = NoOne
          /\ pc' = [pc EXCEPT ![r] = "commit"]
          /\ usageLock' = [usageLock EXCEPT ![RowOf[r]] = r] /\ keyLock' = keyLock
      BY <1>2 DEF FlushRecord, At, GoOn, Goto
    <2>2. LockTypes'
      BY <2>1 DEF LockInv, LockTypes, Steps, InTransaction
    <2>3. \A k \in Keys : keyLock'[k] # NoOne => pc'[keyLock'[k]] \in InTransaction
      BY <2>1 DEF LockInv, LockTypes, InTransaction
    <2>4. \A u \in Rows : usageLock'[u] # NoOne => pc'[usageLock'[u]] = "commit"
      BY <2>1 DEF LockInv, LockTypes
    <2>5. \A q \in Requests : pc'[q] \in Holding => keyLock'[KeyOf[q]] = q
      BY <2>1 DEF LockInv, LockTypes, Holding
    <2>6. QED
      BY <2>2, <2>3, <2>4, <2>5 DEF LockInv
  <1>3. QED
    BY <1>1, <1>2

LEMMA ServeKeepsLocks ==
  ASSUME ProxyAssumption, LockInv, NEW r \in Requests,
         Serve(r) \/ Disconnect(r) \/ FailAudit(r) \/ BreakOff(r)
  PROVE  LockInv'
  <1> USE DEF At, GoOn, Await, Rollback, CommitStatus
  <1> DEFINE Ends(step) == Goto(r, step) /\ ReleaseLocks(r)
             Moves(step) == Goto(r, step) /\ UNCHANGED <<keyLock, usageLock>>
  <1>1. ASSUME NEW step \in Answers \cup {"poisoned"}, Ends(step)
        PROVE  LockInv'
    BY <1>1, EndKeepsLocks DEF Answers, Steps, InTransaction, Holding
  <1>2. CASE PoolTimeout(r)
    BY <1>1, <1>2 DEF PoolTimeout, Answers
  <1>3. CASE Disconnect(r)
    BY <1>1, <1>3 DEF Disconnect, Answers
  <1>4. CASE Block(r)
    BY <1>1, <1>4 DEF Block, Answers
  <1>5. CASE NoProviderKey(r) \/ BreakOff(r)
    BY <1>1, <1>5 DEF NoProviderKey, BreakOff, Answers
  <1>6. CASE UpstreamTimeout(r)
    BY <1>1, <1>6 DEF UpstreamTimeout, Answers
  <1>7. CASE UpstreamFailure(r)
    BY <1>1, <1>7 DEF UpstreamFailure, Answers
  <1>8. CASE RaisePending(r)
    BY <1>1, <1>8 DEF RaisePending, Answers
  <1>9. CASE CommitRecord(r)
    BY <1>1, <1>9 DEF CommitRecord, Answers
  <1>10. CASE FailAudit(r)
    BY <1>1, <1>10 DEF FailAudit, Poison
  <1>11. CASE SelectKey(r)
    <2>1. CASE Rollback(r, "401")
      BY <1>1, <2>1 DEF Answers
    <2>2. CASE ~Rollback(r, "401")
      <3>1. pc[r] = "select_key" /\ Moves("touch_key")
        BY <1>11, <2>2 DEF SelectKey
      <3>2. QED
        BY <3>1, MoveKeepsLocks DEF Steps, InTransaction, Holding
    <2>3. QED
      BY <2>1, <2>2
  <1>12. CASE Arrive(r)
    <2>1. pc[r] = "new" /\ Moves("select_key")
      BY <1>12 DEF Arrive
    <2>2. QED
      BY <2>1, MoveKeepsLocks DEF Steps, InTransaction, Holding
  <1>13. CASE ReceiveBody(r)
    <2>1. pc[r] = "body" /\ Moves("scan")
      BY <1>13 DEF ReceiveBody
    <2>2. QED
      BY <2>1, MoveKeepsLocks DEF Steps, InTransaction, Holding
  <1>14. CASE Forward(r)
    <2>1. pc[r] = "scan" /\ Moves("upstream")
      BY <1>14 DEF Forward
    <2>2. QED
      BY <2>1, MoveKeepsLocks DEF Steps, InTransaction, Holding
  <1>15. CASE UpstreamAnswers(r)
    <2>1. pc[r] = "upstream" /\ Moves("usage")
      BY <1>15 DEF UpstreamAnswers
    <2>2. QED
      BY <2>1, MoveKeepsLocks DEF Steps, InTransaction, Holding
  <1>16. CASE SelectUsage(r)
    <2>1. pc[r] = "usage" /\ Moves("flush")
      BY <1>16 DEF SelectUsage
    <2>2. QED
      BY <2>1, MoveKeepsLocks DEF Steps, InTransaction, Holding
  <1>17. QED
    BY <1>2, <1>3, <1>4, <1>5, <1>6, <1>7, <1>8, <1>9, <1>10, <1>11, <1>12, <1>13, <1>14,
       <1>15, <1>16, TouchKeyKeepsLocks, FlushRecordKeepsLocks
    DEF Serve, Upstream

LEMMA LockStep ==
  ASSUME ProxyAssumption, LockInv, [Next]_vars
  PROVE  LockInv'
  <1>1. ASSUME NEW r \in Requests, Serve(r) \/ Disconnect(r) \/ FailAudit(r) \/ BreakOff(r)
        PROVE  LockInv'
    BY <1>1, ServeKeepsLocks
  <1>2. CASE UNCHANGED <<pc, keyLock, usageLock>>
    BY <1>2 DEF LockInv, LockTypes
  <1>3. ASSUME NEW k \in Keys, RevokeKey(k)
        PROVE  UNCHANGED <<pc, keyLock, usageLock>>
    BY <1>3 DEF RevokeKey
  <1>4. ASSUME UNCHANGED vars
        PROVE  UNCHANGED <<pc, keyLock, usageLock>>
    BY <1>4 DEF vars
  <1>5. QED
    BY <1>1, <1>2, <1>3, <1>4 DEF Next

-----------------------------------------------------------------------------
(* The other variables *)

RecordTypes ==
  /\ aiRequest \in [Requests -> {"none", "blocked", "timeout", "failed", "completed"}]
  /\ route \in [Requests -> {"none", "proxying", "completed"}]
  /\ billed \subseteq Requests
  /\ audits \subseteq Requests \X {"pii_detected", "blocked", "completed"}

DataTypes ==
  /\ RecordTypes
  /\ loop \in [Workers -> Requests \cup {NoOne}] /\ isActive \in [Keys -> BOOLEAN]
  /\ usage \in [Rows -> Nat] /\ seen \in [Requests -> Nat]
  /\ found \in [Requests -> SUBSET PiiTypes]
  /\ sent \cup auditFailed \subseteq Requests /\ faults \in 0..MaxFaults

LEMMA TypesAreTypeOK == LockInv /\ DataTypes => TypeOK
  BY DEF LockInv, LockTypes, DataTypes, RecordTypes, TypeOK

LEMMA AuditRowsType ==
  ASSUME NEW r \in Requests
  PROVE  AuditRows(r) \subseteq Requests \X {"pii_detected", "blocked", "completed"}
  BY DEF AuditRows

LEMMA AuditRowsTypeNext ==
  ASSUME NEW r \in Requests
  PROVE  AuditRows(r)' \subseteq Requests \X {"pii_detected", "blocked", "completed"}
  BY DEF AuditRows

LEMMA ServeKeepsTypes ==
  ASSUME ProxyAssumption, DataTypes, NEW r \in Requests,
         Serve(r) \/ Disconnect(r) \/ FailAudit(r) \/ BreakOff(r)
  PROVE  DataTypes'
  <1> USE DEF DataTypes, At, GoOn, Await, Rollback, records
  <1>1. UNCHANGED records => RecordTypes'
    BY DEF RecordTypes
  <1>2. CASE Arrive(r)
    BY <1>1, <1>2 DEF Arrive
  <1>3. CASE PoolTimeout(r) \/ BreakOff(r)
    BY <1>1, <1>3 DEF PoolTimeout, BreakOff
  <1>4. CASE SelectKey(r)
    BY <1>1, <1>4 DEF SelectKey
  <1>5. CASE TouchKey(r)
    BY <1>1, <1>5 DEF TouchKey
  <1>6. CASE ReceiveBody(r)
    BY <1>1, <1>6 DEF ReceiveBody
  <1>7. CASE Disconnect(r)
    BY <1>1, <1>7 DEF Disconnect, ProxyAssumption
  <1>8. CASE Block(r)
    <2>1. RecordTypes'
      BY <1>8, AuditRowsTypeNext DEF Block, CommitStatus, RecordTypes
    <2>2. QED
      BY <1>8, <2>1 DEF Block, CommitStatus, Scan
  <1>9. CASE NoProviderKey(r)
    BY <1>1, <1>9 DEF NoProviderKey
  <1>10. CASE Forward(r)
    BY <1>1, <1>10 DEF Forward, Scan
  <1>11. CASE UpstreamTimeout(r)
    <2>1. RecordTypes'
      BY <1>11, AuditRowsType DEF UpstreamTimeout, CommitStatus, RecordTypes
    <2>2. QED
      BY <1>11, <2>1 DEF UpstreamTimeout, CommitStatus
  <1>12. CASE UpstreamFailure(r)
    <2>1. RecordTypes'
      BY <1>12, AuditRowsType DEF UpstreamFailure, CommitStatus, RecordTypes
    <2>2. QED
      BY <1>12, <2>1 DEF UpstreamFailure, CommitStatus
  <1>13. CASE UpstreamAnswers(r)
    BY <1>1, <1>13 DEF UpstreamAnswers
  <1>14. CASE SelectUsage(r)
    BY <1>1, <1>14 DEF SelectUsage, ProxyAssumption
  <1>15. CASE FlushRecord(r)
    BY <1>1, <1>15 DEF FlushRecord, Poison
  <1>16. CASE FailAudit(r)
    BY <1>1, <1>16 DEF FailAudit, Poison, ProxyAssumption
  <1>17. CASE RaisePending(r)
    BY <1>1, <1>17 DEF RaisePending
  <1>18. CASE CommitRecord(r)
    <2>1. RecordTypes'
      BY <1>18, AuditRowsType DEF CommitRecord, RecordTypes
    <2>2. QED
      BY <1>18, <2>1 DEF CommitRecord, ProxyAssumption
  <1>19. QED
    BY <1>2, <1>3, <1>4, <1>5, <1>6, <1>7, <1>8, <1>9, <1>10, <1>11, <1>12, <1>13, <1>14,
       <1>15, <1>16, <1>17, <1>18
    DEF Serve, Upstream

LEMMA TypesStep ==
  ASSUME ProxyAssumption, DataTypes, [Next]_vars
  PROVE  DataTypes'
  <1>1. ASSUME NEW r \in Requests, Serve(r) \/ Disconnect(r) \/ FailAudit(r) \/ BreakOff(r)
        PROVE  DataTypes'
    BY <1>1, ServeKeepsTypes
  <1>2. ASSUME NEW k \in Keys, RevokeKey(k)
        PROVE  DataTypes'
    BY <1>2 DEF RevokeKey, DataTypes, RecordTypes, records
  <1>3. ASSUME UNCHANGED vars
        PROVE  DataTypes'
    BY <1>3 DEF vars, records, DataTypes, RecordTypes
  <1>4. QED
    BY <1>1, <1>2, <1>3 DEF Next

LEMMA InitTypes ==
  ASSUME ProxyAssumption, Init
  PROVE  LockInv /\ DataTypes
  <1>1. LockInv
    BY DEF Init, LockInv, LockTypes, Steps, Holding, ProxyAssumption
  <1>2. DataTypes
    BY DEF Init, DataTypes, RecordTypes, ProxyAssumption
  <1>3. QED
    BY <1>1, <1>2

\* The row lock of a key, taken at authentication and kept to the end of the
\* transaction, makes the calls with that key one at a time.
THEOREM KeyIsMutex == Spec => []OneCallPerKey
  <1>1. Init => LockInv /\ DataTypes
    BY InitTypes, ProxyAssumption
  <1>2. LockInv /\ DataTypes /\ [Next]_vars => (LockInv /\ DataTypes)'
    BY LockStep, TypesStep, ProxyAssumption
  <1>3. LockInv /\ DataTypes => OneCallPerKey
    <2> SUFFICES ASSUME LockInv, DataTypes
                 PROVE  OneCallPerKey
      OBVIOUS
    <2>1. \A r \in Requests : pc[r] = "upstream" => keyLock[KeyOf[r]] = r
      BY DEF LockInv, Holding
    <2>2. QED
      BY <2>1, TypesAreTypeOK DEF OneCallPerKey
  <1>4. QED
    BY <1>1, <1>2, <1>3, PTL DEF Spec

-----------------------------------------------------------------------------
(* Usage *)

\* Requests that count on one row run on one event loop.
OneLoopPerRow == \A r, q \in Requests : RowOf[r] = RowOf[q] => On[r] = On[q]

\* From its SELECT of the usage row to its commit a request keeps the loop, and
\* the row stays as it was read; what is billed has been answered.
UsageInv ==
  /\ \A r \in Requests : pc[r] \in {"flush", "commit"} =>
       loop[On[r]] = r /\ seen[r] = usage[RowOf[r]]
  /\ \A r \in billed : pc[r] = "200"
  /\ UsageMatchesCosts

CountInv == LockInv /\ DataTypes /\ UsageInv

\* Every step but the commit leaves usage and bills alone.
LEMMA OtherStepsKeepUsage ==
  ASSUME ProxyAssumption, CountInv, NEW r \in Requests, NEW step \in Steps \cup Answers,
         Goto(r, step), UNCHANGED <<usage, billed>>,
         Turn(r), pc[r] \notin Answers,
         loop' = [loop EXCEPT ![On[r]] = r] \/ loop' = [loop EXCEPT ![On[r]] = NoOne],
         \A q \in Requests : q # r => seen'[q] = seen[q],
         step \in {"flush", "commit"} => loop'[On[r]] = r /\ seen'[r] = usage[RowOf[r]]
  PROVE  UsageInv'
  <1>1. pc' = [pc EXCEPT ![r] = step] /\ pc \in [Requests -> Steps \cup Answers]
    BY DEF Goto, CountInv, LockInv, LockTypes
  <1>2. ASSUME NEW q \in Requests, pc'[q] \in {"flush", "commit"}
        PROVE  loop'[On[q]] = q /\ seen'[q] = usage'[RowOf[q]]
    <2>1. CASE q = r
      BY <1>1, <1>2, <2>1
    <2>2. CASE q # r
      <3>1. loop[On[q]] = q /\ seen[q] = usage[RowOf[q]]
        BY <1>1, <1>2, <2>2 DEF CountInv, UsageInv
      <3>2. On[q] # On[r]
        BY <3>1, <2>2 DEF Turn, ProxyAssumption
      <3>3. loop'[On[q]] = loop[On[q]]
        BY <3>2 DEF CountInv, DataTypes, ProxyAssumption
      <3>4. QED
        BY <3>1, <3>3, <2>2
    <2>3. QED
      BY <2>1, <2>2
  <1>3. \A q \in billed' : pc'[q] = "200"
    BY <1>1 DEF CountInv, UsageInv, DataTypes, RecordTypes, Answers
  <1>4. UsageMatchesCosts'
    BY DEF CountInv, UsageInv, UsageMatchesCosts
  <1>5. QED
    BY <1>2, <1>3, <1>4 DEF UsageInv

LEMMA CommitKeepsUsage ==
  ASSUME ProxyAssumption, OneLoopPerRow, CountInv, NEW r \in Requests, CommitRecord(r)
  PROVE  UsageInv'
  <1> DEFINE u0 == RowOf[r]
             Billed(u) == {q \in billed : RowOf[q] = u}
  <1>1. /\ pc[r] = "commit" /\ Turn(r) /\ pc' = [pc EXCEPT ![r] = "200"]
        /\ loop' = [loop EXCEPT ![On[r]] = NoOne] /\ seen' = seen
        /\ billed' = billed \cup {r} /\ usage' = [usage EXCEPT ![u0] = seen[r] + 1]
    BY DEF CommitRecord, At, Await, Goto
  <1>2. /\ pc \in [Requests -> Steps \cup Answers] /\ billed \subseteq Requests
        /\ usage \in [Rows -> Nat] /\ u0 \in Rows
    BY DEF CountInv, LockInv, LockTypes, DataTypes, RecordTypes, ProxyAssumption
  <1>3. seen[r] = usage[u0] /\ r \notin billed
    BY <1>1 DEF CountInv, UsageInv
  <1>4. ASSUME NEW q \in Requests, pc'[q] \in {"flush", "commit"}
        PROVE  loop'[On[q]] = q /\ seen'[q] = usage'[RowOf[q]]
    <2>1. q # r /\ pc[q] \in {"flush", "commit"}
      BY <1>1, <1>2, <1>4
    <2>2. loop[On[q]] = q /\ seen[q] = usage[RowOf[q]]
      BY <2>1 DEF CountInv, UsageInv
    <2>3. On[q] # On[r]
      BY <1>1, <2>1, <2>2 DEF Turn, ProxyAssumption
    <2>4. RowOf[q] # u0
      BY <2>3 DEF OneLoopPerRow
    <2>5. loop'[On[q]] = loop[On[q]]
      BY <1>1, <2>3 DEF CountInv, DataTypes, ProxyAssumption
    <2>6. usage'[RowOf[q]] = usage[RowOf[q]]
      BY <1>1, <1>2, <2>4 DEF ProxyAssumption
    <2>7. QED
      BY <1>1, <2>2, <2>5, <2>6
  <1>5. \A q \in billed' : pc'[q] = "200"
    BY <1>1, <1>2 DEF CountInv, UsageInv
  <1>6. ASSUME NEW u \in Rows
        PROVE  usage'[u] = InitialUsage[u] + Cardinality({q \in billed' : RowOf[q] = u})
    <2>1. usage[u] = InitialUsage[u] + Cardinality(Billed(u))
      BY DEF CountInv, UsageInv, UsageMatchesCosts
    <2>2. IsFiniteSet(Billed(u))
      BY <1>2, FS_Subset DEF ProxyAssumption
    <2>3. CASE u = u0
      <3>1. {q \in billed' : RowOf[q] = u} = Billed(u) \cup {r}
        BY <1>1, <2>3
      <3>2. Cardinality(Billed(u) \cup {r}) = Cardinality(Billed(u)) + 1
        BY <1>3, <2>2, FS_AddElement
      <3>3. Cardinality(Billed(u)) \in Nat /\ InitialUsage[u] \in Nat
        BY <2>2, FS_CardinalityType DEF ProxyAssumption
      <3>4. usage'[u] = usage[u] + 1
        BY <1>1, <1>2, <1>3, <2>3
      <3>5. Cardinality({q \in billed' : RowOf[q] = u}) = Cardinality(Billed(u)) + 1
        BY <3>1, <3>2, Zenon
      <3>6. QED
        BY <2>1, <3>3, <3>4, <3>5
    <2>4. CASE u # u0
      <3>1. {q \in billed' : RowOf[q] = u} = Billed(u)
        BY <1>1, <2>4
      <3>2. usage'[u] = usage[u]
        BY <1>1, <1>2, <2>4
      <3>3. QED
        BY <2>1, <3>1, <3>2
    <2>5. QED
      BY <2>3, <2>4
  <1>7. QED
    BY <1>4, <1>5, <1>6 DEF UsageInv, UsageMatchesCosts

LEMMA ServeKeepsUsage ==
  ASSUME ProxyAssumption, OneLoopPerRow, CountInv, NEW r \in Requests,
         Serve(r) \/ Disconnect(r) \/ FailAudit(r) \/ BreakOff(r)
  PROVE  UsageInv'
  <1> USE DEF At, GoOn, Await, Rollback, records
  <1> DEFINE Loops == \/ loop' = [loop EXCEPT ![On[r]] = r]
                      \/ loop' = [loop EXCEPT ![On[r]] = NoOne]
             Steady == UNCHANGED <<usage, billed>> /\ Turn(r) /\ pc[r] \notin Answers /\ Loops
  <1>1. ASSUME NEW step \in (Steps \cup Answers) \ {"flush", "commit"},
               Goto(r, step), Steady, seen' = seen
        PROVE  UsageInv'
    BY <1>1, OtherStepsKeepUsage
  <1>2. CASE Arrive(r) \/ SelectKey(r) \/ TouchKey(r) \/ ReceiveBody(r) \/ UpstreamAnswers(r)
    BY <1>1, <1>2
    DEF Arrive, SelectKey, TouchKey, ReceiveBody, UpstreamAnswers, Steps, InTransaction, Answers
  <1>3. CASE PoolTimeout(r) \/ Disconnect(r) \/ RaisePending(r) \/ BreakOff(r)
    BY <1>1, <1>3
    DEF PoolTimeout, Disconnect, RaisePending, BreakOff, Steps, InTransaction, Answers
  <1>4. CASE Block(r) \/ NoProviderKey(r) \/ Forward(r)
    BY <1>1, <1>4
    DEF Block, NoProviderKey, Forward, CommitStatus, Steps, InTransaction, Answers
  <1>5. CASE UpstreamTimeout(r) \/ UpstreamFailure(r)
    BY <1>1, <1>5
    DEF UpstreamTimeout, UpstreamFailure, CommitStatus, Steps, InTransaction, Answers
  <1>6. CASE FailAudit(r)
    BY <1>1, <1>6 DEF FailAudit, Poison, Steps, InTransaction, Answers
  <1>7. CASE SelectUsage(r)
    <2>1. /\ pc[r] = "usage" /\ Turn(r) /\ Goto(r, "flush") /\ UNCHANGED <<usage, billed>>
          /\ loop' = [loop EXCEPT ![On[r]] = r] /\ seen' = [seen EXCEPT ![r] = usage[RowOf[r]]]
      BY <1>7 DEF SelectUsage
    <2>2. loop'[On[r]] = r /\ seen'[r] = usage[RowOf[r]]
      BY <2>1 DEF CountInv, DataTypes, ProxyAssumption
    <2>3. \A q \in Requests : q # r => seen'[q] = seen[q]
      BY <2>1 DEF CountInv, DataTypes
    <2>4. QED
      BY <2>1, <2>2, <2>3, OtherStepsKeepUsage DEF Steps, InTransaction, Answers
  <1>8. CASE FlushRecord(r)
    <2>1. CASE Poison(r)
      BY <1>1, <1>8, <2>1 DEF FlushRecord, Poison, Steps, InTransaction, Answers
    <2>2. CASE ~Poison(r)
      <3>1. /\ pc[r] = "flush" /\ Turn(r) /\ Goto(r, "commit")
            /\ UNCHANGED <<usage, billed, seen>> /\ loop' = [loop EXCEPT ![On[r]] = r]
        BY <1>8, <2>2 DEF FlushRecord
      <3>2. loop'[On[r]] = r /\ seen'[r] = usage[RowOf[r]]
        BY <3>1 DEF CountInv, DataTypes, UsageInv, ProxyAssumption
      <3>3. QED
        BY <3>1, <3>2, OtherStepsKeepUsage DEF Steps, InTransaction, Answers
    <2>3. QED
      BY <2>1, <2>2
  <1>9. QED
    BY <1>2, <1>3, <1>4, <1>5, <1>6, <1>7, <1>8, CommitKeepsUsage DEF Serve, Upstream

LEMMA UsageStep ==
  ASSUME ProxyAssumption, OneLoopPerRow, CountInv, [Next]_vars
  PROVE  UsageInv'
  <1>1. ASSUME NEW r \in Requests, Serve(r) \/ Disconnect(r) \/ FailAudit(r) \/ BreakOff(r)
        PROVE  UsageInv'
    BY <1>1, ServeKeepsUsage
  <1>2. CASE UNCHANGED <<pc, loop, seen, usage, billed>>
    BY <1>2 DEF CountInv, UsageInv, UsageMatchesCosts
  <1>3. ASSUME NEW k \in Keys, RevokeKey(k)
        PROVE  UNCHANGED <<pc, loop, seen, usage, billed>>
    BY <1>3 DEF RevokeKey, records
  <1>4. ASSUME UNCHANGED vars
        PROVE  UNCHANGED <<pc, loop, seen, usage, billed>>
    BY <1>4 DEF vars, records
  <1>5. QED
    BY <1>1, <1>2, <1>3, <1>4 DEF Next

LEMMA CountAlways ==
  ASSUME OneLoopPerRow
  PROVE  Spec => []CountInv
  <1>1. Init => CountInv
    <2> SUFFICES ASSUME Init
                 PROVE  CountInv
      OBVIOUS
    <2>1. UsageMatchesCosts
      <3>1. \A u \in Rows : {r \in billed : RowOf[r] = u} = {}
        BY DEF Init
      <3>2. QED
        BY <3>1, FS_EmptySet, ProxyAssumption DEF Init, UsageMatchesCosts, ProxyAssumption
    <2>2. QED
      BY <2>1, InitTypes, ProxyAssumption DEF Init, CountInv, UsageInv
  <1>2. CountInv /\ [Next]_vars => CountInv'
    BY LockStep, TypesStep, UsageStep, OneLoopPerRow, ProxyAssumption DEF CountInv
  <1>3. QED
    BY <1>1, <1>2, PTL DEF Spec

\* Where the requests of each usage row run on one event loop, the row counts the
\* billed calls exactly, although it is read and written without a lock of its own.
THEOREM UsageIsExact ==
  ASSUME OneLoopPerRow
  PROVE  Spec => []UsageMatchesCosts
  <1>1. CountInv => UsageMatchesCosts
    BY DEF CountInv, UsageInv
  <1>2. Spec => []CountInv
    BY CountAlways, OneLoopPerRow
  <1>3. QED
    BY <1>1, <1>2, PTL

-----------------------------------------------------------------------------
(* Records *)

AfterForward == {"upstream", "usage", "flush", "commit", "poisoned"} \cup Answers

\* The rows of a request are those of its own end; before it, and after a rollback,
\* there are none, and they are of one commit.
RecordedSo(r) ==
  /\ ~Answered(r) => aiRequest[r] = "none"
  /\ r \in sent => pc[r] \in AfterForward
  /\ Answered(r) /\ r \in sent /\ pc[r] # "500" => aiRequest[r] # "none"
  /\ pc[r] = "200" <=> aiRequest[r] = "completed"
  /\ r \in billed <=> aiRequest[r] = "completed"
  /\ route[r] = "completed" <=> aiRequest[r] = "completed"
  /\ <<r, "completed">> \in audits <=> aiRequest[r] = "completed"
  /\ <<r, "blocked">> \in audits <=> aiRequest[r] = "blocked"
  /\ <<r, "pii_detected">> \in audits <=> aiRequest[r] # "none" /\ Verdict(r).audit_required

RecordInv == LockInv /\ DataTypes /\ \A r \in Requests : RecordedSo(r)

\* A step of one request leaves the records of the others alone.
LEMMA OthersKept ==
  ASSUME RecordInv, NEW r \in Requests, NEW q \in Requests \ {r},
         Serve(r) \/ Disconnect(r) \/ FailAudit(r) \/ BreakOff(r)
  PROVE  /\ pc'[q] = pc[q] /\ found'[q] = found[q]
         /\ aiRequest'[q] = aiRequest[q] /\ route'[q] = route[q]
         /\ (q \in billed' <=> q \in billed) /\ (q \in sent' <=> q \in sent)
         /\ \A action : <<q, action>> \in audits' <=> <<q, action>> \in audits
  <1>1. /\ pc \in [Requests -> Steps \cup Answers] /\ sent \subseteq Requests
        /\ aiRequest \in [Requests -> {"none", "blocked", "timeout", "failed", "completed"}]
        /\ route \in [Requests -> {"none", "proxying", "completed"}]
        /\ found \in [Requests -> SUBSET PiiTypes]
    BY DEF RecordInv, LockInv, LockTypes, DataTypes, RecordTypes
  <1>2. pc'[q] = pc[q]
    BY <1>1 DEF Serve, Arrive, PoolTimeout, SelectKey, TouchKey, ReceiveBody, Block,
       NoProviderKey, Forward, Upstream, UpstreamTimeout, UpstreamFailure, UpstreamAnswers,
       SelectUsage, FlushRecord, RaisePending, CommitRecord, Disconnect, FailAudit, BreakOff,
       Poison, Rollback, CommitStatus, GoOn, Await, Goto
  <1>3. /\ aiRequest'[q] = aiRequest[q] /\ route'[q] = route[q] /\ found'[q] = found[q]
        /\ (q \in billed' <=> q \in billed) /\ (q \in sent' <=> q \in sent)
        /\ \A action : <<q, action>> \in audits' <=> <<q, action>> \in audits
    <2> USE DEF records, Rollback, CommitStatus, Poison, Scan, AuditRows
    <2>1. CASE Arrive(r) \/ PoolTimeout(r) \/ SelectKey(r) \/ TouchKey(r) \/ ReceiveBody(r)
      BY <1>1, <2>1 DEF Arrive, PoolTimeout, SelectKey, TouchKey, ReceiveBody
    <2>2. CASE NoProviderKey(r) \/ Forward(r) \/ BreakOff(r)
      BY <1>1, <2>2 DEF NoProviderKey, Forward, BreakOff
    <2>3. CASE Block(r)
      BY <1>1, <2>3 DEF Block
    <2>4. CASE UpstreamTimeout(r)
      BY <1>1, <2>4 DEF UpstreamTimeout
    <2>5. CASE UpstreamFailure(r)
      BY <1>1, <2>5 DEF UpstreamFailure
    <2>6. CASE UpstreamAnswers(r) \/ SelectUsage(r) \/ FlushRecord(r) \/ RaisePending(r)
      BY <1>1, <2>6 DEF UpstreamAnswers, SelectUsage, FlushRecord, RaisePending
    <2>7. CASE CommitRecord(r)
      BY <1>1, <2>7 DEF CommitRecord
    <2>8. CASE Disconnect(r) \/ FailAudit(r)
      BY <1>1, <2>8 DEF Disconnect, FailAudit
    <2>9. QED
      BY <2>1, <2>2, <2>3, <2>4, <2>5, <2>6, <2>7, <2>8 DEF Serve, Upstream
  <1>4. QED
    BY <1>2, <1>3

LEMMA OthersRecorded ==
  ASSUME RecordInv, NEW r \in Requests, NEW q \in Requests \ {r},
         Serve(r) \/ Disconnect(r) \/ FailAudit(r) \/ BreakOff(r)
  PROVE  RecordedSo(q)'
  <1>1. /\ pc'[q] = pc[q] /\ found'[q] = found[q]
        /\ aiRequest'[q] = aiRequest[q] /\ route'[q] = route[q]
        /\ (q \in billed' <=> q \in billed) /\ (q \in sent' <=> q \in sent)
        /\ \A action : <<q, action>> \in audits' <=> <<q, action>> \in audits
    BY OthersKept
  <1>2. RecordedSo(q) /\ Verdict(q)' = Verdict(q)
    BY <1>1 DEF RecordInv, Verdict
  <1>3. QED
    BY <1>1, <1>2 DEF RecordedSo, Answered

\* What a request commits, it commits at once.
LEMMA OwnRecorded ==
  ASSUME RecordInv, NEW r \in Requests,
         Serve(r) \/ Disconnect(r) \/ FailAudit(r) \/ BreakOff(r)
  PROVE  RecordedSo(r)'
  <1>1. /\ pc \in [Requests -> Steps \cup Answers] /\ RecordedSo(r)
        /\ aiRequest \in [Requests -> {"none", "blocked", "timeout", "failed", "completed"}]
        /\ route \in [Requests -> {"none", "proxying", "completed"}]
    BY DEF RecordInv, LockInv, LockTypes, DataTypes, RecordTypes
  <1> USE DEF records, At, GoOn, Await, Goto, Rollback, CommitStatus, Poison, RecordedSo,
              Answered, Answers, AfterForward, InTransaction
  <1>2. ~Answered(r) => /\ r \notin billed /\ route[r] # "completed"
                        /\ \A action \in {"completed", "blocked", "pii_detected"} :
                             <<r, action>> \notin audits
    BY <1>1
  <1>3. CASE Arrive(r) \/ PoolTimeout(r) \/ SelectKey(r) \/ TouchKey(r) \/ ReceiveBody(r)
    BY <1>1, <1>2, <1>3 DEF Arrive, PoolTimeout, SelectKey, TouchKey, ReceiveBody
  <1>4. CASE NoProviderKey(r) \/ Forward(r)
    <2>1. r \notin sent
      BY <1>1, <1>4 DEF NoProviderKey, Forward
    <2>2. CASE NoProviderKey(r)
      BY <1>1, <1>2, <2>1, <2>2 DEF NoProviderKey
    <2>3. CASE Forward(r)
      BY <1>1, <1>2, <2>1, <2>3 DEF Forward
    <2>4. QED
      BY <1>4, <2>2, <2>3
  <1>5. CASE Block(r)
    BY <1>1, <1>2, <1>5 DEF Block, AuditRows
  <1>6. CASE UpstreamTimeout(r)
    <2>1. Verdict(r)' = Verdict(r)
      BY <1>6 DEF UpstreamTimeout, Verdict
    <2>2. QED
      BY <1>1, <1>2, <1>6, <2>1 DEF UpstreamTimeout, AuditRows
  <1>7. CASE UpstreamFailure(r)
    <2>1. Verdict(r)' = Verdict(r)
      BY <1>7 DEF UpstreamFailure, Verdict
    <2>2. QED
      BY <1>1, <1>2, <1>7, <2>1 DEF UpstreamFailure, AuditRows
  <1>8. CASE UpstreamAnswers(r) \/ SelectUsage(r)
    BY <1>1, <1>2, <1>8 DEF UpstreamAnswers, SelectUsage
  <1>9. CASE FlushRecord(r)
    BY <1>1, <1>2, <1>9 DEF FlushRecord
  <1>10. CASE RaisePending(r) \/ BreakOff(r)
    BY <1>1, <1>2, <1>10 DEF RaisePending, BreakOff
  <1>11. CASE CommitRecord(r)
    <2>1. Verdict(r)' = Verdict(r)
      BY <1>11 DEF CommitRecord, Verdict
    <2>2. QED
      BY <1>1, <1>2, <1>11, <2>1 DEF CommitRecord, AuditRows
  <1>12. CASE Disconnect(r) \/ FailAudit(r)
    BY <1>1, <1>2, <1>12 DEF Disconnect, FailAudit
  <1>13. QED
    BY <1>3, <1>4, <1>5, <1>6, <1>7, <1>8, <1>9, <1>10, <1>11, <1>12 DEF Serve, Upstream

LEMMA RecordAlways == Spec => []RecordInv
  <1>1. Init => RecordInv
    <2> SUFFICES ASSUME Init PROVE RecordInv
      OBVIOUS
    <2>1. \A r \in Requests : RecordedSo(r)
      BY DEF Init, RecordedSo, Answered, Answers
    <2>2. QED
      BY <2>1, InitTypes, ProxyAssumption DEF RecordInv
  <1>2. RecordInv /\ [Next]_vars => RecordInv'
    <2> SUFFICES ASSUME RecordInv, [Next]_vars PROVE RecordInv'
      OBVIOUS
    <2>1. LockInv' /\ DataTypes'
      BY LockStep, TypesStep, ProxyAssumption DEF RecordInv
    <2>2. ASSUME NEW r \in Requests, Serve(r) \/ Disconnect(r) \/ FailAudit(r) \/ BreakOff(r)
          PROVE  \A q \in Requests : RecordedSo(q)'
      BY <2>2, OthersRecorded, OwnRecorded
    <2>3. ASSUME UNCHANGED <<pc, records, found, sent>>
          PROVE  \A q \in Requests : RecordedSo(q)'
      BY <2>3 DEF RecordInv, RecordedSo, Answered, Verdict, records
    <2>4. ASSUME NEW k \in Keys, RevokeKey(k)
          PROVE  UNCHANGED <<pc, records, found, sent>>
      BY <2>4 DEF RevokeKey
    <2>5. ASSUME UNCHANGED vars
          PROVE  UNCHANGED <<pc, records, found, sent>>
      BY <2>5 DEF vars
    <2>6. \A q \in Requests : RecordedSo(q)'
      BY <2>2, <2>3, <2>4, <2>5 DEF Next
    <2>7. QED
      BY <2>1, <2>6 DEF RecordInv
  <1>3. QED
    BY <1>1, <1>2, PTL DEF Spec

\* Each path of a call commits its rows at once or rolls all of them back: whatever
\* raises where, no answered request is recorded in part, the completed ones are those
\* whose callers have the answer, and what was sent and has no row was answered 500
\* (the handlers of timeouts, failures and answers in proxy.py, and get_db).
THEOREM RecordsAreWhole == Spec => []RecordIsWhole
  <1>1. RecordInv => RecordIsWhole
    BY DEF RecordInv, RecordedSo, RecordIsWhole
  <1>2. QED
    BY <1>1, RecordAlways, PTL

-----------------------------------------------------------------------------
(* Verdicts *)

\* A text is blocked exactly when the strongest action of its policies is "block", and then
\* it has a type.
LEMMA BlockIsStrongest ==
  ASSUME NEW text, NEW org, NEW scan, scan = ScanAndMask(text, org)
  PROVE  /\ scan.should_block => scan.pii_detected
         /\ scan.action_taken = "block" <=> scan.should_block
  <1> DEFINE actions == {PolicyOf(org, t).action : t \in text} \cup {"allow"}
             known == actions \cap DOMAIN Strength
  <1>1. /\ scan.should_block <=> "block" \in actions
        /\ scan.pii_detected <=> text # {}
        /\ scan.action_taken = Strongest(actions)
    BY DEF ScanAndMask
  <1>2. "allow" \in actions /\ ("block" \in actions => text # {})
    OBVIOUS
  <1> HIDE DEF actions
  <1>3. /\ DOMAIN Strength = {"allow", "alert", "mask", "block"} /\ Strength["allow"] = 0
        /\ Strength["alert"] = 1 /\ Strength["mask"] = 2 /\ Strength["block"] = 3
    BY DEF Strength
  <1>4. \E a \in known : \A b \in known : Strength[a] >= Strength[b]
    <2>1. CASE "block" \in actions
      BY <1>3, <2>1
    <2>2. CASE "block" \notin actions /\ "mask" \in actions
      BY <1>3, <2>2
    <2>3. CASE "block" \notin actions /\ "mask" \notin actions /\ "alert" \in actions
      BY <1>3, <2>3
    <2>4. CASE "block" \notin actions /\ "mask" \notin actions /\ "alert" \notin actions
      BY <1>2, <1>3, <2>4
    <2>5. QED
      BY <2>1, <2>2, <2>3, <2>4
  <1>5. /\ Strongest(actions) \in known
        /\ \A b \in known : Strength[Strongest(actions)] >= Strength[b]
    BY <1>4 DEF Strongest
  <1>6. QED
    BY <1>1, <1>2, <1>3, <1>5

LEMMA VerdictIs ==
  ASSUME DataTypes, NEW r \in Requests
  PROVE  /\ Verdict(r).should_block => Verdict(r).pii_detected
         /\ Verdict(r).action_taken = "block" <=> Verdict(r).should_block
  <1>1. found[r] \in SUBSET PiiTypes
    BY DEF DataTypes
  <1>2. Verdict(r) = ScanAndMask(found[r], OrgOf[KeyOf[r]])
    BY <1>1 DEF Verdict, Verdicts
  <1>3. QED
    BY <1>2, BlockIsStrongest

\* What has gone past the scan was not to be blocked, and a row says "blocked" of the
\* others only.
VerdictSo(r) ==
  /\ pc[r] \in {"upstream", "usage", "flush", "commit"} => ~Verdict(r).should_block
  /\ aiRequest[r] # "none" => (aiRequest[r] = "blocked" <=> Verdict(r).should_block)
VerdictInv == \A r \in Requests : VerdictSo(r)

LEMMA OthersJudged ==
  ASSUME RecordInv, NEW r \in Requests, NEW q \in Requests \ {r}, VerdictSo(q),
         Serve(r) \/ Disconnect(r) \/ FailAudit(r) \/ BreakOff(r)
  PROVE  VerdictSo(q)'
  <1>1. pc'[q] = pc[q] /\ found'[q] = found[q] /\ aiRequest'[q] = aiRequest[q]
    BY OthersKept
  <1>2. Verdict(q)' = Verdict(q)
    BY <1>1 DEF Verdict
  <1>3. QED
    BY <1>1, <1>2 DEF VerdictSo

LEMMA OwnJudged ==
  ASSUME RecordInv, NEW r \in Requests, VerdictSo(r),
         Serve(r) \/ Disconnect(r) \/ FailAudit(r) \/ BreakOff(r)
  PROVE  VerdictSo(r)'
  <1>1. /\ pc \in [Requests -> Steps \cup Answers] /\ RecordedSo(r)
        /\ aiRequest \in [Requests -> {"none", "blocked", "timeout", "failed", "completed"}]
        /\ found \in [Requests -> SUBSET PiiTypes]
    BY DEF RecordInv, LockInv, LockTypes, DataTypes, RecordTypes
  <1>2. ASSUME NEW b \in BOOLEAN, Scan(r, b)
        PROVE  Verdict(r)'.should_block = b
    BY <1>1, <1>2 DEF Scan, Verdict
  <1>3. found'[r] = found[r] => Verdict(r)' = Verdict(r)
    BY DEF Verdict
  <1>4. ~Answered(r) => aiRequest[r] = "none"
    BY <1>1 DEF RecordedSo
  <1> USE DEF records, At, GoOn, Await, Goto, Rollback, CommitStatus, Poison, VerdictSo,
              Answered, Answers
  <1>5. CASE Arrive(r) \/ PoolTimeout(r) \/ SelectKey(r) \/ TouchKey(r) \/ ReceiveBody(r)
    BY <1>1, <1>3, <1>4, <1>5 DEF Arrive, PoolTimeout, SelectKey, TouchKey, ReceiveBody
  <1>6. CASE Block(r)
    BY <1>1, <1>2, <1>6 DEF Block
  <1>7. CASE NoProviderKey(r) \/ BreakOff(r)
    BY <1>1, <1>4, <1>7 DEF NoProviderKey, BreakOff, InTransaction
  <1>8. CASE UpstreamTimeout(r) \/ UpstreamFailure(r)
    BY <1>1, <1>3, <1>8 DEF UpstreamTimeout, UpstreamFailure
  <1>9. CASE UpstreamAnswers(r) \/ SelectUsage(r)
    BY <1>1, <1>3, <1>4, <1>9 DEF UpstreamAnswers, SelectUsage
  <1>10. CASE FlushRecord(r)
    BY <1>1, <1>3, <1>4, <1>10 DEF FlushRecord
  <1>11. CASE RaisePending(r) \/ Disconnect(r) \/ FailAudit(r)
    BY <1>1, <1>3, <1>4, <1>11 DEF RaisePending, Disconnect, FailAudit
  <1>12. CASE CommitRecord(r)
    BY <1>1, <1>3, <1>12 DEF CommitRecord
  <1>13. CASE Forward(r)
    BY <1>1, <1>2, <1>4, <1>13 DEF Forward
  <1>14. QED
    BY <1>5, <1>6, <1>7, <1>8, <1>9, <1>10, <1>11, <1>12, <1>13 DEF Serve, Upstream

LEMMA VerdictStep ==
  ASSUME RecordInv, VerdictInv, [Next]_vars
  PROVE  VerdictInv'
  <1>1. ASSUME NEW r \in Requests, Serve(r) \/ Disconnect(r) \/ FailAudit(r) \/ BreakOff(r)
        PROVE  VerdictInv'
    BY <1>1, OthersJudged, OwnJudged DEF VerdictInv
  <1>2. ASSUME UNCHANGED <<pc, aiRequest, found>>
        PROVE  VerdictInv'
    BY <1>2 DEF VerdictInv, VerdictSo, Verdict
  <1>3. ASSUME NEW k \in Keys, RevokeKey(k)
        PROVE  UNCHANGED <<pc, aiRequest, found>>
    BY <1>3 DEF RevokeKey, records
  <1>4. ASSUME UNCHANGED vars
        PROVE  UNCHANGED <<pc, aiRequest, found>>
    BY <1>4 DEF vars, records
  <1>5. QED
    BY <1>1, <1>2, <1>3, <1>4 DEF Next

-----------------------------------------------------------------------------
(* The pages *)

LEMMA RequestsFinite ==
  ASSUME NEW S \in SUBSET Requests
  PROVE  IsFiniteSet(S) /\ Cardinality(S) \in Nat
  BY ProxyAssumption, FS_Subset, FS_CardinalityType DEF ProxyAssumption

LEMMA CostsWhole == \A S \in SUBSET Requests : Whole(Cost, S)
  BY ReportsAssumption DEF ReportsAssumption, Whole

\* What the pages add up, as sums of functions.
LEMMA TotalCostIs ==
  ASSUME NEW S
  PROVE  TotalCost(S) = SumOn(Cost, S)
  <1> DEFINE E(g) == g = [s \in SUBSET S |-> IF s = {} THEN 0
                                             ELSE Cost[Pick(s)] + g[s \ {Pick(s)}]]
  <1>1. TotalCost(S) = (CHOOSE g : E(g))[S]
    BY DEF TotalCost, MapThenSumSet, MapThenFoldSet, Pick
  <1>2. \A g : E(g) <=> SumEq(Cost, S, g)
    BY DEF SumEq
  <1>3. (CHOOSE g : E(g)) = (CHOOSE g : SumEq(Cost, S, g))
    <2> HIDE DEF E
    <2>1. QED
      BY <1>2
  <1>4. QED
    BY <1>1, <1>3 DEF SumOn

LEMMA RequestedIs ==
  ASSUME NEW report, NEW D, D = DOMAIN report, NEW f, f = [k \in D |-> report[k].requests]
  PROVE  Requested(report) = SumOn(f, D)
  <1> DEFINE E(g) == g = [s \in SUBSET D |-> IF s = {} THEN 0
                                             ELSE report[Pick(s)].requests + g[s \ {Pick(s)}]]
  <1>1. Requested(report) = (CHOOSE g : E(g))[D]
    BY DEF Requested, MapThenSumSet, MapThenFoldSet, Pick
  <1>2. \A g : E(g) <=> SumEq(f, D, g)
    <2> TAKE g
    <2>1. \A s \in SUBSET D : (IF s = {} THEN 0 ELSE report[Pick(s)].requests + g[s \ {Pick(s)}])
                             = (IF s = {} THEN 0 ELSE f[Pick(s)] + g[s \ {Pick(s)}])
      BY PickIn
    <2>2. [s \in SUBSET D |-> IF s = {} THEN 0 ELSE report[Pick(s)].requests + g[s \ {Pick(s)}]]
            = [s \in SUBSET D |-> IF s = {} THEN 0 ELSE f[Pick(s)] + g[s \ {Pick(s)}]]
      BY <2>1
    <2>3. QED
      BY <2>2 DEF SumEq
  <1>3. (CHOOSE g : E(g)) = (CHOOSE g : SumEq(f, D, g))
    <2> HIDE DEF E
    <2>1. QED
      BY <1>2
  <1>4. QED
    BY <1>1, <1>3 DEF SumOn

LEMMA SpentIs ==
  ASSUME NEW report, NEW D, D = DOMAIN report, NEW f, f = [k \in D |-> report[k].cost]
  PROVE  Spent(report) = SumOn(f, D)
  <1> DEFINE E(g) == g = [s \in SUBSET D |-> IF s = {} THEN 0
                                             ELSE report[Pick(s)].cost + g[s \ {Pick(s)}]]
  <1>1. Spent(report) = (CHOOSE g : E(g))[D]
    BY DEF Spent, MapThenSumSet, MapThenFoldSet, Pick
  <1>2. \A g : E(g) <=> SumEq(f, D, g)
    <2> TAKE g
    <2>1. \A s \in SUBSET D : (IF s = {} THEN 0 ELSE report[Pick(s)].cost + g[s \ {Pick(s)}])
                             = (IF s = {} THEN 0 ELSE f[Pick(s)] + g[s \ {Pick(s)}])
      BY PickIn
    <2>2. [s \in SUBSET D |-> IF s = {} THEN 0 ELSE report[Pick(s)].cost + g[s \ {Pick(s)}]]
            = [s \in SUBSET D |-> IF s = {} THEN 0 ELSE f[Pick(s)] + g[s \ {Pick(s)}]]
      BY <2>1
    <2>3. QED
      BY <2>2 DEF SumEq
  <1>3. (CHOOSE g : E(g)) = (CHOOSE g : SumEq(f, D, g))
    <2> HIDE DEF E
    <2>1. QED
      BY <1>2
  <1>4. QED
    BY <1>1, <1>3 DEF SumOn

\* The lines of a page hold each of its requests once.
LEMMA LinesAddUp ==
  ASSUME NEW S \in SUBSET Requests, NEW key
  PROVE  /\ Requested(Lines(S, key)) = Cardinality(S)
         /\ Spent(Lines(S, key)) = TotalCost(S \cap billed)
  <1>1. PICK D : D = KeysOf(key, S)
    OBVIOUS
  <1>2. PICK page : page = Lines(S, key)
    OBVIOUS
  <1>3. /\ DOMAIN page = D
        /\ \A k \in D : /\ page[k].requests = Cardinality(WithKey(key, S, k))
                        /\ page[k].cost = TotalCost(WithKey(key, S, k) \cap billed)
    BY <1>1, <1>2 DEF Lines, KeysOf, WithKey
  <1>4. IsFiniteSet(S) /\ \A k : WithKey(key, S, k) \in SUBSET S
    BY RequestsFinite DEF WithKey
  <1>5. IsFiniteSet(D)
    BY <1>1, <1>4, ImageFinite DEF KeysOf
  <1>6. Requested(page) = Cardinality(S)
    <2>1. PICK ones : ones = [r \in S |-> 1]
      OBVIOUS
    <2>2. PICK f : f = [k \in D |-> page[k].requests]
      BY Zenon
    <2>3. Whole(ones, S) /\ \A r \in S : ones[r] = 1
      BY <2>1 DEF Whole
    <2>4. ASSUME NEW k \in D PROVE f[k] = SumOn(ones, WithKey(key, S, k))
      <3>1. PICK M : M = WithKey(key, S, k)
        OBVIOUS
      <3>2. IsFiniteSet(M) /\ \A r \in M : ones[r] = 1
        BY <1>4, <2>3, <3>1, FS_Subset
      <3>3. SumOn(ones, M) = Cardinality(M)
        BY <3>2, SumOnes
      <3>4. QED
        BY <1>3, <2>2, <3>1, <3>3
    <2>5. SumOn(f, D) = SumOn(ones, S)
      BY <1>1, <1>4, <2>3, <2>4, SumGroups
    <2>6. SumOn(ones, S) = Cardinality(S)
      BY <1>4, <2>3, SumOnes
    <2>7. QED
      BY <1>3, <2>2, <2>5, <2>6, RequestedIs
  <1>7. Spent(page) = TotalCost(S \cap billed)
    <2>1. PICK B : B = S \cap billed
      OBVIOUS
    <2>2. PICK f : f = [k \in D |-> page[k].cost]
      BY Zenon
    <2>3. IsFiniteSet(B) /\ Whole(Cost, B)
      BY <2>1, RequestsFinite, CostsWhole
    <2>4. \A k \in D : f[k] = SumOn(Cost, WithKey(key, B, k))
      <3>1. \A k : WithKey(key, S, k) \cap billed = WithKey(key, B, k)
        BY <2>1 DEF WithKey
      <3>2. QED
        BY <1>3, <2>2, <3>1, TotalCostIs
    <2>5. SumOn(f, D) = SumOn(Cost, WithKeys(key, B, D))
      BY <1>5, <2>3, <2>4, SumFibres
    <2>6. WithKeys(key, B, D) = B
      BY <1>1, <2>1 DEF WithKeys, KeysOf
    <2>7. QED
      BY <1>3, <2>1, <2>2, <2>5, <2>6, SpentIs, TotalCostIs
  <1>8. QED
    BY <1>2, <1>6, <1>7

LEMMA ReceivedIs ==
  ASSUME RecordInv, NEW org, NEW from
  PROVE  /\ Received(org, from) \in SUBSET Requests
         /\ Costed(org, from) = Received(org, from) \cap billed
         /\ Costed(org, from) = With(Received(org, from), "completed")
         /\ Costed(org, from) \in SUBSET Requests
  <1>1. billed \subseteq Requests /\ \A r \in Requests : r \in billed <=> aiRequest[r] = "completed"
    BY DEF RecordInv, DataTypes, RecordTypes, RecordedSo
  <1>2. QED
    BY <1>1 DEF Received, Costed, With

\* Each request has a row of its own in the list.
Listed(org, status, piiOnly) ==
  {q \in Received(org, 0) : /\ Matches(aiRequest[q], status)
                            /\ piiOnly => Verdict(q).pii_detected}
LEMMA ListIs ==
  ASSUME RecordInv, NEW org, NEW status, NEW piiOnly
  PROVE  /\ Cardinality(RequestList(org, All, status, piiOnly))
              = Cardinality(Listed(org, status, piiOnly))
         /\ ListCost(RequestList(org, All, status, piiOnly))
              = TotalCost(Listed(org, status, piiOnly) \cap billed)
  <1> DEFINE list == RequestList(org, All, status, piiOnly)
             Q == Listed(org, status, piiOnly)
  <1>1. Q \in SUBSET Requests
    BY ReceivedIs DEF Listed
  <1>2. PICK row : row = [r \in Requests |-> [request |-> r, status |-> aiRequest[r],
                                              cost |-> IF r \in billed THEN Cost[r] ELSE 0]]
    OBVIOUS
  <1>3. list = KeysOf(row, Q)
    BY <1>1, <1>2 DEF RequestList, Listed, Matches, KeysOf
  <1> HIDE DEF list, Q
  <1>4. \A r \in Q : row[r].request = r /\ row[r].cost = (IF r \in billed THEN Cost[r] ELSE 0)
    BY <1>1, <1>2
  <1>5. \A r \in Q : WithKey(row, Q, row[r]) = {r}
    BY <1>4 DEF WithKey
  <1>6. IsFiniteSet(Q) /\ IsFiniteSet(list)
    BY <1>1, <1>3, RequestsFinite, ImageFinite DEF KeysOf
  <1>7. Cardinality(list) = Cardinality(Q)
    <2>1. PICK ones : ones = [r \in Q |-> 1]
      OBVIOUS
    <2>2. PICK g : g = [i \in list |-> 1]
      OBVIOUS
    <2>3. Whole(ones, Q) /\ \A r \in Q : ones[r] = 1
      BY <2>1 DEF Whole
    <2>4. \A i \in KeysOf(row, Q) : g[i] = SumOn(ones, WithKey(row, Q, i))
      <3>1. ASSUME NEW r \in Q PROVE SumOn(ones, WithKey(row, Q, row[r])) = 1
        <4>1. SumOn(ones, {r}) = 1
          BY <2>3, SumOne
        <4>2. QED
          BY <1>5, <4>1
      <3>2. QED
        BY <1>3, <2>2, <3>1 DEF KeysOf
    <2>5. SumOn(g, KeysOf(row, Q)) = SumOn(ones, Q)
      BY <1>6, <2>3, <2>4, SumGroups
    <2>6. SumOn(ones, Q) = Cardinality(Q) /\ SumOn(g, list) = Cardinality(list)
      <3>1. \A i \in list : g[i] = 1
        BY <2>2
      <3>2. QED
        BY <1>6, <2>3, <3>1, SumOnes
    <2>7. QED
      BY <1>3, <2>5, <2>6
  <1>8. PICK h : h = [i \in list |-> i.cost]
    BY Zenon
  <1>9. ListCost(list) = SumOn(h, list)
    <2> DEFINE E(g) == g = [s \in SUBSET list |-> IF s = {} THEN 0
                                                  ELSE Pick(s).cost + g[s \ {Pick(s)}]]
    <2>1. ListCost(list) = (CHOOSE g : E(g))[list]
      BY DEF ListCost, MapThenSumSet, MapThenFoldSet, Pick
    <2>2. \A g : E(g) <=> SumEq(h, list, g)
      <3> TAKE g
      <3>1. \A s \in SUBSET list : (IF s = {} THEN 0 ELSE Pick(s).cost + g[s \ {Pick(s)}])
                                  = (IF s = {} THEN 0 ELSE h[Pick(s)] + g[s \ {Pick(s)}])
        BY <1>8, PickIn
      <3>2. [s \in SUBSET list |-> IF s = {} THEN 0 ELSE Pick(s).cost + g[s \ {Pick(s)}]]
              = [s \in SUBSET list |-> IF s = {} THEN 0 ELSE h[Pick(s)] + g[s \ {Pick(s)}]]
        BY <3>1
      <3>3. QED
        BY <3>2 DEF SumEq
    <2>3. (CHOOSE g : E(g)) = (CHOOSE g : SumEq(h, list, g))
      <3> HIDE DEF E
      <3>1. QED
        BY <2>2
    <2>4. QED
      BY <2>1, <2>3 DEF SumOn
  <1>10. SumOn(h, list) = TotalCost(Q \cap billed)
    <2>1. PICK c : c = [r \in Q |-> IF r \in billed THEN Cost[r] ELSE 0]
      OBVIOUS
    <2>2. PICK B : B = Q \cap billed
      OBVIOUS
    <2>3. Whole(Cost, B) /\ B \in SUBSET Q /\ IsFiniteSet(B) /\ IsFiniteSet(Q \ B)
      BY <1>1, <1>6, <2>2, CostsWhole, FS_Subset
    <2>4. Whole(c, Q)
      BY <1>1, <2>1, CostsWhole, ReportsAssumption DEF ReportsAssumption, Whole
    <2>5. \A i \in KeysOf(row, Q) : h[i] = SumOn(c, WithKey(row, Q, i))
      <3>1. ASSUME NEW r \in Q PROVE SumOn(c, WithKey(row, Q, row[r])) = row[r].cost
        <4>1. SumOn(c, {r}) = c[r]
          BY <2>4, SumOne DEF Whole
        <4>2. QED
          BY <1>4, <1>5, <2>1, <4>1
      <3>2. QED
        BY <1>3, <1>8, <3>1 DEF KeysOf
    <2>6. SumOn(h, KeysOf(row, Q)) = SumOn(c, Q)
      BY <1>6, <2>4, <2>5, SumGroups
    <2>7. SumOn(c, Q) = SumOn(c, B) + SumOn(c, Q \ B) /\ SumOn(c, B) \in Nat
      BY <1>6, <2>3, <2>4, SumSplit
    <2>8. SumOn(c, Q \ B) = 0
      <3>1. \A r \in Q \ B : c[r] = 0
        BY <2>1, <2>2
      <3>2. QED
        BY <2>3, <3>1, SumZeros
    <2>9. SumOn(c, B) = SumOn(Cost, B)
      <3>1. \A r \in B : c[r] = Cost[r]
        BY <2>1, <2>2
      <3>2. QED
        BY <2>3, <3>1, SumSame
    <2>10. QED
      BY <1>3, <2>2, <2>6, <2>7, <2>8, <2>9, TotalCostIs
  <1>11. QED
    BY <1>7, <1>9, <1>10 DEF list, Q

LEMMA UsagePageIs ==
  ASSUME NEW page, NEW D, D = DOMAIN page
  PROVE  Counted(page) = SumOn(page, D)
  <1> DEFINE E(g) == g = [s \in SUBSET D |-> IF s = {} THEN 0
                                             ELSE page[Pick(s)] + g[s \ {Pick(s)}]]
  <1>1. Counted(page) = (CHOOSE g : E(g))[D]
    BY DEF Counted, FoldFunction, FoldFunctionOnSet, MapThenFoldSet, Pick
  <1>2. \A g : E(g) <=> SumEq(page, D, g)
    BY DEF SumEq
  <1>3. (CHOOSE g : E(g)) = (CHOOSE g : SumEq(page, D, g))
    <2> HIDE DEF E
    <2>1. QED
      BY <1>2
  <1>4. QED
    BY <1>1, <1>3 DEF SumOn

LEMMA UsedIs ==
  ASSUME NEW S
  PROVE  MapThenSumSet(LAMBDA u : usage[u], S) = SumOn(usage, S)
  <1> DEFINE E(g) == g = [s \in SUBSET S |-> IF s = {} THEN 0
                                             ELSE usage[Pick(s)] + g[s \ {Pick(s)}]]
  <1>1. MapThenSumSet(LAMBDA u : usage[u], S) = (CHOOSE g : E(g))[S]
    BY DEF MapThenSumSet, MapThenFoldSet, Pick
  <1>2. \A g : E(g) <=> SumEq(usage, S, g)
    BY DEF SumEq
  <1>3. (CHOOSE g : E(g)) = (CHOOSE g : SumEq(usage, S, g))
    <2> HIDE DEF E
    <2>1. QED
      BY <1>2
  <1>4. QED
    BY <1>1, <1>3 DEF SumOn

LEMMA InitiallyUsedIs ==
  ASSUME NEW S
  PROVE  CountedBefore(S) = SumOn(InitialUsage, S)
  <1> DEFINE E(g) == g = [s \in SUBSET S |-> IF s = {} THEN 0
                                             ELSE InitialUsage[Pick(s)] + g[s \ {Pick(s)}]]
  <1>1. CountedBefore(S) = (CHOOSE g : E(g))[S]
    BY DEF CountedBefore, MapThenSumSet, MapThenFoldSet, Pick
  <1>2. \A g : E(g) <=> SumEq(InitialUsage, S, g)
    BY DEF SumEq
  <1>3. (CHOOSE g : E(g)) = (CHOOSE g : SumEq(InitialUsage, S, g))
    <2> HIDE DEF E
    <2>1. QED
      BY <1>2
  <1>4. QED
    BY <1>1, <1>3 DEF SumOn

\* The rows in use of a scope.
InScope(org, from) == {u \in Rows : RowKey[u].day >= from /\ Matches(RowKey[u].org, org)}

\* The page by project and model adds up the rows in use, and those not in use are zero.
LEMMA UsagePageSum ==
  ASSUME DataTypes, NEW org, NEW from
  PROVE  Counted(StatsByProjectModel(org, from)) = SumOn(usage, InScope(org, from))
  <1>1. PICK V : V = InScope(org, from)
    OBVIOUS
  <1>2. PICK S : S = {u \in V : usage[u] > 0}
    OBVIOUS
  <1>3. V \in SUBSET Rows /\ S \in SUBSET V
    BY <1>1, <1>2 DEF InScope
  <1>4. IsFiniteSet(V) /\ IsFiniteSet(S) /\ IsFiniteSet(V \ S)
    BY <1>3, ReportsAssumption, FS_Subset DEF ReportsAssumption
  <1>5. Whole(usage, V) /\ Whole(usage, S)
    BY <1>3 DEF DataTypes, Whole
  <1>6. PICK k : k = [u \in Rows |-> ProjectModel(u)]
    BY Zenon
  <1>7. \A u \in S : k[u] = ProjectModel(u)
    BY <1>3, <1>6
  <1>8. PICK D : D = KeysOf(k, S)
    OBVIOUS
  <1>9. PICK page : page = StatsByProjectModel(org, from)
    OBVIOUS
  <1>10. DOMAIN page = D /\ \A x \in D : page[x] = SumOn(usage, WithKey(k, S, x))
    <2>1. S = {u \in Rows : usage[u] > 0 /\ RowKey[u].day >= from /\ Matches(RowKey[u].org, org)}
      BY <1>1, <1>2 DEF InScope
    <2>2. D = {ProjectModel(u) : u \in S}
      BY <1>7, <1>8 DEF KeysOf
    <2>3. page = [x \in D |-> MapThenSumSet(LAMBDA u : usage[u], {u \in S : ProjectModel(u) = x})]
      BY <1>9, <2>1, <2>2 DEF StatsByProjectModel
    <2>4. \A x : {u \in S : ProjectModel(u) = x} = WithKey(k, S, x)
      BY <1>7 DEF WithKey
    <2>5. QED
      BY <2>3, <2>4, UsedIs
  <1>11. SumOn(page, D) = SumOn(usage, S)
    BY <1>4, <1>5, <1>8, <1>10, SumGroups
  <1>12. SumOn(usage, V) = SumOn(usage, S) + SumOn(usage, V \ S) /\ SumOn(usage, S) \in Nat
    BY <1>3, <1>4, <1>5, SumSplit
  <1>13. SumOn(usage, V \ S) = 0
    <2>1. \A u \in V \ S : usage[u] = 0
      BY <1>2, <1>5 DEF Whole
    <2>2. QED
      BY <1>4, <2>1, SumZeros
  <1>14. QED
    BY <1>1, <1>9, <1>10, <1>11, <1>12, <1>13, UsagePageIs

\* Those rows count the calls that cost, beside those of before.
LEMMA ScopeCounts ==
  ASSUME RecordInv, UsageMatchesCosts, NEW org, NEW from
  PROVE  SumOn(usage, InScope(org, from))
           = SumOn(InitialUsage, InScope(org, from)) + Cardinality(Costed(org, from))
  <1>1. PICK V : V = InScope(org, from)
    OBVIOUS
  <1>2. V \in SUBSET Rows /\ IsFiniteSet(V)
    BY <1>1, ReportsAssumption, FS_Subset DEF ReportsAssumption, InScope
  <1>3. DataTypes /\ billed \in SUBSET Requests
    BY DEF RecordInv, DataTypes, RecordTypes
  <1>4. IsFiniteSet(billed)
    BY <1>3, RequestsFinite
  <1>5. PICK ones : ones = [r \in billed |-> 1]
    OBVIOUS
  <1>6. PICK counted : counted = [u \in V |-> Cardinality(WithKey(RowOf, billed, u))]
    OBVIOUS
  <1>7. Whole(ones, billed) /\ \A r \in billed : ones[r] = 1
    BY <1>5 DEF Whole
  <1>8. ASSUME NEW u \in V
        PROVE  /\ counted[u] \in Nat /\ counted[u] = SumOn(ones, WithKey(RowOf, billed, u))
               /\ usage[u] = InitialUsage[u] + counted[u]
    <2>1. PICK M : M = WithKey(RowOf, billed, u)
      OBVIOUS
    <2>2. M \in SUBSET Requests /\ M = {r \in billed : RowOf[r] = u} /\ counted[u] = Cardinality(M)
      BY <1>3, <1>6, <1>8, <2>1 DEF WithKey
    <2>3. IsFiniteSet(M) /\ Cardinality(M) \in Nat /\ \A r \in M : ones[r] = 1
      BY <1>7, <2>2, RequestsFinite
    <2>4. SumOn(ones, M) = Cardinality(M)
      BY <2>3, SumOnes
    <2>5. usage[u] = InitialUsage[u] + Cardinality(M)
      BY <1>2, <1>8, <2>2 DEF UsageMatchesCosts
    <2>6. QED
      BY <2>1, <2>2, <2>3, <2>4, <2>5
  <1>9. Whole(usage, V) /\ Whole(InitialUsage, V) /\ Whole(counted, V)
    BY <1>2, <1>3, <1>8, ProxyAssumption DEF DataTypes, ProxyAssumption, Whole
  <1>10. SumOn(usage, V) = SumOn(InitialUsage, V) + SumOn(counted, V)
    BY <1>2, <1>8, <1>9, SumPlus
  <1>11. SumOn(counted, V) = SumOn(ones, WithKeys(RowOf, billed, V))
    BY <1>2, <1>4, <1>7, <1>8, SumFibres
  <1>12. WithKeys(RowOf, billed, V) = Costed(org, from)
    <2>1. \A r \in billed : r \in Requests /\ aiRequest[r] # "none" /\ RowOf[r] \in Rows
      BY <1>3, ProxyAssumption DEF RecordInv, RecordedSo, ProxyAssumption
    <2>2. QED
      BY <1>1, <2>1 DEF WithKeys, InScope, Costed, Received, Columns
  <1>13. SumOn(ones, WithKeys(RowOf, billed, V)) = Cardinality(Costed(org, from))
    <2>1. PICK C : C = Costed(org, from)
      OBVIOUS
    <2>2. IsFiniteSet(C) /\ \A r \in C : ones[r] = 1
      BY <1>4, <1>7, <2>1, FS_Subset DEF Costed
    <2>3. QED
      BY <1>12, <2>1, <2>2, SumOnes
  <1>14. QED
    BY <1>1, <1>10, <1>11, <1>13

\* What is blocked is what the policies said to block.
LEMMA BlockedIs ==
  ASSUME RecordInv, VerdictInv, NEW org, NEW from,
         NEW S, S = WithPii(Received(org, from))
  PROVE  /\ With(Received(org, from), "blocked") = {r \in S : Verdict(r).action_taken = "block"}
         /\ With(Received(org, from), "blocked") \in SUBSET Requests
  <1>1. DataTypes
    BY DEF RecordInv
  <1>2. \A r \in Received(org, from) : r \in Requests /\ aiRequest[r] # "none"
    BY DEF Received
  <1>3. ASSUME NEW r \in Received(org, from)
        PROVE  aiRequest[r] = "blocked"
                 <=> Verdict(r).pii_detected /\ Verdict(r).action_taken = "block"
    BY <1>1, <1>2, VerdictIs DEF VerdictInv, VerdictSo
  <1>4. QED
    BY <1>2, <1>3 DEF With, WithPii

LEMMA PiiSummaryIs ==
  ASSUME RecordInv, VerdictInv, NEW org, NEW from,
         NEW pii, pii = PiiSummary(org, from)
  PROVE  /\ pii.requests = StatsOverview(org, from).pii
         /\ pii.blocked = IF "block" \in DOMAIN pii.actions THEN pii.actions["block"] ELSE 0
  <1>1. PICK S : S = WithPii(Received(org, from))
    OBVIOUS
  <1>2. PICK B : B = With(Received(org, from), "blocked")
    OBVIOUS
  <1>3. B = {r \in S : Verdict(r).action_taken = "block"} /\ B \in SUBSET Requests
    BY <1>1, <1>2, BlockedIs
  <1>4. PICK A : A = [a \in {Verdict(r).action_taken : r \in S} |->
                        Cardinality({r \in S : Verdict(r).action_taken = a})]
    BY Zenon
  <1>5. pii.requests = Cardinality(S) /\ pii.blocked = Cardinality(B) /\ pii.actions = A
    BY <1>1, <1>2, <1>4 DEF PiiSummary
  <1>6. StatsOverview(org, from).pii = Cardinality(S)
    BY <1>1 DEF StatsOverview
  <1>7. "block" \in DOMAIN A => A["block"] = Cardinality(B)
    BY <1>3, <1>4
  <1>8. "block" \notin DOMAIN A => B = {}
    BY <1>3, <1>4
  <1>9. "block" \notin DOMAIN A => Cardinality(B) = 0
    BY <1>8, FS_EmptySet
  <1>10. QED
    BY <1>5, <1>6, <1>7, <1>9

\* Every page of the proxy, read at any time by anyone, whatever workers serve the
\* requests: days, models, projects, the list and the overview show the same calls and the
\* same cost, those that cost are the completed ones, and what is blocked is what the
\* policies said to block.  Only a count lost from a usage row can part a page from them
\* (the stats endpoints of proxy.py).
THEOREM PagesFollowUsage == Spec => [](UsageMatchesCosts => PagesAgree)
  <1>1. ASSUME RecordInv, VerdictInv, UsageMatchesCosts
        PROVE  PagesAgree
    <2>1. ASSUME NEW org
          PROVE  /\ ListCost(RequestList(org, All, "completed", FALSE))
                      = StatsOverview(org, 0).cost
                 /\ Cardinality(RequestList(org, All, All, TRUE)) = StatsOverview(org, 0).pii
      <3>1. PICK R : R = Received(org, 0)
        OBVIOUS
      <3>2. PICK Q : Q = Listed(org, "completed", FALSE)
        BY Zenon
      <3>3. Q \cap billed = Costed(org, 0)
        BY <1>1, <3>2, ReceivedIs DEF Listed, Matches, With
      <3>4. ListCost(RequestList(org, All, "completed", FALSE)) = TotalCost(Q \cap billed)
        BY <1>1, <3>2, ListIs
      <3>5. PICK P : P = Listed(org, All, TRUE)
        BY Zenon
      <3>6. P = WithPii(R)
        BY <3>1, <3>5 DEF Listed, Matches, WithPii
      <3>7. Cardinality(RequestList(org, All, All, TRUE)) = Cardinality(P)
        BY <1>1, <3>5, ListIs
      <3>8. StatsOverview(org, 0).cost = TotalCost(Costed(org, 0))
            /\ StatsOverview(org, 0).pii = Cardinality(WithPii(R))
        BY <3>1 DEF StatsOverview
      <3>9. QED
        BY <3>3, <3>4, <3>6, <3>7, <3>8
    <2>2. ASSUME NEW org, NEW from
          PROVE  /\ Requested(StatsByModel(org, All, from)) = StatsOverview(org, from).completed
                 /\ Requested(StatsByModel(org, All, from)) = Cardinality(Costed(org, from))
                 /\ Spent(StatsByModel(org, All, from)) = StatsOverview(org, from).cost
                 /\ Spent(StatsTrends(org, from)) = StatsOverview(org, from).cost
                 /\ Requested(StatsByProject(org, from)) = StatsOverview(org, from).requests
                 /\ Spent(StatsByProject(org, from)) = StatsOverview(org, from).cost
      <3>1. PICK R : R = Received(org, from)
        OBVIOUS
      <3>2. PICK C : C = Costed(org, from)
        OBVIOUS
      <3>3. /\ R \in SUBSET Requests /\ C \in SUBSET Requests /\ C = R \cap billed
            /\ C = With(R, "completed") /\ C \cap billed = C
        BY <1>1, <3>1, <3>2, ReceivedIs
      <3>4. /\ StatsOverview(org, from).completed = Cardinality(C)
            /\ StatsOverview(org, from).cost = TotalCost(C)
            /\ StatsOverview(org, from).requests = Cardinality(R)
        BY <3>1, <3>2, <3>3 DEF StatsOverview
      <3>5. /\ Requested(StatsByModel(org, All, from)) = Cardinality(C)
            /\ Spent(StatsByModel(org, All, from)) = TotalCost(C)
        <4>1. {r \in C : Matches(Columns(r).project, All)} = C
          BY DEF Matches
        <4>2. StatsByModel(org, All, from) = Lines(C, [r \in Requests |-> Columns(r).model])
          BY <3>2, <4>1 DEF StatsByModel
        <4>3. QED
          BY <3>3, <4>2, LinesAddUp
      <3>6. Spent(StatsTrends(org, from)) = TotalCost(C)
        BY <3>1, <3>3, LinesAddUp DEF StatsTrends
      <3>7. /\ Requested(StatsByProject(org, from)) = Cardinality(R)
            /\ Spent(StatsByProject(org, from)) = TotalCost(C)
        BY <3>1, <3>3, LinesAddUp DEF StatsByProject
      <3>8. QED
        BY <3>2, <3>4, <3>5, <3>6, <3>7
    <2>3. ASSUME NEW org, NEW from
          PROVE  UsageMatchesPages(org, from)
      <3>1. DataTypes
        BY <1>1 DEF RecordInv
      <3>2. Counted(StatsByProjectModel(org, from))
              = SumOn(InitialUsage, InScope(org, from)) + Requested(StatsByModel(org, All, from))
        BY <1>1, <2>2, <3>1, UsagePageSum, ScopeCounts
      <3>3. QED
        BY <3>2, InitiallyUsedIs DEF UsageMatchesPages, InScope
    <2>4. ASSUME NEW org, NEW from
          PROVE  /\ PiiSummary(org, from).requests = StatsOverview(org, from).pii
                 /\ PiiSummary(org, from).blocked
                      = IF "block" \in DOMAIN PiiSummary(org, from).actions
                        THEN PiiSummary(org, from).actions["block"] ELSE 0
      BY <1>1, PiiSummaryIs
    <2>5. QED
      BY <1>1, <2>1, <2>2, <2>3, <2>4 DEF PagesAgree
  <1>2. Init => VerdictInv
    BY DEF Init, VerdictInv, VerdictSo
  <1>3. Spec => []RecordInv
    BY RecordAlways
  <1>4. RecordInv /\ VerdictInv /\ [Next]_vars => VerdictInv'
    BY VerdictStep
  <1>5. QED
    BY <1>1, <1>2, <1>3, <1>4, PTL DEF Spec

\* Where the requests of a usage row run on one event loop none is lost, although the row
\* is read and written without a lock of its own, and the page by project and model shows
\* the calls of the others and those of before (SelectUsage to CommitRecord in proxy.py).
THEOREM ReportsAgree ==
  ASSUME OneLoopPerRow
  PROVE  Spec => []PagesAgree
  <1>1. Spec => []UsageMatchesCosts
    BY UsageIsExact, OneLoopPerRow
  <1>2. QED
    BY <1>1, PagesFollowUsage, PTL

=============================================================================
