---------------------------- MODULE ProxyPipeline ---------------------------
(***************************************************************************)
(* The proxy to the AI provider (app/routers/proxy.py,                     *)
(* governance_key_service.py, audit_service.py).                           *)
(*                                                                         *)
(* The handler is a coroutine that uses a synchronous database session: a  *)
(* worker process has one event loop, a request keeps it from one await to *)
(* the next, and a statement that waits, for a connection of the worker's  *)
(* pool or for a row lock, keeps everything else of the worker waiting.    *)
(* The handler awaits twice, for the body and for the provider; its        *)
(* transaction, its connection and the lock on its key's row, taken by the *)
(* UPDATE of last_used_at, last from the first statement to the answer.    *)
(*                                                                         *)
(* A project_model_usage row is its call_count, 0 when there is none; its  *)
(* project is set.  Operators revoke keys from threads that do not run on  *)
(* the event loop.                                                         *)
(***************************************************************************)
EXTENDS PiiEngine, FiniteSets

CONSTANTS
  Requests, Workers, Keys, Rows,
  On,            \* request -> worker process
  KeyOf,         \* request -> governance key
  OrgOf,         \* governance key -> organisation
  RowOf,         \* request -> the usage row of its project, model and day
  PoolSize,      \* DB_POOL_SIZE, no overflow
  Others,        \* connections of a pool the other endpoints of the worker may hold
  InitialUsage,  \* row -> call_count before the first request
  NoOne, MaxFaults

ASSUME ProxyAssumption ==
  /\ IsFiniteSet(Requests) /\ NoOne \notin Requests
  /\ On \in [Requests -> Workers] /\ KeyOf \in [Requests -> Keys]
  /\ DOMAIN OrgOf = Keys
  /\ RowOf \in [Requests -> Rows] /\ InitialUsage \in [Rows -> Nat]
  /\ PoolSize \in Nat \ {0} /\ Others \in Nat /\ MaxFaults \in Nat

VARIABLES
  loop,         \* worker -> the request its event loop executes
  pc,           \* request -> step, or answer
  isActive,     \* api_keys.is_active
  keyLock,      \* key -> request with an uncommitted UPDATE of its row
  usage, usageLock,
  seen,         \* request -> call_count it has read
  aiRequest,    \* request -> committed request_status, "none" without a row
  route,        \* request -> committed execution_status
  billed,       \* requests with committed response, token usage and cost rows
  audits,       \* committed audit rows
  found,        \* request -> PII types found in its text, none after a rollback
  sent,         \* history: requests the provider has received
  auditFailed,  \* history: requests whose audit write failed
  faults

records == <<aiRequest, route, billed, audits>>
vars == <<loop, pc, isActive, keyLock, usage, usageLock, seen, records, found, sent,
          auditFailed, faults>>

InTransaction == {"touch_key", "body", "scan", "upstream", "usage", "flush", "commit", "poisoned"}
Answers == {"200", "400", "401", "403", "500", "502", "504", "gone"}
Steps == {"new", "select_key"} \cup InTransaction
Answered(r) == pc[r] \in Answers

Init ==
  /\ loop = [w \in Workers |-> NoOne] /\ pc = [r \in Requests |-> "new"]
  /\ isActive = [k \in Keys |-> TRUE] /\ keyLock = [k \in Keys |-> NoOne]
  /\ usage = InitialUsage /\ usageLock = [u \in Rows |-> NoOne]
  /\ seen = [r \in Requests |-> 0] /\ found = [r \in Requests |-> {}]
  /\ aiRequest = [r \in Requests |-> "none"] /\ route = [r \in Requests |-> "none"]
  /\ billed = {} /\ audits = {} /\ sent = {} /\ auditFailed = {}
  /\ faults = 0

-----------------------------------------------------------------------------
(* The event loop, the session and its end *)

Turn(r) == loop[On[r]] \in {NoOne, r}
At(r, step) == pc[r] = step /\ Turn(r)

Goto(r, step) == pc' = [pc EXCEPT ![r] = step]
GoOn(r, step) == loop' = [loop EXCEPT ![On[r]] = r] /\ Goto(r, step)
Await(r, step) == loop' = [loop EXCEPT ![On[r]] = NoOne] /\ Goto(r, step)

Connections(w) == Cardinality({r \in Requests : On[r] = w /\ pc[r] \in InTransaction})

\* Mutant: the session of a request that failed is not closed.
KeepLocks(r) == UNCHANGED <<keyLock, usageLock>>
ReleaseLocks(r) ==
  /\ keyLock' = [k \in Keys |-> IF keyLock[k] = r THEN NoOne ELSE keyLock[k]]
  /\ usageLock' = [u \in Rows |-> IF usageLock[u] = r THEN NoOne ELSE usageLock[u]]

\* Whatever raises before a commit leaves no row of the request, sent or not.
Rollback(r, answer) ==
  /\ Await(r, answer) /\ ReleaseLocks(r)
  /\ found' = [found EXCEPT ![r] = {}]
  /\ UNCHANGED <<isActive, usage, seen, records, sent>>

Verdicts == [r \in Requests |->
               [text \in SUBSET PiiTypes |-> ScanAndMask(text, OrgOf[KeyOf[r]])]]
Verdict(r) == Verdicts[r][found[r]]
AuditRows(r) == IF Verdict(r).audit_required THEN {<<r, "pii_detected">>} ELSE {}

\* An early end of the pipeline: the status is set and committed; the route row
\* stays as it was inserted.
CommitStatus(r, status, routeStatus, answer) ==
  /\ aiRequest' = [aiRequest EXCEPT ![r] = status]
  /\ route' = [route EXCEPT ![r] = routeStatus]
  /\ Await(r, answer) /\ ReleaseLocks(r)
  /\ UNCHANGED <<isActive, usage, seen, billed, auditFailed, faults>>

-----------------------------------------------------------------------------
Arrive(r) ==
  /\ At(r, "new")
  /\ GoOn(r, "select_key")
  /\ UNCHANGED <<isActive, keyLock, usage, usageLock, seen, records, found, sent,
                 auditFailed, faults>>

\* The checkout blocks the loop until it gives up: QueuePool limit, 500.
PoolTimeout(r) ==
  /\ At(r, "select_key") /\ Connections(On[r]) + Others >= PoolSize
  /\ Rollback(r, "500")
  /\ UNCHANGED <<auditFailed, faults>>

SelectKey(r) ==
  /\ At(r, "select_key") /\ Connections(On[r]) < PoolSize
  /\ \/ ~isActive[KeyOf[r]] /\ Rollback(r, "401")
     \/ /\ isActive[KeyOf[r]]
        /\ GoOn(r, "touch_key")
        /\ UNCHANGED <<isActive, keyLock, usage, usageLock, seen, records, found, sent>>
  /\ UNCHANGED <<auditFailed, faults>>

\* Mutant: last_used_at is written at the end, with the commit.
TouchLater(r) ==
  /\ At(r, "touch_key")
  /\ Await(r, "body")
  /\ UNCHANGED <<isActive, keyLock, usage, usageLock, seen, records, found, sent,
                 auditFailed, faults>>
\* UPDATE api_keys SET last_used_at, flushed at once; then await request.json().
TouchKey(r) ==
  /\ At(r, "touch_key")
  /\ keyLock[KeyOf[r]] = NoOne
  /\ keyLock' = [keyLock EXCEPT ![KeyOf[r]] = r]
  /\ Await(r, "body")
  /\ UNCHANGED <<isActive, usage, usageLock, seen, records, found, sent, auditFailed, faults>>

ReceiveBody(r) ==
  /\ At(r, "body")
  /\ GoOn(r, "scan")
  /\ UNCHANGED <<isActive, keyLock, usage, usageLock, seen, records, found, sent,
                 auditFailed, faults>>

Disconnect(r) ==
  /\ At(r, "body") /\ faults < MaxFaults
  /\ faults' = faults + 1
  /\ Rollback(r, "gone")
  /\ UNCHANGED auditFailed

-----------------------------------------------------------------------------
(* From the AiRequest row to the provider.  What the text holds, and whether *)
(* the organisation has a provider key, is left open.                        *)

Scan(r, blocked) ==
  \E text \in SUBSET PiiTypes :
    /\ Verdicts[r][text].should_block = blocked
    /\ found' = [found EXCEPT ![r] = text]

Block(r) ==
  /\ At(r, "scan")
  /\ Scan(r, TRUE)
  /\ audits' = audits \cup {<<r, "blocked">>} \cup AuditRows(r)'
  /\ CommitStatus(r, "blocked", "none", "403")
  /\ UNCHANGED sent

NoProviderKey(r) ==
  /\ At(r, "scan")
  /\ Rollback(r, "400")
  /\ UNCHANGED <<auditFailed, faults>>

Forward(r) ==
  /\ At(r, "scan")
  /\ Scan(r, FALSE)
  /\ sent' = sent \cup {r}
  /\ Await(r, "upstream")
  /\ UNCHANGED <<isActive, keyLock, usage, usageLock, seen, records, auditFailed, faults>>

-----------------------------------------------------------------------------
(* After the provider *)

\* Mutant: the handler of a timeout raises before it commits.
ForgetTimeout(r) ==
  /\ At(r, "upstream")
  /\ Rollback(r, "504")
  /\ UNCHANGED <<auditFailed, faults>>
UpstreamTimeout(r) ==
  /\ At(r, "upstream")
  /\ audits' = audits \cup AuditRows(r)
  /\ CommitStatus(r, "timeout", "proxying", "504")
  /\ UNCHANGED <<found, sent>>

\* A connection error, or any status other than 200, which is passed on; a body
\* that cannot be passed on, such as one with NaN, raises after the commit.
UpstreamFailure(r) ==
  /\ At(r, "upstream")
  /\ audits' = audits \cup AuditRows(r)
  /\ \E answer \in {"502", "500"} : CommitStatus(r, "failed", "proxying", answer)
  /\ UNCHANGED <<found, sent>>

UpstreamAnswers(r) ==
  /\ At(r, "upstream")
  /\ GoOn(r, "usage")
  /\ UNCHANGED <<isActive, keyLock, usage, usageLock, seen, records, found, sent,
                 auditFailed, faults>>

\* Mutant: something is awaited between reading the usage row and writing it.
SelectUsageAndYield(r) ==
  /\ At(r, "usage")
  /\ seen' = [seen EXCEPT ![r] = usage[RowOf[r]]]
  /\ Await(r, "flush")
  /\ UNCHANGED <<isActive, keyLock, usage, usageLock, records, found, sent, auditFailed,
                 faults>>
SelectUsage(r) ==
  /\ At(r, "usage")
  /\ seen' = [seen EXCEPT ![r] = usage[RowOf[r]]]
  /\ GoOn(r, "flush")
  /\ UNCHANGED <<isActive, keyLock, usage, usageLock, records, found, sent, auditFailed,
                 faults>>

\* A failed flush rolls the transaction back and the session can only raise from
\* then on; log_event, in which the flush runs, swallows the exception.
Poison(r) ==
  /\ auditFailed' = auditFailed \cup {r}
  /\ GoOn(r, "poisoned") /\ ReleaseLocks(r)
  /\ UNCHANGED <<isActive, usage, seen, records, found, sent>>

\* The flush in log_event writes everything the session holds, the usage row too.
FlushRecord(r) ==
  /\ At(r, "flush") /\ usageLock[RowOf[r]] = NoOne
  /\ \/ seen[r] = 0 /\ usage[RowOf[r]] > 0 /\ Poison(r)
     \/ /\ seen[r] > 0 \/ usage[RowOf[r]] = 0
        /\ usageLock' = [usageLock EXCEPT ![RowOf[r]] = r]
        /\ GoOn(r, "commit")
        /\ UNCHANGED <<isActive, keyLock, usage, seen, records, found, sent, auditFailed>>
  /\ UNCHANGED faults

FailAudit(r) ==
  /\ At(r, "scan") \/ At(r, "flush")
  /\ faults < MaxFaults
  /\ faults' = faults + 1
  /\ Poison(r)

RaisePending(r) ==
  /\ At(r, "poisoned")
  /\ Rollback(r, "500")
  /\ UNCHANGED <<auditFailed, faults>>

\* Nothing between two awaits is guarded: a body that is not an object, an answer
\* with "usage": null, a query, a flush or the commit that fails raises out of the
\* handler, before the provider is called or after it has answered.
BreakOff(r) ==
  /\ pc[r] \in InTransaction \ {"body"} /\ Turn(r)
  /\ Rollback(r, "500")
  /\ UNCHANGED <<auditFailed, faults>>

CommitRecord(r) ==
  /\ At(r, "commit")
  /\ aiRequest' = [aiRequest EXCEPT ![r] = "completed"]
  /\ route' = [route EXCEPT ![r] = "completed"]
  /\ billed' = billed \cup {r}
  /\ audits' = audits \cup AuditRows(r) \cup {<<r, "completed">>}
  /\ usage' = [usage EXCEPT ![RowOf[r]] = seen[r] + 1]
  /\ Await(r, "200") /\ ReleaseLocks(r)
  /\ UNCHANGED <<isActive, seen, found, sent, auditFailed, faults>>

\* revoke_key: its UPDATE waits for the row, and commits.
RevokeKey(k) ==
  /\ isActive[k] /\ keyLock[k] = NoOne
  /\ isActive' = [isActive EXCEPT ![k] = FALSE]
  /\ UNCHANGED <<loop, pc, keyLock, usage, usageLock, seen, records, found, sent,
                 auditFailed, faults>>

-----------------------------------------------------------------------------
Upstream(r) == UpstreamTimeout(r) \/ UpstreamFailure(r) \/ UpstreamAnswers(r)

Serve(r) ==
  \/ Arrive(r) \/ PoolTimeout(r) \/ SelectKey(r) \/ TouchKey(r) \/ ReceiveBody(r)
  \/ Block(r) \/ NoProviderKey(r) \/ Forward(r) \/ Upstream(r)
  \/ SelectUsage(r) \/ FlushRecord(r) \/ RaisePending(r) \/ CommitRecord(r)

Done == \A r \in Requests : Answered(r)

Next ==
  \/ \E r \in Requests : Serve(r) \/ Disconnect(r) \/ FailAudit(r) \/ BreakOff(r)
  \/ \E k \in Keys : RevokeKey(k)
  \/ Done /\ UNCHANGED vars

Spec == Init /\ [][Next]_vars

\* The loop runs what is ready, in order of readiness, so that no request that
\* is ready again and again waits for ever; a provider answers, or the client
\* library gives up after 120 seconds; PostgreSQL grants row locks in order.
FairSpec == Spec /\ \A r \in Requests : SF_vars(Serve(r))

-----------------------------------------------------------------------------
(* Properties *)

TypeOK ==
  /\ loop \in [Workers -> Requests \cup {NoOne}]
  /\ pc \in [Requests -> Steps \cup Answers]
  /\ isActive \in [Keys -> BOOLEAN]
  /\ keyLock \in [Keys -> Requests \cup {NoOne}] /\ usageLock \in [Rows -> Requests \cup {NoOne}]
  /\ \A k \in Keys : keyLock[k] # NoOne => pc[keyLock[k]] \in InTransaction
  /\ \A u \in Rows : usageLock[u] # NoOne => pc[usageLock[u]] = "commit"
  /\ usage \in [Rows -> Nat] /\ seen \in [Requests -> Nat]
  /\ aiRequest \in [Requests -> {"none", "blocked", "timeout", "failed", "completed"}]
  /\ route \in [Requests -> {"none", "proxying", "completed"}]
  /\ found \in [Requests -> SUBSET PiiTypes]
  /\ billed \cup sent \cup auditFailed \subseteq Requests
  /\ audits \subseteq Requests \X {"pii_detected", "blocked", "completed"}
  /\ faults \in 0..MaxFaults

\* In one worker the usage row, read and written without a lock of its own,
\* still counts the billed calls exactly: the handler does not await in between.
UsageMatchesCosts ==
  \A u \in Rows : usage[u] = InitialUsage[u] + Cardinality({r \in billed : RowOf[r] = u})

\* Two requests with the same key are never with the provider together, whatever
\* workers they are on: the row lock of the key serves as a mutex.
OneCallPerKey ==
  /\ TypeOK
  /\ \A r, q \in Requests :
       pc[r] = "upstream" /\ pc[q] = "upstream" /\ KeyOf[r] = KeyOf[q] => r = q

\* Whatever raises where, an answered request is recorded whole or not at all: the
\* row says completed exactly when the caller was given the answer, and when the
\* response, the costs, the route and the audit say so; what was blocked or held
\* PII has its audit rows exactly when it has its row.  One that was sent and has
\* no row was answered 500.
RecordIsWhole ==
  \A r \in Requests : Answered(r) =>
    LET completed == aiRequest[r] = "completed"
        recorded == aiRequest[r] # "none"
    IN  /\ pc[r] = "200" <=> completed
        /\ r \in billed <=> completed
        /\ route[r] = "completed" <=> completed
        /\ <<r, "completed">> \in audits <=> completed
        /\ <<r, "blocked">> \in audits <=> aiRequest[r] = "blocked"
        /\ <<r, "pii_detected">> \in audits <=> recorded /\ Verdict(r).audit_required
        /\ r \in sent /\ pc[r] # "500" => recorded

\* app/routers/proxy.py:19-21 (docstring): a call that was forwarded is answered.
\* So it is when each request has a key of its own, although others wait for a
\* connection on the same loop; not when two requests of a worker share a key.
ForwardedIsAnswered == \A r \in Requests : r \in sent ~> Answered(r)

-----------------------------------------------------------------------------
(* Properties the code does not have *)

\* app/routers/proxy.py:24 (docstring): all data of a call is stored.  What raises
\* after the provider has answered rolls back everything, the row of the call too.
SentIsRecorded == \A r \in sent : Answered(r) => aiRequest[r] # "none"

\* app/services/audit_service.py:41: audit failures never crash the pipeline.
AuditFailuresAreHarmless == \A r \in auditFailed : pc[r] # "500"
=============================================================================
