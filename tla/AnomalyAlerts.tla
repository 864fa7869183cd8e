---------------------------- MODULE AnomalyAlerts ---------------------------
(***************************************************************************)
(* Detection of usage anomalies and their conversion to alerts             *)
(* (app/workers/tasks.py, app/services/alert_engine.py).                   *)
(*                                                                         *)
(* The detection job appends anomalies; nothing ever closes one.  A scan,  *)
(* run by the scheduler and by an operator's endpoint, takes the newest    *)
(* open anomalies up to a limit and raises an alert for each, unless one   *)
(* with the same key is active since the start of the window.  The alerts  *)
(* of a scan become visible, to itself too, when it commits.  Operators    *)
(* resolve alerts; days go by.                                             *)
(*                                                                         *)
(* A kind is the key an alert is deduplicated by: organisation, project,   *)
(* tool and anomaly type.                                                  *)
(***************************************************************************)
EXTENDS Integers, Sequences, FiniteSets, SequencesExt

CONSTANTS
  Kinds,
  Scanners,      \* sessions that may run the scan
  BatchLimit,    \* get_alert_anomaly_batch_limit
  DedupDays,     \* get_alert_dedup_days
  LastDay, MaxAnomalies, MaxScanFaults  \* bounds of the model

ASSUME ScanAssumption ==
  /\ IsFiniteSet(Kinds) /\ IsFiniteSet(Scanners)
  /\ BatchLimit \in Nat \ {0} /\ DedupDays \in Nat
  /\ LastDay \in Nat /\ MaxAnomalies \in Nat /\ MaxScanFaults \in Nat

VARIABLES
  today,
  anomalies,  \* the open anomalies in order of creation, by kind
  active,     \* kind -> day -> active alerts created that day
  alerted,    \* history: kinds that have had an alert stored
  scan,       \* scanner -> "idle" or "create"
  scanDay,    \* scanner -> day its transaction began: created_at of its alerts
  remaining,  \* scanner -> kinds of the anomalies it has still to handle
  pending,    \* scanner -> kind -> alerts added to its session
  scanFaults

scanVars == <<scan, scanDay, remaining, pending>>
anomalyVars == <<today, anomalies, active, alerted, scanVars, scanFaults>>

Days == 0..LastDay
None == [k \in Kinds |-> 0]

ScanInit ==
  /\ today = 0 /\ anomalies = <<>> /\ alerted = {}
  /\ active = [k \in Kinds |-> [d \in Days |-> 0]]
  /\ scan = [w \in Scanners |-> "idle"] /\ scanDay = [w \in Scanners |-> 0]
  /\ remaining = [w \in Scanners |-> <<>>] /\ pending = [w \in Scanners |-> None]
  /\ scanFaults = 0

\* A run of the job finds a tool over its baseline; it does not look whether
\* the same anomaly is open already.
DetectAnomaly(k) ==
  /\ Len(anomalies) < MaxAnomalies
  /\ anomalies' = Append(anomalies, k)
  /\ UNCHANGED <<today, active, alerted, scanVars, scanFaults>>

\* order_by(created_at desc).limit(...)
Newest ==
  LET n == Len(anomalies)
  IN  SubSeq(Reverse(anomalies), 1, IF n < BatchLimit THEN n ELSE BatchLimit)

StartScan(w) ==
  /\ scan[w] = "idle"
  /\ scan' = [scan EXCEPT ![w] = "create"]
  /\ scanDay' = [scanDay EXCEPT ![w] = today]
  /\ remaining' = [remaining EXCEPT ![w] = Newest]
  /\ UNCHANGED <<today, anomalies, active, alerted, pending, scanFaults>>

\* Mutant: any alert ever raised suppresses, resolved ones too.
AlreadyRaised(k) == k \in alerted
\* Mutant: no lookup of existing alerts.
NeverSuppressed(k) == FALSE
Suppressed(k) == \E d \in Days : d >= today - DedupDays /\ active[k][d] > 0

HandleAnomaly(w) ==
  /\ scan[w] = "create" /\ remaining[w] # <<>>
  /\ LET k == Head(remaining[w])
     IN  pending' = IF Suppressed(k) THEN pending ELSE [pending EXCEPT ![w][k] = @ + 1]
  /\ remaining' = [remaining EXCEPT ![w] = Tail(@)]
  /\ UNCHANGED <<today, anomalies, active, alerted, scan, scanDay, scanFaults>>

EndScan(w) ==
  /\ scan' = [scan EXCEPT ![w] = "idle"]
  /\ scanDay' = [scanDay EXCEPT ![w] = 0]
  /\ remaining' = [remaining EXCEPT ![w] = <<>>]
  /\ pending' = [pending EXCEPT ![w] = None]

CommitScan(w) ==
  /\ scan[w] = "create" /\ remaining[w] = <<>>
  /\ active' = [k \in Kinds |-> [active[k] EXCEPT ![scanDay[w]] = @ + pending[w][k]]]
  /\ alerted' = alerted \cup {k \in Kinds : pending[w][k] > 0}
  /\ EndScan(w)
  /\ UNCHANGED <<today, anomalies, scanFaults>>

FailScan(w) ==
  /\ scan[w] = "create" /\ scanFaults < MaxScanFaults
  /\ scanFaults' = scanFaults + 1
  /\ EndScan(w)
  /\ UNCHANGED <<today, anomalies, active, alerted>>

\* resolve_alert closes one alert; its anomaly stays open.
ResolveAnomalyAlert(k, d) ==
  /\ active[k][d] > 0
  /\ active' = [active EXCEPT ![k][d] = @ - 1]
  /\ UNCHANGED <<today, anomalies, alerted, scanVars, scanFaults>>

\* A scan, some tens of statements, does not last more than a day.
NextDay ==
  /\ today < LastDay
  /\ \A w \in Scanners : scan[w] = "create" => scanDay[w] = today
  /\ today' = today + 1
  /\ UNCHANGED <<anomalies, active, alerted, scanVars, scanFaults>>

RunScan(w) == StartScan(w) \/ HandleAnomaly(w) \/ CommitScan(w)

ScanNext ==
  \/ \E k \in Kinds : DetectAnomaly(k)
  \/ \E w \in Scanners : RunScan(w) \/ FailScan(w)
  \/ \E k \in Kinds, d \in Days : ResolveAnomalyAlert(k, d)
  \/ NextDay

ScanSpec == ScanInit /\ [][ScanNext]_anomalyVars

\* The scheduler starts a scan every 30 minutes, and a scan runs to its end.
FairScans == ScanSpec /\ \A w \in Scanners : WF_anomalyVars(RunScan(w))

-----------------------------------------------------------------------------
(* Properties *)

ScanTypeOK ==
  /\ today \in Days /\ anomalies \in Seq(Kinds) /\ alerted \subseteq Kinds
  /\ active \in [Kinds -> [Days -> Nat]]
  /\ scan \in [Scanners -> {"idle", "create"}]
  /\ scanDay \in [Scanners -> Days] /\ \A w \in Scanners : scanDay[w] <= today
  /\ remaining \in [Scanners -> Seq(Kinds)] /\ pending \in [Scanners -> [Kinds -> Nat]]
  /\ scanFaults \in 0..MaxScanFaults

\* However many anomalies of a kind are open, and however scans, resolutions and
\* days interleave, the active alerts of a kind dated one day stay within one
\* batch for each session that can scan.  When the window is the current day alone,
\* a scan that lasts past midnight raises again what its own day has: one more.
Batches == Cardinality(Scanners) * (IF DedupDays = 0 THEN 2 ELSE 1)
DuplicatesBounded ==
  /\ ScanTypeOK
  /\ \A k \in Kinds, d \in Days : active[k][d] <= BatchLimit * Batches

\* An anomaly among the newest keeps an alert: however often it is resolved,
\* and whatever scan fails, a later scan raises it again.
ScannedStaysAlerted ==
  \A k \in Kinds : []<>(k \in ToSet(Newest) => \E d \in Days : active[k][d] > 0)
=============================================================================
