------------------------------ MODULE EventLog ------------------------------
(***************************************************************************)
(* What the telemetry write API promises its callers: the stored event ids *)
(* form a log; an ingest request, single or batch, is answered once, and   *)
(* when it is accepted all of its ids enter the log in one step, none of   *)
(* them being there before; a rejected request leaves no trace; deleting   *)
(* an event is the only other change.                                      *)
(* TelemetryStore, with its sessions, flushes, locks and failures, is      *)
(* shown to implement this specification.                                  *)
(***************************************************************************)
EXTENDS Naturals, Sequences, Functions

CONSTANTS Requests, EventIds,
          Items            \* request -> the event ids it carries, in order

VARIABLES log,             \* the event ids stored
          outcome          \* request -> "open", "accepted" or "rejected"

vars == <<log, outcome>>

Distinct(s) == IsInjective(s)

Init ==
  /\ log = {}
  /\ outcome = [r \in Requests |-> "open"]

Accept(r) ==
  /\ outcome[r] = "open"
  /\ Distinct(Items[r])
  /\ Range(Items[r]) \cap log = {}
  /\ log' = log \cup Range(Items[r])
  /\ outcome' = [outcome EXCEPT ![r] = "accepted"]

Reject(r) ==
  /\ outcome[r] = "open"
  /\ outcome' = [outcome EXCEPT ![r] = "rejected"]
  /\ UNCHANGED log

Delete(e) ==
  /\ e \in log
  /\ log' = log \ {e}
  /\ UNCHANGED outcome

Next ==
  \/ \E r \in Requests : Accept(r) \/ Reject(r)
  \/ \E e \in EventIds : Delete(e)

Spec == Init /\ [][Next]_vars
=============================================================================
