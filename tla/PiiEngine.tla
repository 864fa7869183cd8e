------------------------------ MODULE PiiEngine ------------------------------
(***************************************************************************)
(* The choice of PII policies and the verdict of a scan                    *)
(* (app/services/pii_engine.py).  A text is the set of PII types whose     *)
(* patterns match when their turn comes, after the masks of earlier ones;  *)
(* the replacement itself and risk levels are left out.                    *)
(***************************************************************************)
EXTENDS Integers

CONSTANTS
  PiiTypes,
  Policies,  \* rows of pii_policies: [org, type, action, log, priority, active]
  Global     \* org of a policy for every organisation

ASSUME PiiAssumption ==
  \A q \in Policies :
    q.type \in PiiTypes /\ q.priority \in Int /\ q.log \in BOOLEAN /\ q.active \in BOOLEAN

\* The rows are read by falling priority.  Of the organisation's own each
\* replaces the one before, so that the lowest is used; of the global ones the first.
LoadPolicies(org, type) ==
  LET rows == {q \in Policies : q.active /\ q.type = type /\ q.org \in {org, Global}}
      own == {q \in rows : q.org = org}
  IN  IF own # {} THEN {q \in own : \A o \in own : q.priority <= o.priority}
      ELSE {q \in rows : \A o \in rows : q.priority >= o.priority}

\* Without a policy a type is masked and logged; equal priorities come in some order.
PolicyOf(org, type) ==
  IF LoadPolicies(org, type) = {} THEN [action |-> "mask", log |-> TRUE]
  ELSE CHOOSE q \in LoadPolicies(org, type) : TRUE

\* An action of no other name changes what is done with the text.
Strength == [allow |-> 0, alert |-> 1, mask |-> 2, block |-> 3]
Strongest(actions) ==
  LET known == actions \cap DOMAIN Strength
  IN  CHOOSE a \in known : \A b \in known : Strength[a] >= Strength[b]

ScanAndMask(text, org) ==
  LET actions == {PolicyOf(org, t).action : t \in text} \cup {"allow"}
  IN  [pii_detected |-> text # {},
       audit_required |-> \E t \in text : PolicyOf(org, t).log,
       should_block |-> "block" \in actions,
       action_taken |-> Strongest(actions)]
=============================================================================
