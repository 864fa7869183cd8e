----------------------------- MODULE SdkRuntime -----------------------------
(***************************************************************************)
(* The SDK inside an application: the trace context of sessions, traces,   *)
(* decorated functions and patched provider calls (context.py, tracer.py,  *)
(* client.py, decorator.py, interceptors/), and the policy cache that a    *)
(* background thread refreshes and every patched call asks (policy.py).    *)
(*                                                                         *)
(* A thread's frames are nested.  A session, a trace and a pipeline push   *)
(* an id into the context and put back what they found; an event of a      *)
(* patched call or a trace names the id it found.  Any frame may end with  *)
(* an exception, which the code around it may catch.  A task starts with   *)
(* a copy of the context of the task that creates it, a thread with none.  *)
(*                                                                         *)
(* What becomes of an event given to _send is SdkDelivery's; the post of   *)
(* _update_inventory is a call of DecoratorService's.  The events of       *)
(* streams, which wait for a reader, are left out.                         *)
(***************************************************************************)
EXTENDS Naturals, Sequences, FiniteSets, FiniteSetsExt, SequencesExt

CONSTANTS
  Tasks,      \* threads or tasks of the application
  Kinds,        \* thread -> the kinds of frame it opens
  MaxDepth,     \* thread -> how deep it nests them
  Ids,          \* trace ids, used again when nobody has them any more
  Rules,        \* governance rules as GET /governance/rules returns them
  EnforcePolicy,
  None

AllKinds == {"session", "trace", "pipeline", "decorated", "call"}
ASSUME RuntimeAssumption ==
  /\ \A t \in Tasks : Kinds[t] \subseteq AllKinds /\ MaxDepth[t] \in Nat
  /\ Ids \subseteq Nat /\ None \notin Ids /\ EnforcePolicy \in BOOLEAN
  /\ \A r \in Rules : {"metric_name", "threshold_value", "is_active"} \subseteq DOMAIN r

VARIABLES
  controlPlane, \* [rules, budget]: what the two endpoints answer
  cache,      \* [rules, budget] of the PolicyEngine
  refresh,    \* its thread: "rules", "budget" or "sleep"
  ready,      \* whether the SDK is constructed
  context,    \* thread -> the active trace id
  base,       \* thread -> the context it started with
  stack,      \* thread -> its frames, the innermost last
  unalerted   \* history: rules in the cache that calls broke without an alert

policy == <<controlPlane, cache, refresh, ready>>
host == <<context, base, stack, unalerted>>
runtimeVars == <<policy, host>>

Metrics == {r.metric_name : r \in Rules}
Frame == [kind : AllKinds, id : Ids \cup {None}, saved : Ids \cup {None},
          parent : Ids \cup {None}, step : {"open", "gate", "provider"}]

RuntimeInit ==
  /\ controlPlane = [rules |-> <<>>, budget |-> "under"]
  /\ cache = [rules |-> <<>>, budget |-> None]
  /\ refresh = "rules" /\ ready = FALSE
  /\ context = [t \in Tasks |-> None] /\ base = context
  /\ stack = [t \in Tasks |-> <<>>] /\ unalerted = {}

-----------------------------------------------------------------------------
(* The control plane: "over" is a forecast above the budget, or more than 95 *)
(* percent of the tokens of the day                                          *)

SetBudget ==
  /\ \E b \in {"under", "over"} : controlPlane' = [controlPlane EXCEPT !.budget = b]
  /\ UNCHANGED <<cache, refresh, ready, host>>

\* POST /governance/rules; newest first.
CreateRule ==
  /\ \E r \in Rules :
       /\ r \notin ToSet(controlPlane.rules)
       /\ controlPlane' = [controlPlane EXCEPT !.rules = <<r>> \o @]
  /\ UNCHANGED <<cache, refresh, ready, host>>

-----------------------------------------------------------------------------
(* The policy cache *)

\* A pull that fails leaves what was there.
PullRules ==
  /\ refresh = "rules"
  /\ cache' \in {cache, [cache EXCEPT !.rules = controlPlane.rules]}
  /\ refresh' = "budget"
  /\ UNCHANGED <<controlPlane, ready, host>>

\* Mutant: a limit that was reached is not taken back.
KeepWorst ==
  /\ refresh = "budget"
  /\ cache' = IF cache.budget = "over" THEN cache ELSE [cache EXCEPT !.budget = controlPlane.budget]
  /\ refresh' = "sleep" /\ ready' = TRUE
  /\ UNCHANGED <<controlPlane, host>>
PullBudget ==
  /\ refresh = "budget"
  /\ cache' = [cache EXCEPT !.budget = controlPlane.budget]
  /\ refresh' = "sleep" /\ ready' = TRUE
  /\ UNCHANGED <<controlPlane, host>>

MissBudget ==
  /\ refresh = "budget"
  /\ refresh' = "sleep" /\ ready' = TRUE
  /\ UNCHANGED <<controlPlane, cache, host>>

Wake == refresh = "sleep" /\ refresh' = "rules" /\ UNCHANGED <<controlPlane, cache, ready, host>>

\* dict.get
Get(r, field, default) == IF field \in DOMAIN r THEN r[field] ELSE default

\* The first rule that has an opinion on the model or the provider has the last
\* word; a provider outside the list of a rule that only warns is let through.
Decides(r) ==
  /\ r.is_active
  /\ \/ Get(r, "metric", "") = "model_allowlist"
     \/ Get(r, "metric", "") = "provider_allowlist" /\ Get(r, "action", "warn") = "block"
EvaluatePreCall ==
  LET deciding == SelectSeq(cache.rules, Decides)
  IN  IF cache.budget = "over" THEN "block"
      ELSE IF deciding = <<>> THEN "allow" ELSE Get(deciding[1], "action", "warn")

\* exceeded: the metrics whose threshold the call is above.
EvaluatePostCall(exceeded) ==
  {i \in DOMAIN cache.rules :
     cache.rules[i].is_active /\ Get(cache.rules[i], "metric", "") \in exceeded}

-----------------------------------------------------------------------------
(* Frames *)

Top(t) == Last(stack[t])
At(t, step) == stack[t] # <<>> /\ Top(t).step = step
Pop(t) == stack' = [stack EXCEPT ![t] = Front(@)]

Pushes(kind) == kind \in {"session", "trace", "pipeline"}
Used == UNION {{context[t], base[t]} \cup
               UNION {{f.id, f.saved, f.parent} : f \in ToSet(stack[t])} : t \in Tasks}
Fresh == Min(Ids \ Used)

\* push_context: nothing else is running in a context but its innermost frame.
Open(t, kind) ==
  /\ ready /\ kind \in Kinds[t] /\ Len(stack[t]) < MaxDepth[t]
  /\ stack[t] = <<>> \/ At(t, "open")
  /\ Pushes(kind) => Ids \ Used # {}
  /\ stack' = [stack EXCEPT ![t] = Append(@,
       [kind |-> kind, id |-> IF Pushes(kind) THEN Fresh ELSE None, saved |-> context[t],
        parent |-> IF kind \in {"trace", "call"} THEN context[t] ELSE None,
        step |-> IF kind = "call" THEN "gate" ELSE "open"])]
  /\ context' = IF Pushes(kind) THEN [context EXCEPT ![t] = Fresh] ELSE context
  /\ UNCHANGED <<policy, base, unalerted>>

\* u, which has ended, is started again: a task of t, or a thread.
Start(t, u) ==
  /\ ready /\ t # u /\ stack[u] = <<>> /\ At(t, "open")
  /\ \E inherited \in {context[t], None} :
       /\ context' = [context EXCEPT ![u] = inherited]
       /\ base' = [base EXCEPT ![u] = inherited]
  /\ UNCHANGED <<policy, stack, unalerted>>

\* Mutant: the context is cleared.
Clear(t) == context' = [context EXCEPT ![t] = None]
\* _ContextFrame.restore, before the event is sent.
Restore(t) ==
  context' = IF Pushes(Top(t).kind) THEN [context EXCEPT ![t] = Top(t).saved] ELSE context

\* The code of a frame ends, by itself or by an exception: a trace, a pipeline or a
\* decorated function gives its event to _send and lets the exception go on.  A
\* trace that no JSON can say raises one of its own there.
Close(t) ==
  /\ At(t, "open")
  /\ Pop(t) /\ Restore(t)
  /\ UNCHANGED <<policy, base, unalerted>>

-----------------------------------------------------------------------------
(* A patched provider call *)

Refuses == EvaluatePreCall = "block" /\ EnforcePolicy

Pass(t) ==
  /\ At(t, "gate") /\ ~Refuses
  /\ stack' = [stack EXCEPT ![t][Len(stack[t])].step = "provider"]
  /\ UNCHANGED <<policy, context, base, unalerted>>

\* RuntimeError, and no event.
Refuse(t) ==
  /\ At(t, "gate") /\ Refuses
  /\ Pop(t)
  /\ UNCHANGED <<policy, context, base, unalerted>>

\* The metadata of the event counts the alerts, whose callbacks run.
Answered(t) ==
  /\ At(t, "provider")
  /\ Pop(t)
  /\ \E exceeded \in SUBSET Metrics :
       LET broken == {i \in DOMAIN cache.rules : /\ cache.rules[i].is_active
                                                /\ cache.rules[i].metric_name \in exceeded}
       IN  unalerted' = unalerted \cup
                          {cache.rules[i] : i \in broken \ EvaluatePostCall(exceeded)}
  /\ UNCHANGED <<policy, context, base>>

\* The provider fails, or answers what the code that reads its counts cannot use:
\* an event with status error, and the exception goes to the application.
Failed(t) ==
  /\ At(t, "provider")
  /\ Pop(t)
  /\ UNCHANGED <<policy, context, base, unalerted>>

-----------------------------------------------------------------------------
RuntimeNext ==
  \/ SetBudget \/ CreateRule
  \/ PullRules \/ PullBudget \/ MissBudget \/ Wake
  \/ \E t \in Tasks :
       \/ \E kind \in AllKinds : Open(t, kind)
       \/ \E u \in Tasks : Start(t, u)
       \/ Close(t) \/ Pass(t) \/ Refuse(t) \/ Answered(t) \/ Failed(t)

RuntimeSpec == RuntimeInit /\ [][RuntimeNext]_runtimeVars

\* The daemon thread runs as long as the application, and not every pull fails.
FairRuntime ==
  /\ RuntimeSpec
  /\ WF_runtimeVars(PullRules \/ PullBudget \/ MissBudget \/ Wake)
  /\ SF_runtimeVars(PullBudget)

-----------------------------------------------------------------------------
(* Properties *)

RuntimeTypeOK ==
  /\ \A side \in {controlPlane, cache} :
       ToSet(side.rules) \subseteq Rules /\ side.budget \in {None, "under", "over"}
  /\ refresh \in {"rules", "budget", "sleep"} /\ (~ready => refresh # "sleep")
  /\ context \in [Tasks -> Ids \cup {None}] /\ base \in [Tasks -> Ids \cup {None}]
  /\ \A t \in Tasks :
       /\ ToSet(stack[t]) \subseteq Frame /\ Len(stack[t]) <= MaxDepth[t]
       /\ \A i \in 1 .. Len(stack[t]) - 1 : stack[t][i].step = "open"

\* The id of the innermost of the frames that are open, or what the thread began with.
Innermost(t, n) ==
  LET pushed == {i \in 1..n : Pushes(stack[t][i].kind)}
  IN  IF pushed = {} THEN base[t] ELSE stack[t][Max(pushed)].id

\* Through exceptions, refusals and tasks of one another, the active trace of a
\* thread is that of its innermost open session, trace or pipeline, and the event
\* of a call or trace names the one it was made in; no two frames share an id.
CallsAreLinked ==
  /\ RuntimeTypeOK
  /\ \A t \in Tasks : context[t] = Innermost(t, Len(stack[t]))
  /\ \A t \in Tasks : \A i \in 1 .. Len(stack[t]) :
       stack[t][i].kind \in {"trace", "call"} => stack[t][i].parent = Innermost(t, i - 1)
  /\ \A t, u \in Tasks : \A f \in ToSet(stack[t]), g \in ToSet(stack[u]) :
       f.id # None /\ f.id = g.id => t = u /\ f = g

\* With enforcement, once the limit is reached for good, a time comes after which
\* no call goes to a provider: the cache is refreshed whatever the calls do.
BlockTakesHold ==
  <>[](controlPlane.budget = "over") /\ EnforcePolicy => <>[][\A t \in Tasks : ~Pass(t)]_runtimeVars

\* Once the limit is not reached for good, a time comes after which none is refused.
BlockLifts == <>[](controlPlane.budget # "over") => <>[][\A t \in Tasks : ~Refuse(t)]_runtimeVars

\* Both: in the end calls follow the budget of the server, and not an old one.
EnforcementFollowsBudget == BlockTakesHold /\ BlockLifts

-----------------------------------------------------------------------------
(* Properties the code does not have *)

\* policy.py:1: pulls governance rules from backend and evaluates them locally on
\* every LLM call.  A call above the threshold of an active rule in the cache
\* triggers an alert.
RulesApplied == unalerted = {}
=============================================================================
