------------------------------- MODULE Ledger -------------------------------
(***************************************************************************)
(* The tables every report reads: stored events, their daily and monthly   *)
(* summaries, organisations and projects; and everything that writes them  *)
(* (app/routers/telemetry.py, organizations.py, projects.py and            *)
(* app/workers/tasks.py).  Each transaction is one step: what overlapping  *)
(* ones do to each other is TelemetryStore's subject.                      *)
(*                                                                         *)
(* An event is dated twice: created_at, the day it is stored, and          *)
(* completed_at, which its sender says and may lie a day before or after.  *)
(* Ingest counts it on the second, the daily rebuild on the first.         *)
(***************************************************************************)
EXTENDS Pricing, Integers

CONSTANTS
  Orgs, Projects, Events,
  Sent,        \* event -> its columns, fixed by the sender, with its skew in days;
               \* "parts" is a sequence of calls for a unified trace, else <<>>
  Owner,       \* project -> the organisation it is created in
  Existing,    \* organisations there are at the start
  LastDay, MonthOf, \* days are 0..LastDay + 1, the clock is in 1..LastDay
  Renames,     \* models an edit may give an event (a bound)
  MaxAdmin,    \* bound on administrative steps; an edit of an event counts twice
  Unknown      \* the name the rebuild gives an event without one

ASSUME LedgerAssumption ==
  /\ Owner \in [Projects -> Orgs] /\ Existing \subseteq Orgs
  /\ LastDay \in Nat \ {0} /\ MaxAdmin \in Nat
  /\ MonthOf \in [0..LastDay + 1 -> Nat]
  /\ \A c, d \in 0..LastDay + 1 : c <= d => MonthOf[c] <= MonthOf[d]
  /\ \A e \in Events : Sent[e].skew \in -1..1 /\ Sent[e].tokens \in Nat
  /\ \A e \in Events : Sent[e].org \in Orgs /\ Sent[e].project \in Projects \cup {None}
  /\ \A e \in Events : {"model", "provider", "tokens", "seconds", "given"} \subseteq DOMAIN Sent[e]
  /\ \A e \in Events :
       /\ Sent[e].given \in Int \cup {None} /\ Sent[e].seconds \in Nat
       /\ Sent[e].infra \in Int /\ Sent[e].external \in Int
  /\ \A e \in Events :
       /\ IsFiniteSet(DOMAIN Sent[e].parts)
       /\ Sent[e].parts # <<>> => 1 \in DOMAIN Sent[e].parts
       /\ \A i \in DOMAIN Sent[e].parts :
            Sent[e].parts[i].tokens \in Nat /\ Sent[e].parts[i].given \in Int \cup {None}
  /\ Orgs \cap (Projects \cup {None}) = {} /\ Unknown \notin DOMAIN Catalogue \cup DOMAIN Aliases

VARIABLES
  orgs, projects,  \* rows of organizations; project -> the organisation of its row
  store,           \* rows of telemetry_events
  daily, monthly,  \* rows of daily_org_summary and monthly_org_summary
  today,
  dirty,           \* history: days whose events or summary lost or changed a row since
                   \* their rebuild
  edited,          \* history: models of events whose tokens were edited
  erased,          \* history: organisations and projects deleted, nothing sent since
  admin            \* administrative steps so far, edits twice

vars == <<orgs, projects, store, daily, monthly, today, dirty, edited, erased, admin>>

Days == 0..LastDay + 1
Total(S, Column(_)) == MapThenSumSet(Column, S)
Tokens(S) == Total(S, LAMBDA r : r.tokens)
Count(S) == Total(S, LAMBDA r : r.events)
LlmCost(S) == Total(S, LAMBDA r : r.llm)
InfraCost(S) == Total(S, LAMBDA r : r.infra)
ExternalCost(S) == Total(S, LAMBDA r : r.external)
TotalCost(S) == Total(S, LAMBDA r : r.total)

Init ==
  /\ orgs = Existing /\ projects = [p \in {q \in Projects : Owner[q] \in Existing} |-> Owner[p]]
  /\ store = {} /\ daily = {} /\ monthly = {} /\ today = 1
  /\ dirty = {} /\ edited = {} /\ erased = {} /\ admin = 0

-----------------------------------------------------------------------------
(* Events *)

\* Logger events ("dec-") come in through the older service; a unified trace is
\* one event of the control plane, a sequence of calls.
Priced(c) ==
  IF c.parts # <<>> THEN TraceEvent(c.parts, {})
  ELSE [model |-> c.model, provider |-> c.provider, tokens |-> c.tokens,
        external |-> c.external,
        llm |-> IF c.control THEN ControlCost(c)
                ELSE IF c.dec THEN OldEngineCost(c) ELSE EngineCost(c)]

Columns(e) ==
  LET c == Sent[e]
      q == Priced(c)
      cost == CostSummary(q.llm, c.infra, q.external)
  IN  [event |-> e, org |-> c.org, project |-> c.project, exec |-> c.exec,
       service |-> c.service, dec |-> c.dec, model |-> q.model, provider |-> q.provider,
       tokens |-> q.tokens, llm |-> cost.llm, infra |-> cost.infra,
       external |-> cost.external, total |-> cost.total,
       created |-> today, completed |-> today + c.skew]

\* Sent without a cost, and priced from the catalogue wherever it came in.
CataloguePriced(c) ==
  /\ c.given = None /\ ~c.dec /\ c.parts = <<>> /\ c.model \in DOMAIN Catalogue
  /\ c.control => ResolvePricing(c) = None

\* The summary row of an event, as the first event of its key.
SummaryRow(r, day) ==
  [org |-> r.org, project |-> r.project, tool |-> r.model, day |-> day, events |-> 1,
   tokens |-> r.tokens, llm |-> r.llm, infra |-> r.infra, external |-> r.external,
   total |-> r.total]

SameKey(a, b) == a.org = b.org /\ a.project = b.project /\ a.tool = b.tool /\ a.day = b.day

\* Mutant: the cost of the event is not added to an existing row.
AddedWithoutCost(a, b) ==
  [a EXCEPT !.events = @ + b.events, !.tokens = @ + b.tokens]

Added(a, b) ==
  [a EXCEPT !.events = @ + b.events, !.tokens = @ + b.tokens, !.llm = @ + b.llm,
            !.infra = @ + b.infra, !.external = @ + b.external, !.total = @ + b.total]

UpsertDailySummary(r) ==
  LET new == SummaryRow(r, r.completed)
      old == {s \in daily : SameKey(s, new)}
  IN  daily' = (daily \ old) \cup (IF old = {} THEN {new} ELSE {Added(s, new) : s \in old})

Ingest(e) ==
  /\ e \notin {r.event : r \in store}
  /\ store' = store \cup {Columns(e)}
  /\ UpsertDailySummary(Columns(e))
  /\ erased' = erased \ {Columns(e).org, Columns(e).project}
  /\ UNCHANGED <<orgs, projects, monthly, today, dirty, edited, admin>>

Uses(n) == admin + n <= MaxAdmin /\ admin' = admin + n
Administer == Uses(1) /\ UNCHANGED today
Edit == Uses(2) /\ UNCHANGED today

Touched(r) == dirty' = dirty \cup {r.created, r.completed}

\* update_event: tokens and model change, the costs and the summary do not.
Updated(r, model) == [r EXCEPT !.tokens = @ + 1, !.model = model]
UpdateEvent(r, model) ==
  /\ Edit
  /\ store' = (store \ {r}) \cup {Updated(r, model)}
  /\ edited' = edited \cup {r.model, model}
  /\ Touched(r)
  /\ UNCHANGED <<orgs, projects, daily, monthly, erased>>

DeleteEvent(r) ==
  /\ Edit
  /\ store' = store \ {r}
  /\ Touched(r)
  /\ UNCHANGED <<orgs, projects, daily, monthly, edited, erased>>

-----------------------------------------------------------------------------
(* Aggregation, at once for the whole table *)

Group(S, q) == {r \in S : r.org = q.org /\ r.project = q.project /\ r.tool = q.tool}
GroupRow(G, q, tool, day) ==
  [org |-> q.org, project |-> q.project, tool |-> tool, day |-> day,
   events |-> Count(G), tokens |-> Tokens(G), llm |-> LlmCost(G),
   infra |-> InfraCost(G), external |-> ExternalCost(G), total |-> TotalCost(G)]

\* One row for the rows of S with the key of q.
Summed(S, q) == GroupRow(Group(S, q), q, q.tool, q.day)

\* Both rebuilds insert what has no name under one.
ToolName(n) == IF n = None THEN Unknown ELSE n

\* A stored event as a summary row of its own; its name keeps equal rows apart.
AsRow(r) ==
  [org |-> r.org, project |-> r.project, day |-> r.created, event |-> r.event,
   tool |-> ToolName(r.model), events |-> 1,
   tokens |-> r.tokens, llm |-> r.llm, infra |-> r.infra, external |-> r.external,
   total |-> r.total]

\* Mutant: the rebuild is run for the day before.
RebuildYesterday ==
  LET S == {AsRow(r) : r \in {q \in store : q.created = today - 1}}
  IN  /\ daily' = {s \in daily : s.day # today - 1} \cup {Summed(S, q) : q \in S}
      /\ dirty' = dirty \ {today - 1}
      /\ UNCHANGED <<orgs, projects, store, monthly, today, edited, erased, admin>>

\* Mutant: the rows the requests have counted stay beside the rebuilt ones.
RebuildBeside ==
  LET S == {AsRow(r) : r \in {q \in store : q.created = today}}
  IN  /\ daily' = daily \cup {Summed(S, q) : q \in S}
      /\ dirty' = dirty \ {today}
      /\ UNCHANGED <<orgs, projects, store, monthly, today, edited, erased, admin>>

RebuildDaily ==
  LET S == {AsRow(r) : r \in {q \in store : q.created = today}}
  IN  /\ daily' = {s \in daily : s.day # today} \cup {Summed(S, q) : q \in S}
      /\ dirty' = dirty \ {today}
      /\ UNCHANGED <<orgs, projects, store, monthly, today, edited, erased, admin>>

\* Mutant: the month before is rebuilt too.
RebuildAllMonths ==
  LET S == {s \in daily : s.org \in orgs}
      Month(m) == {s \in S : MonthOf[s.day] = m}
  IN  /\ monthly' = UNION {{[Summed(Month(m), q) EXCEPT !.day = m] : q \in Month(m)} :
                             m \in {MonthOf[d] : d \in Days}}
      /\ UNCHANGED <<orgs, projects, store, daily, today, dirty, edited, erased, admin>>

\* "day" of a monthly row is its month.
MonthRow(S, q, month) == GroupRow(Group(S, q), q, ToolName(q.tool), month)

\* Rows that one group each has under two names for none: an ingest leaves them
\* nameless, a rebuild does not.
Collide(q, s) ==
  /\ q.org = s.org /\ q.project = s.project
  /\ ToolName(q.tool) = ToolName(s.tool) /\ q.tool # s.tool

\* Groups that collide have one key, on which the job fails (without a project both
\* stay, which is left out).
RebuildMonthly ==
  LET month == MonthOf[today]
      S == {s \in daily : MonthOf[s.day] = month /\ s.day <= today /\ s.org \in orgs}
  IN  /\ ~\E q, s \in S : Collide(q, s)
      /\ monthly' = {s \in monthly : s.day # month} \cup {MonthRow(S, q, month) : q \in S}
      /\ UNCHANGED <<orgs, projects, store, daily, today, dirty, edited, erased, admin>>

NextDay ==
  /\ today < LastDay
  /\ today' = today + 1
  /\ UNCHANGED <<orgs, projects, store, daily, monthly, dirty, edited, erased, admin>>

-----------------------------------------------------------------------------
(* Organisations and projects *)

Of(o) == {p \in DOMAIN projects : projects[p] = o}
Without(S) == [p \in DOMAIN projects \ S |-> projects[p]]

CreateOrganization(o) ==
  /\ Administer /\ o \notin orgs
  /\ orgs' = orgs \cup {o}
  /\ UNCHANGED <<projects, store, daily, monthly, dirty, erased, edited>>

\* Mutant: the projects stay.
KeepProjects(o) ==
  /\ Administer /\ o \in orgs
  /\ orgs' = orgs \ {o}
  /\ store' = {r \in store : r.org # o} /\ daily' = {s \in daily : s.org # o}
  /\ monthly' = {s \in monthly : s.org # o}
  /\ erased' = erased \cup {o} /\ UNCHANGED <<projects, dirty, edited>>

\* Mutant: the daily summary is left out of the deletion.
ForgetSummary(o) ==
  /\ Administer /\ o \in orgs
  /\ orgs' = orgs \ {o} /\ projects' = Without(Of(o))
  /\ store' = {r \in store : r.org # o} /\ UNCHANGED daily
  /\ monthly' = {s \in monthly : s.org # o}
  /\ erased' = erased \cup {o} /\ UNCHANGED <<dirty, edited>>

DeleteOrganization(o) ==
  /\ Administer /\ o \in orgs
  /\ orgs' = orgs \ {o} /\ projects' = Without(Of(o))
  /\ store' = {r \in store : r.org # o} /\ daily' = {s \in daily : s.org # o}
  /\ monthly' = {s \in monthly : s.org # o}
  /\ erased' = erased \cup {o} /\ UNCHANGED <<dirty, edited>>

\* What the older service deletes with an organisation or a project: it rolls
\* the session back at each table that lacks the column or is missing, and with
\* it every deletion before.  cost_breakdown and execution_pipeline lack it, so
\* the events always stay; rate_limit_violations, dropped by a migration, comes
\* after the summaries and, where it is missing, saves them too.
OldSweep(gone) ==
  \/ UNCHANGED <<daily, monthly, dirty>>
  \/ /\ daily' = daily \ gone /\ monthly' = monthly \ gone
     /\ dirty' = dirty \cup {s.day : s \in daily \ daily'}

\* The projects are restored as well, and those that remain refuse the deletion.
OldDeleteOrganization(o) ==
  /\ Administer /\ o \in orgs /\ Of(o) = {}
  /\ orgs' = orgs \ {o}
  /\ OldSweep({s \in daily \cup monthly : s.org = o})
  /\ UNCHANGED <<projects, store, erased, edited>>

OldDeleteProject(p) ==
  /\ Administer /\ p \in DOMAIN projects
  /\ projects' = Without({p})
  /\ OldSweep({s \in daily \cup monthly : s.project = p})
  /\ UNCHANGED <<orgs, store, erased, edited>>

CreateProject(p, o) ==
  /\ Administer /\ p \notin DOMAIN projects /\ o \in orgs
  /\ projects' = [q \in DOMAIN projects \cup {p} |-> IF q = p THEN o ELSE projects[q]]
  /\ UNCHANGED <<orgs, store, daily, monthly, dirty, erased, edited>>

\* The project moves to another organisation; its events stay where they are.
UpdateProject(p, o) ==
  /\ Administer /\ p \in DOMAIN projects /\ o \in orgs
  /\ projects' = [projects EXCEPT ![p] = o]
  /\ UNCHANGED <<orgs, store, daily, monthly, dirty, erased, edited>>

DeleteProject(p) ==
  /\ Administer /\ p \in DOMAIN projects
  /\ projects' = Without({p})
  /\ store' = {r \in store : r.project # p} /\ daily' = {s \in daily : s.project # p}
  /\ monthly' = {s \in monthly : s.project # p}
  /\ erased' = erased \cup {p}
  /\ UNCHANGED <<orgs, dirty, edited>>

Next ==
  \/ \E e \in Events : Ingest(e)
  \/ \E r \in store :
       DeleteEvent(r) \/ \E m \in Renames : UpdateEvent(r, m)
  \/ RebuildDaily \/ RebuildMonthly \/ NextDay
  \/ \E o \in Orgs : \/ CreateOrganization(o) \/ DeleteOrganization(o)
                     \/ OldDeleteOrganization(o)
                     \/ \E p \in Projects : CreateProject(p, o) \/ UpdateProject(p, o)
  \/ \E p \in Projects : DeleteProject(p) \/ OldDeleteProject(p)

Spec == Init /\ [][Next]_vars

\* The scheduler runs the daily aggregation every hour.
FairSpec == Spec /\ WF_vars(RebuildDaily)

-----------------------------------------------------------------------------
(* Properties *)

\* Every table keeps its type: counts are natural, an event is one row, and a
\* summary has one row per key.
TypeOK ==
  /\ orgs \subseteq Orgs /\ DOMAIN projects \subseteq Projects
  /\ \A p \in DOMAIN projects : projects[p] \in orgs
  /\ \A r \in store : r.event \in Events /\ r.tokens \in Nat /\ r.created \in Days
  /\ \A r, q \in store : r.event = q.event => r = q
  /\ \A s \in daily \cup monthly : s.events \in Nat \ {0} /\ s.tokens \in Nat /\ s.day \in Nat
  /\ \A s, t \in daily : SameKey(s, t) => s = t
  /\ \A s, t \in monthly : SameKey(s, t) => s = t
  /\ today \in 1..LastDay /\ dirty \subseteq Days /\ admin \in 0..MaxAdmin

\* Ingest and the rebuild date an event differently, yet around midnight and
\* with clocks that differ the summary of a day without edits counts each event
\* dated on that day both ways once, and no event twice.
SummaryWithinEvents ==
  \A d \in Days \ dirty, o \in Orgs, p \in Projects \cup {None} :
    LET both == {r \in store : r.org = o /\ r.project = p /\ r.created = d /\ r.completed = d}
        either == {r \in store : r.org = o /\ r.project = p /\ d \in {r.created, r.completed}}
        counted == Count({s \in daily : s.org = o /\ s.project = p /\ s.day = d})
    IN  Cardinality(both) <= counted /\ counted <= Cardinality(either)

\* The cost that budgets are enforced on (AlertEngine sums the stored totals of
\* the summary), less what is no token cost, is the cost the dashboards show, for
\* a model of the catalogue whose events came without a cost of their own and were
\* not edited; through increments, rebuilds and deletions.  An event is rounded as
\* it is stored and a line as it is shown: they differ by three micro-dollars for
\* each event and one for the line at most, however many events there are.
EnforcedAsShown ==
  \A s \in daily :
    /\ s.tool \in DOMAIN Catalogue \ edited
    /\ \A e \in Events : Priced(Sent[e]).model = s.tool => CataloguePriced(Sent[e])
    => Within(s.total - s.infra - s.external, CalculateTokenCost(s.tool, s.tokens),
              Scale * (3 * s.events + 1))

\* What is deleted with an organisation or a project does not come back: no
\* rebuild brings a row of it back from another table.
ErasedStaysErased ==
  \A s \in store \cup daily \cup monthly : s.org \notin erased /\ s.project \notin erased

\* Once a month is over its summary never changes, except that deleted
\* organisations and projects leave it: what arrives or is corrected after the
\* last rebuild of the month is never in it.
ClosedMonthsFrozen ==
  [][\A s \in monthly' : s.day < MonthOf[today] => s \in monthly]_vars

\* An edit or a deletion reaches the summary if the day it concerns lasts long
\* enough: the hourly rebuild repairs the current day, and no other.
EditsHeal ==
  \A d \in 1..LastDay : (d \in dirty /\ today = d) ~> (d \notin dirty \/ today # d)
=============================================================================
