---------------------------- MODULE Ledger_proofs -----------------------------
(***************************************************************************)
(* The theorems of Ledger and LedgerReports, for any organisations,        *)
(* projects, events, prices, calendar and bounds: what is deleted stays    *)
(* deleted, a month that is over keeps its summary, the summary stays      *)
(* within the events in number and in cost, and, but for the roundings,    *)
(* the enforced cost is the shown one and the pages of both services agree.*)
(***************************************************************************)
EXTENDS LedgerReports, Sums, FiniteSetTheorems, WellFoundedInduction, TLAPS

-----------------------------------------------------------------------------
(* What is deleted *)

Rows == store \cup daily \cup monthly

\* Every row belongs to an organisation and to a project, or to none: by
\* LedgerAssumption no organisation is a project, so that a row which is left
\* when one is deleted does not carry its name in the other column either.
RowsPlaced == \A s \in Rows : s.org \in Orgs /\ s.project \in Projects \cup {None}

ErasedInv == RowsPlaced /\ ErasedStaysErased

TodayInv == today \in 1..LastDay

-----------------------------------------------------------------------------
(* Where the columns of a row come from *)

LEMMA ColumnsOwner ==
  ASSUME NEW e \in Events
  PROVE  Columns(e).org = Sent[e].org /\ Columns(e).project = Sent[e].project
  BY DEF Columns

LEMMA SummedOwner ==
  ASSUME NEW S, NEW q
  PROVE  /\ Summed(S, q).org = q.org /\ Summed(S, q).project = q.project
         /\ Summed(S, q).tool = q.tool /\ Summed(S, q).day = q.day
  BY DEF Summed, GroupRow

LEMMA MonthRowOwner ==
  ASSUME NEW S, NEW q, NEW m
  PROVE  /\ MonthRow(S, q, m).org = q.org /\ MonthRow(S, q, m).project = q.project
         /\ MonthRow(S, q, m).day = m
  BY DEF Summed, MonthRow, GroupRow

\* A step that deletes nothing and makes rows only out of rows keeps both parts:
\* the aggregations, edits, deletions of the older service.
LEMMA MadeOfRows ==
  ASSUME ErasedInv, UNCHANGED erased,
         \A s \in Rows' : \E r \in Rows : s.org = r.org /\ s.project = r.project
  PROVE  ErasedInv'
  BY DEF ErasedInv, RowsPlaced, ErasedStaysErased, Rows

\* What is sent after a deletion takes its organisation and its project back.
LEMMA IngestErased ==
  ASSUME LedgerAssumption, ErasedInv, NEW e \in Events, Ingest(e)
  PROVE  ErasedInv'
  <1> DEFINE r == Columns(e)
  <1>1. r.org \in Orgs /\ r.project \in Projects \cup {None}
    BY ColumnsOwner DEF LedgerAssumption
  <1>2. erased' = erased \ {r.org, r.project} /\ monthly' = monthly /\ store' = store \cup {r}
    BY DEF Ingest
  <1>3. ASSUME NEW s \in daily'
        PROVE  \/ s.org = r.org /\ s.project = r.project
               \/ \E q \in daily : s.org = q.org /\ s.project = q.project
    <2> DEFINE new == SummaryRow(r, r.completed)
               old == {q \in daily : SameKey(q, new)}
    <2>1. daily' = (daily \ old) \cup (IF old = {} THEN {new} ELSE {Added(q, new) : q \in old})
      BY DEF Ingest, UpsertDailySummary
    <2>2. new.org = r.org /\ new.project = r.project
      BY DEF SummaryRow
    <2>3. CASE s \in daily
      BY <2>3
    <2>4. CASE s = new
      BY <2>2, <2>4
    <2>5. CASE \E q \in old : s = Added(q, new)
      <3>1. PICK q \in old : s = Added(q, new)
        BY <2>5
      <3>2. s.org = new.org /\ s.project = new.project
        BY <3>1 DEF SameKey, Added
      <3>3. QED
        BY <3>2, <2>2
    <2>6. QED
      BY <2>1, <2>3, <2>4, <2>5
  <1>4. ASSUME NEW s \in Rows'
        PROVE  \/ s.org = r.org /\ s.project = r.project
               \/ \E q \in Rows : s.org = q.org /\ s.project = q.project
    BY <1>2, <1>3 DEF Rows
  <1>5. RowsPlaced'
    BY <1>1, <1>4 DEF ErasedInv, RowsPlaced
  <1>6. ASSUME NEW s \in Rows'
        PROVE  s.org \notin erased' /\ s.project \notin erased'
    BY <1>2, <1>4 DEF ErasedInv, ErasedStaysErased, Rows
  <1>7. QED
    BY <1>5, <1>6 DEF ErasedInv, ErasedStaysErased, Rows

LEMMA DeleteOrganizationErased ==
  ASSUME LedgerAssumption, ErasedInv, NEW o \in Orgs, DeleteOrganization(o)
  PROVE  ErasedInv'
  <1>1. erased' = erased \cup {o} /\ Rows' = {s \in Rows : s.org # o}
    BY DEF DeleteOrganization, Rows
  <1>2. \A s \in Rows : s.project # o
    BY DEF ErasedInv, RowsPlaced, LedgerAssumption
  <1>3. QED
    BY <1>1, <1>2 DEF ErasedInv, RowsPlaced, ErasedStaysErased, Rows

LEMMA DeleteProjectErased ==
  ASSUME LedgerAssumption, ErasedInv, NEW p \in Projects, DeleteProject(p)
  PROVE  ErasedInv'
  <1>1. erased' = erased \cup {p} /\ Rows' = {s \in Rows : s.project # p}
    BY DEF DeleteProject, Rows
  <1>2. \A s \in Rows : s.org # p
    BY DEF ErasedInv, RowsPlaced, LedgerAssumption
  <1>3. QED
    BY <1>1, <1>2 DEF ErasedInv, RowsPlaced, ErasedStaysErased, Rows

\* The daily rebuild makes its rows of events.
LEMMA RebuildDailyErased ==
  ASSUME ErasedInv, RebuildDaily
  PROVE  ErasedInv'
  <1> DEFINE S == {AsRow(r) : r \in {q \in store : q.created = today}}
  <1>1. /\ daily' = {s \in daily : s.day # today} \cup {Summed(S, q) : q \in S}
        /\ UNCHANGED <<store, monthly, erased>>
    BY DEF RebuildDaily
  <1>2. ASSUME NEW q \in S
        PROVE  \E r \in Rows : Summed(S, q).org = r.org /\ Summed(S, q).project = r.project
    <2>1. PICK r \in store : q = AsRow(r)
      OBVIOUS
    <2>2. q.org = r.org /\ q.project = r.project
      BY <2>1 DEF AsRow
    <2>3. QED
      BY <2>2, SummedOwner DEF Rows
  <1>3. \A s \in Rows' : \E r \in Rows : s.org = r.org /\ s.project = r.project
    <2> HIDE DEF S
    <2>1. QED
      BY <1>1, <1>2 DEF Rows
  <1>4. QED
    BY <1>1, <1>3, MadeOfRows

\* The monthly rebuild makes its rows of days.
LEMMA RebuildMonthlyErased ==
  ASSUME ErasedInv, RebuildMonthly
  PROVE  ErasedInv'
  <1> DEFINE month == MonthOf[today]
             S == {s \in daily : MonthOf[s.day] = month /\ s.day <= today /\ s.org \in orgs}
  <1>1. /\ monthly' = {s \in monthly : s.day # month} \cup {MonthRow(S, q, month) : q \in S}
        /\ UNCHANGED <<store, daily, erased>>
    BY DEF RebuildMonthly
  <1>2. ASSUME NEW q \in S, NEW s, s = MonthRow(S, q, month)
        PROVE  \E r \in Rows : s.org = r.org /\ s.project = r.project
    BY <1>2, MonthRowOwner DEF Rows
  <1>3. \A s \in Rows' : \E r \in Rows : s.org = r.org /\ s.project = r.project
    <2> HIDE DEF S, month
    <2>1. QED
      BY <1>1, <1>2 DEF Rows
  <1>4. QED
    BY <1>1, <1>3, MadeOfRows

LEMMA EditErased ==
  ASSUME ErasedInv, NEW r \in store,
         DeleteEvent(r) \/ \E m \in Renames : UpdateEvent(r, m)
  PROVE  ErasedInv'
  <1>1. CASE DeleteEvent(r)
    <2>1. UNCHANGED erased /\ Rows' \subseteq Rows
      BY <1>1 DEF DeleteEvent, Rows
    <2>2. QED
      BY <2>1, MadeOfRows
  <1>2. ASSUME NEW m \in Renames, UpdateEvent(r, m)
        PROVE  ErasedInv'
    <2> DEFINE n == Updated(r, m)
    <2>1. UNCHANGED <<daily, monthly, erased>> /\ store' = (store \ {r}) \cup {n}
      BY <1>2 DEF UpdateEvent
    <2>2. n.org = r.org /\ n.project = r.project
      BY DEF Updated
    <2>3. \A s \in Rows' : \E q \in Rows : s.org = q.org /\ s.project = q.project
      BY <2>1, <2>2 DEF Rows
    <2>4. QED
      BY <2>1, <2>3, MadeOfRows
  <1>3. QED
    BY <1>1, <1>2

LEMMA ErasedStep ==
  ASSUME LedgerAssumption, ErasedInv, [Next]_vars
  PROVE  ErasedInv'
  <1> DEFINE Keeps == UNCHANGED erased /\ Rows' \subseteq Rows
  <1>1. ASSUME Keeps
        PROVE  ErasedInv'
    BY <1>1, MadeOfRows
  <1>2. ASSUME NEW e \in Events, Ingest(e)
        PROVE  ErasedInv'
    BY <1>2, IngestErased
  <1>3. ASSUME NEW r \in store, DeleteEvent(r) \/ \E m \in Renames : UpdateEvent(r, m)
        PROVE  ErasedInv'
    BY <1>3, EditErased
  <1>4. ASSUME RebuildDaily
        PROVE  ErasedInv'
    BY <1>4, RebuildDailyErased
  <1>5. ASSUME RebuildMonthly
        PROVE  ErasedInv'
    BY <1>5, RebuildMonthlyErased
  <1>6. ASSUME NextDay
        PROVE  Keeps
    BY <1>6 DEF NextDay, Rows
  <1>7. ASSUME NEW o \in Orgs, CreateOrganization(o)
        PROVE  Keeps
    BY <1>7 DEF CreateOrganization, Rows
  <1>8. ASSUME NEW o \in Orgs, DeleteOrganization(o)
        PROVE  ErasedInv'
    BY <1>8, DeleteOrganizationErased
  <1>9. ASSUME NEW o \in Orgs, OldDeleteOrganization(o)
        PROVE  Keeps
    BY <1>9 DEF OldDeleteOrganization, OldSweep, Rows
  <1>10. ASSUME NEW o \in Orgs, NEW p \in Projects, CreateProject(p, o) \/ UpdateProject(p, o)
         PROVE  Keeps
    BY <1>10 DEF CreateProject, UpdateProject, Rows
  <1>11. ASSUME NEW p \in Projects, DeleteProject(p)
         PROVE  ErasedInv'
    BY <1>11, DeleteProjectErased
  <1>12. ASSUME NEW p \in Projects, OldDeleteProject(p)
         PROVE  Keeps
    BY <1>12 DEF OldDeleteProject, OldSweep, Rows
  <1>13. ASSUME UNCHANGED vars
         PROVE  Keeps
    BY <1>13 DEF vars, Rows
  <1>14. QED
    <2> HIDE DEF Keeps
    <2>1. QED
      BY <1>1, <1>2, <1>3, <1>4, <1>5, <1>6, <1>7, <1>8, <1>9, <1>10, <1>11, <1>12, <1>13
      DEF Next

\* What is deleted with an organisation or a project never comes back from another
\* table, whatever rebuilds, edits and deletions of either service follow, until a
\* new event names the organisation or the project again.
THEOREM DeletionsAreFinal == Spec => []ErasedStaysErased
  <1>1. Init => ErasedInv
    BY DEF Init, ErasedInv, RowsPlaced, ErasedStaysErased, Rows
  <1>2. ErasedInv /\ [Next]_vars => ErasedInv'
    BY ErasedStep, LedgerAssumption
  <1>3. ErasedInv => ErasedStaysErased
    BY DEF ErasedInv
  <1>4. QED
    BY <1>1, <1>2, <1>3, PTL DEF Spec

-----------------------------------------------------------------------------
(* Months *)

\* The steps that leave the tables of the summary alone or only delete in them.
Administers ==
  \/ \E o \in Orgs : \/ CreateOrganization(o) \/ DeleteOrganization(o)
                     \/ OldDeleteOrganization(o)
                     \/ \E p \in Projects : CreateProject(p, o) \/ UpdateProject(p, o)
  \/ \E p \in Projects : DeleteProject(p) \/ OldDeleteProject(p)
Edits(r) == DeleteEvent(r) \/ \E m \in Renames : UpdateEvent(r, m)

LEMMA StepKinds ==
  ASSUME [Next]_vars
  PROVE  \/ \E e \in Events : Ingest(e)
         \/ \E r \in store : Edits(r)
         \/ RebuildDaily \/ RebuildMonthly \/ NextDay \/ Administers \/ UNCHANGED vars
  BY DEF Next, Administers, Edits

LEMMA AdministersDeletes ==
  ASSUME Administers
  PROVE  /\ UNCHANGED <<today, edited>>
         /\ store' \subseteq store /\ daily' \subseteq daily /\ monthly' \subseteq monthly
  <1>1. ASSUME NEW o \in Orgs, CreateOrganization(o)
        PROVE  UNCHANGED <<today, edited, store, daily, monthly>>
    BY <1>1 DEF CreateOrganization, Administer
  <1>2. ASSUME NEW o \in Orgs, DeleteOrganization(o)
        PROVE  /\ UNCHANGED <<today, edited>>
               /\ store' \subseteq store /\ daily' \subseteq daily /\ monthly' \subseteq monthly
    BY <1>2 DEF DeleteOrganization, Administer
  <1>3. ASSUME NEW o \in Orgs, OldDeleteOrganization(o)
        PROVE  /\ UNCHANGED <<today, edited, store>>
               /\ daily' \subseteq daily /\ monthly' \subseteq monthly
    BY <1>3 DEF OldDeleteOrganization, OldSweep, Administer
  <1>4. ASSUME NEW o \in Orgs, NEW p \in Projects, CreateProject(p, o) \/ UpdateProject(p, o)
        PROVE  UNCHANGED <<today, edited, store, daily, monthly>>
    BY <1>4 DEF CreateProject, UpdateProject, Administer
  <1>5. ASSUME NEW p \in Projects, DeleteProject(p)
        PROVE  /\ UNCHANGED <<today, edited>>
               /\ store' \subseteq store /\ daily' \subseteq daily /\ monthly' \subseteq monthly
    BY <1>5 DEF DeleteProject, Administer
  <1>6. ASSUME NEW p \in Projects, OldDeleteProject(p)
        PROVE  /\ UNCHANGED <<today, edited, store>>
               /\ daily' \subseteq daily /\ monthly' \subseteq monthly
    BY <1>6 DEF OldDeleteProject, OldSweep, Administer
  <1>7. QED
    BY <1>1, <1>2, <1>3, <1>4, <1>5, <1>6 DEF Administers

LEMMA EditsTables ==
  ASSUME NEW r \in store, Edits(r)
  PROVE  UNCHANGED <<today, daily, monthly>>
  <1>1. ASSUME DeleteEvent(r)
        PROVE  UNCHANGED <<today, daily, monthly>>
    BY <1>1 DEF DeleteEvent, Edit
  <1>2. ASSUME NEW m \in Renames, UpdateEvent(r, m)
        PROVE  UNCHANGED <<today, daily, monthly>>
    BY <1>2 DEF UpdateEvent, Edit
  <1>3. QED
    BY <1>1, <1>2 DEF Edits

LEMMA TodayStep ==
  ASSUME LedgerAssumption, TodayInv, [Next]_vars
  PROVE  TodayInv'
  <1>1. CASE NextDay
    BY <1>1 DEF NextDay, TodayInv, LedgerAssumption
  <1>2. CASE UNCHANGED today
    BY <1>2 DEF TodayInv
  <1>3. ASSUME NEW e \in Events, Ingest(e)
        PROVE  UNCHANGED today
    BY <1>3 DEF Ingest
  <1>4. ASSUME RebuildDaily \/ RebuildMonthly \/ UNCHANGED vars
        PROVE  UNCHANGED today
    BY <1>4 DEF RebuildDaily, RebuildMonthly, vars
  <1>5. QED
    BY <1>1, <1>2, <1>3, <1>4, StepKinds, AdministersDeletes, EditsTables

\* Only the monthly rebuild adds rows, and those carry the month of today.
LEMMA NoMonthsAdded ==
  ASSUME [Next]_vars, ~RebuildMonthly
  PROVE  monthly' \subseteq monthly
  <1>1. ASSUME NEW e \in Events, Ingest(e)
        PROVE  UNCHANGED monthly
    BY <1>1 DEF Ingest
  <1>2. ASSUME RebuildDaily \/ NextDay \/ UNCHANGED vars
        PROVE  UNCHANGED monthly
    BY <1>2 DEF RebuildDaily, NextDay, vars
  <1>3. QED
    BY <1>1, <1>2, StepKinds, AdministersDeletes, EditsTables

LEMMA MonthStep ==
  ASSUME LedgerAssumption, TodayInv, [Next]_vars,
         NEW s \in monthly', s.day < MonthOf[today]
  PROVE  s \in monthly
  <1>1. CASE RebuildMonthly
    <2> DEFINE month == MonthOf[today]
               S == {d \in daily : MonthOf[d.day] = month /\ d.day <= today /\ d.org \in orgs}
    <2>1. monthly' = {d \in monthly : d.day # month} \cup {MonthRow(S, q, month) : q \in S}
      BY <1>1 DEF RebuildMonthly
    <2>2. month \in Nat
      BY DEF LedgerAssumption, TodayInv
    <2>3. ASSUME NEW q \in S, s = MonthRow(S, q, month)
          PROVE  FALSE
      <3>1. s.day = month
        BY <2>3, MonthRowOwner
      <3>2. QED
        BY <2>2, <3>1
    <2>4. QED
      BY <2>1, <2>3
  <1>2. CASE monthly' \subseteq monthly
    BY <1>2
  <1>3. QED
    BY <1>1, <1>2, NoMonthsAdded

\* Once a month is over no row is added to its summary or changed in it, whatever
\* arrives, is corrected or is rebuilt later.
THEOREM MonthsStayClosed == Spec => ClosedMonthsFrozen
  <1>1. Init => TodayInv
    BY LedgerAssumption DEF Init, TodayInv, LedgerAssumption
  <1>2. TodayInv /\ [Next]_vars => TodayInv'
    BY TodayStep, LedgerAssumption
  <1>3. TodayInv /\ [Next]_vars
          => [\A s \in monthly' : s.day < MonthOf[today] => s \in monthly]_vars
    BY MonthStep, LedgerAssumption
  <1>4. QED
    BY <1>1, <1>2, <1>3, PTL DEF Spec, ClosedMonthsFrozen

-----------------------------------------------------------------------------
(* Types.  Tables are finite, so that their sums are what they say. *)

EventColumns ==
  {"event", "org", "project", "exec", "service", "dec", "model", "provider", "tokens", "llm",
   "external", "infra", "total", "created", "completed"}
SummaryColumns ==
  {"org", "project", "tool", "day", "events", "tokens", "llm", "infra", "external", "total"}

\* b has the costs of a; c has those of a and of b.
SameCosts(a, b) ==
  b.llm = a.llm /\ b.infra = a.infra /\ b.external = a.external /\ b.total = a.total
CostsAdd(c, a, b) ==
  /\ c.llm = a.llm + b.llm /\ c.infra = a.infra + b.infra
  /\ c.external = a.external + b.external /\ c.total = a.total + b.total

EventRow(r) ==
  /\ DOMAIN r = EventColumns
  /\ r.event \in Events /\ r.tokens \in Nat /\ r.created \in Days /\ r.completed \in Days
SummaryRowOf(s) ==
  /\ DOMAIN s = SummaryColumns
  /\ s.events \in Nat \ {0} /\ s.tokens \in Nat /\ s.day \in Nat

TableTypes ==
  /\ IsFiniteSet(store) /\ IsFiniteSet(daily) /\ IsFiniteSet(monthly)
  /\ \A r \in store : EventRow(r)
  /\ \A s \in daily \cup monthly : SummaryRowOf(s)
  /\ \A s \in daily : s.day \in Days
  /\ today \in 1..LastDay /\ dirty \subseteq Days
UniqueRows ==
  /\ \A r, q \in store : r.event = q.event => r = q
  /\ \A s, t \in daily : SameKey(s, t) => s = t
  /\ \A s, t \in monthly : SameKey(s, t) => s = t
NameTypes ==
  /\ orgs \subseteq Orgs /\ DOMAIN projects \subseteq Projects
  /\ \A p \in DOMAIN projects : projects[p] \in orgs
  /\ admin \in 0..MaxAdmin

TypeInv == TableTypes /\ UniqueRows /\ NameTypes

\* What Count, Tokens and LlmCost add up, with any function that has the column's values.
LEMMA CountIs ==
  ASSUME NEW S, IsFiniteSet(S), NEW f, \A r \in S : f[r] = r.events
  PROVE  Count(S) = SumOn(f, S)
  <1> DEFINE h == [r \in S |-> r.events]
             E(g) == g = [s \in SUBSET S |-> IF s = {} THEN 0
                                             ELSE Pick(s).events + g[s \ {Pick(s)}]]
  <1>1. Count(S) = (CHOOSE g : E(g))[S]
    BY DEF Count, Total, MapThenSumSet, MapThenFoldSet, Pick
  <1>2. \A g : E(g) <=> SumEq(h, S, g)
    <2> TAKE g
    <2>1. \A s \in SUBSET S : s # {} => Pick(s) \in S
      BY DEF Pick
    <2>2. \A s \in SUBSET S : (IF s = {} THEN 0 ELSE Pick(s).events + g[s \ {Pick(s)}])
                             = (IF s = {} THEN 0 ELSE h[Pick(s)] + g[s \ {Pick(s)}])
      BY <2>1
    <2>3. [s \in SUBSET S |-> IF s = {} THEN 0 ELSE Pick(s).events + g[s \ {Pick(s)}]] =
          [s \in SUBSET S |-> IF s = {} THEN 0 ELSE h[Pick(s)] + g[s \ {Pick(s)}]]
      BY <2>2
    <2>4. QED
      BY <2>3 DEF SumEq
  <1>3. (CHOOSE g : E(g)) = (CHOOSE g : SumEq(h, S, g))
    <2> HIDE DEF E
    <2>1. QED
      BY <1>2
  <1>4. SumOn(h, S) = SumOn(f, S)
    <2>1. \A r \in S : h[r] = f[r]
      OBVIOUS
    <2> HIDE DEF h
    <2>2. QED
      BY <2>1, SumSame
  <1>5. QED
    BY <1>1, <1>3, <1>4 DEF SumOn

LEMMA TokensIs ==
  ASSUME NEW S, IsFiniteSet(S), NEW f, \A r \in S : f[r] = r.tokens
  PROVE  Tokens(S) = SumOn(f, S)
  <1> DEFINE h == [r \in S |-> r.tokens]
             E(g) == g = [s \in SUBSET S |-> IF s = {} THEN 0
                                             ELSE Pick(s).tokens + g[s \ {Pick(s)}]]
  <1>1. Tokens(S) = (CHOOSE g : E(g))[S]
    BY DEF Tokens, Total, MapThenSumSet, MapThenFoldSet, Pick
  <1>2. \A g : E(g) <=> SumEq(h, S, g)
    <2> TAKE g
    <2>1. \A s \in SUBSET S : s # {} => Pick(s) \in S
      BY DEF Pick
    <2>2. \A s \in SUBSET S : (IF s = {} THEN 0 ELSE Pick(s).tokens + g[s \ {Pick(s)}])
                             = (IF s = {} THEN 0 ELSE h[Pick(s)] + g[s \ {Pick(s)}])
      BY <2>1
    <2>3. [s \in SUBSET S |-> IF s = {} THEN 0 ELSE Pick(s).tokens + g[s \ {Pick(s)}]] =
          [s \in SUBSET S |-> IF s = {} THEN 0 ELSE h[Pick(s)] + g[s \ {Pick(s)}]]
      BY <2>2
    <2>4. QED
      BY <2>3 DEF SumEq
  <1>3. (CHOOSE g : E(g)) = (CHOOSE g : SumEq(h, S, g))
    <2> HIDE DEF E
    <2>1. QED
      BY <1>2
  <1>4. SumOn(h, S) = SumOn(f, S)
    <2>1. \A r \in S : h[r] = f[r]
      OBVIOUS
    <2> HIDE DEF h
    <2>2. QED
      BY <2>1, SumSame
  <1>5. QED
    BY <1>1, <1>3, <1>4 DEF SumOn

LEMMA LlmIs ==
  ASSUME NEW S, IsFiniteSet(S), NEW f, \A r \in S : f[r] = r.llm
  PROVE  LlmCost(S) = SumOn(f, S)
  <1> DEFINE h == [r \in S |-> r.llm]
             E(g) == g = [s \in SUBSET S |-> IF s = {} THEN 0
                                             ELSE Pick(s).llm + g[s \ {Pick(s)}]]
  <1>1. LlmCost(S) = (CHOOSE g : E(g))[S]
    BY DEF LlmCost, Total, MapThenSumSet, MapThenFoldSet, Pick
  <1>2. \A g : E(g) <=> SumEq(h, S, g)
    <2> TAKE g
    <2>1. \A s \in SUBSET S : s # {} => Pick(s) \in S
      BY DEF Pick
    <2>2. \A s \in SUBSET S : (IF s = {} THEN 0 ELSE Pick(s).llm + g[s \ {Pick(s)}])
                             = (IF s = {} THEN 0 ELSE h[Pick(s)] + g[s \ {Pick(s)}])
      BY <2>1
    <2>3. [s \in SUBSET S |-> IF s = {} THEN 0 ELSE Pick(s).llm + g[s \ {Pick(s)}]] =
          [s \in SUBSET S |-> IF s = {} THEN 0 ELSE h[Pick(s)] + g[s \ {Pick(s)}]]
      BY <2>2
    <2>4. QED
      BY <2>3 DEF SumEq
  <1>3. (CHOOSE g : E(g)) = (CHOOSE g : SumEq(h, S, g))
    <2> HIDE DEF E
    <2>1. QED
      BY <1>2
  <1>4. SumOn(h, S) = SumOn(f, S)
    <2>1. \A r \in S : h[r] = f[r]
      OBVIOUS
    <2> HIDE DEF h
    <2>2. QED
      BY <2>1, SumSame
  <1>5. QED
    BY <1>1, <1>3, <1>4 DEF SumOn

\* A group counts every row of it.
LEMMA GroupTyped ==
  ASSUME NEW S, IsFiniteSet(S), \A s \in S : s.events \in Nat \ {0} /\ s.tokens \in Nat
  PROVE  /\ Count(S) \in Nat /\ Tokens(S) \in Nat
         /\ S # {} => Count(S) > 0
  <1> DEFINE f == [s \in S |-> s.events]
             h == [s \in S |-> s.tokens]
  <1>1. Count(S) = SumOn(f, S) /\ Tokens(S) = SumOn(h, S)
    <2>1. \A s \in S : f[s] = s.events /\ h[s] = s.tokens
      OBVIOUS
    <2> HIDE DEF f, h
    <2>2. QED
      BY <2>1, CountIs, TokensIs
  <1>2. Whole(f, S) /\ Whole(h, S)
    BY DEF Whole
  <1>3. SumOn(f, S) \in Nat /\ SumOn(h, S) \in Nat
    <2> HIDE DEF f, h
    <2>1. QED
      BY <1>2, SumWhole
  <1>4. ASSUME NEW s \in S PROVE Count(S) > 0
    <2>1. f[s] \in Nat \ {0}
      OBVIOUS
    <2> HIDE DEF f, h
    <2>2. SumOn(f, S) = f[s] + SumOn(f, S \ {s})
      BY <1>2, SumTake
    <2>3. SumOn(f, S \ {s}) \in Nat
      BY <1>2, SumSplit
    <2>4. QED
      BY <1>1, <2>1, <2>2, <2>3
  <1> HIDE DEF f, h
  <1>5. QED
    BY <1>1, <1>3, <1>4

LEMMA SummedTyped ==
  ASSUME NEW S, IsFiniteSet(S), \A s \in S : s.events \in Nat \ {0} /\ s.tokens \in Nat,
         NEW q \in S, q.day \in Nat, NEW m \in Nat
  PROVE  SummaryRowOf(Summed(S, q)) /\ SummaryRowOf(MonthRow(S, q, m))
  <1> DEFINE G == Group(S, q)
  <1>1. q \in G /\ G \in SUBSET S
    BY DEF Group
  <1>2. Count(G) \in Nat \ {0} /\ Tokens(G) \in Nat
    <2>1. IsFiniteSet(G) /\ \A s \in G : s.events \in Nat \ {0} /\ s.tokens \in Nat
      BY <1>1, FS_Subset
    <2> HIDE DEF G
    <2>2. QED
      BY <1>1, <2>1, GroupTyped
  <1> HIDE DEF G
  <1>3. ASSUME NEW tool, NEW day \in Nat
        PROVE  SummaryRowOf(GroupRow(G, q, tool, day))
    BY <1>2 DEF SummaryRowOf, SummaryColumns, GroupRow
  <1>4. QED
    BY <1>3 DEF Summed, MonthRow, G

LEMMA PartsTokensIs ==
  ASSUME NEW parts, NEW D, D = DOMAIN parts, IsFiniteSet(D),
         NEW f, \A i \in D : f[i] = parts[i].tokens
  PROVE  TraceEvent(parts, {}).tokens = SumOn(f, D)
  <1> DEFINE h == [i \in D |-> parts[i].tokens]
             E(g) == g = [s \in SUBSET D |-> IF s = {} THEN 0
                                             ELSE parts[Pick(s)].tokens + g[s \ {Pick(s)}]]
  <1>1. TraceEvent(parts, {}).tokens = (CHOOSE g : E(g))[D]
    BY DEF TraceEvent, MapThenSumSet, MapThenFoldSet, Pick
  <1>2. \A g : E(g) <=> SumEq(h, D, g)
    <2> TAKE g
    <2>1. \A s \in SUBSET D : s # {} => Pick(s) \in D
      BY DEF Pick
    <2>2. \A s \in SUBSET D : (IF s = {} THEN 0 ELSE parts[Pick(s)].tokens + g[s \ {Pick(s)}])
                             = (IF s = {} THEN 0 ELSE h[Pick(s)] + g[s \ {Pick(s)}])
      BY <2>1
    <2>3. [s \in SUBSET D |-> IF s = {} THEN 0 ELSE parts[Pick(s)].tokens + g[s \ {Pick(s)}]] =
          [s \in SUBSET D |-> IF s = {} THEN 0 ELSE h[Pick(s)] + g[s \ {Pick(s)}]]
      BY <2>2
    <2>4. QED
      BY <2>3 DEF SumEq
  <1>3. (CHOOSE g : E(g)) = (CHOOSE g : SumEq(h, D, g))
    <2> HIDE DEF E
    <2>1. QED
      BY <1>2
  <1>4. SumOn(h, D) = SumOn(f, D)
    <2>1. \A i \in D : h[i] = f[i]
      OBVIOUS
    <2> HIDE DEF h
    <2>2. QED
      BY <2>1, SumSame
  <1>5. QED
    BY <1>1, <1>3, <1>4 DEF SumOn

LEMMA PartsTokens ==
  ASSUME NEW parts, IsFiniteSet(DOMAIN parts), \A i \in DOMAIN parts : parts[i].tokens \in Nat
  PROVE  TraceEvent(parts, {}).tokens \in Nat
  <1> DEFINE D == DOMAIN parts
             h == [i \in D |-> parts[i].tokens]
  <1>1. Whole(h, D) /\ \A i \in D : h[i] = parts[i].tokens
    BY DEF Whole
  <1> HIDE DEF h
  <1>2. QED
    BY <1>1, PartsTokensIs, SumWhole

LEMMA ColumnsTyped ==
  ASSUME LedgerAssumption, TypeInv, NEW e \in Events
  PROVE  EventRow(Columns(e))
  <1>1. Priced(Sent[e]).tokens \in Nat
    <2>1. CASE Sent[e].parts = <<>>
      BY <2>1 DEF Priced, LedgerAssumption
    <2>2. CASE Sent[e].parts # <<>>
      <3>1. Priced(Sent[e]) = TraceEvent(Sent[e].parts, {})
        BY <2>2 DEF Priced
      <3>2. QED
        BY <3>1, PartsTokens DEF LedgerAssumption
    <2>3. QED
      BY <2>1, <2>2
  <1>2. today \in 1..LastDay /\ Sent[e].skew \in -1..1 /\ LastDay \in Nat
    BY DEF TypeInv, TableTypes, LedgerAssumption
  <1>3. today \in Days /\ today + Sent[e].skew \in Days
    BY <1>2 DEF Days
  <1>4. QED
    BY <1>1, <1>3 DEF EventRow, EventColumns, Columns

\* What a rebuild makes of rows with one date.
Rebuilt(S) == {Summed(S, q) : q \in S}

LEMMA RebuiltTyped ==
  ASSUME NEW S, IsFiniteSet(S), \A s \in S : s.events \in Nat \ {0} /\ s.tokens \in Nat,
         NEW d \in Nat, \A s \in S : s.day = d
  PROVE  /\ IsFiniteSet(Rebuilt(S))
         /\ \A s \in Rebuilt(S) : SummaryRowOf(s) /\ s.day = d
         /\ \A s, t \in Rebuilt(S) : SameKey(s, t) => s = t
  <1>1. IsFiniteSet(Rebuilt(S))
    <2> DEFINE k == [q \in S |-> Summed(S, q)]
    <2>1. Rebuilt(S) = {k[q] : q \in S}
      BY DEF Rebuilt
    <2> HIDE DEF k
    <2>2. QED
      BY <2>1, ImageFinite
  <1>2. ASSUME NEW q \in S
        PROVE  SummaryRowOf(Summed(S, q)) /\ Summed(S, q).day = d
    <2>1. q.day = d
      OBVIOUS
    <2>2. Summed(S, q).day = q.day
      BY SummedOwner
    <2>3. QED
      BY <2>1, <2>2, SummedTyped
  <1>3. ASSUME NEW q \in S, NEW r \in S, SameKey(Summed(S, q), Summed(S, r))
        PROVE  Summed(S, q) = Summed(S, r)
    <2>1. q.org = r.org /\ q.project = r.project /\ q.tool = r.tool /\ q.day = r.day
      BY <1>3, SummedOwner DEF SameKey
    <2>2. Group(S, q) = Group(S, r)
      BY <2>1 DEF Group
    <2>3. QED
      BY <2>1, <2>2 DEF Summed, GroupRow
  <1>4. QED
    BY <1>1, <1>2, <1>3 DEF Rebuilt

Months(S, m) == {MonthRow(S, q, m) : q \in S}

LEMMA MonthsTyped ==
  ASSUME NEW S, IsFiniteSet(S), NEW m \in Nat,
         \A s \in S : s.events \in Nat \ {0} /\ s.tokens \in Nat /\ s.day \in Nat,
         ~\E q, s \in S : Collide(q, s)
  PROVE  /\ IsFiniteSet(Months(S, m))
         /\ \A s \in Months(S, m) : SummaryRowOf(s) /\ s.day = m
         /\ \A s, t \in Months(S, m) : SameKey(s, t) => s = t
  <1> DEFINE M == Months(S, m)
  <1>1. IsFiniteSet(M)
    <2> DEFINE k == [q \in S |-> MonthRow(S, q, m)]
    <2>1. M = {k[q] : q \in S}
      BY DEF Months
    <2> HIDE DEF k, M
    <2>2. QED
      BY <2>1, ImageFinite
  <1>2. ASSUME NEW q \in S
        PROVE  SummaryRowOf(MonthRow(S, q, m)) /\ MonthRow(S, q, m).day = m
    BY SummedTyped, MonthRowOwner
  <1>3. ASSUME NEW q \in S, NEW r \in S, SameKey(MonthRow(S, q, m), MonthRow(S, r, m))
        PROVE  MonthRow(S, q, m) = MonthRow(S, r, m)
    <2>1. q.org = r.org /\ q.project = r.project
      BY <1>3, MonthRowOwner DEF SameKey
    <2>2. ToolName(q.tool) = ToolName(r.tool)
      <3>1. \A x \in S : MonthRow(S, x, m).tool = ToolName(x.tool)
        BY DEF MonthRow, GroupRow
      <3>2. QED
        BY <1>3, <3>1 DEF SameKey
    <2>3. q.tool = r.tool
      BY <2>1, <2>2 DEF Collide
    <2>4. Group(S, q) = Group(S, r)
      BY <2>1, <2>3 DEF Group
    <2>5. QED
      BY <2>1, <2>2, <2>4 DEF MonthRow, GroupRow
  <1>4. QED
    <2>1. (\A s \in M : SummaryRowOf(s) /\ s.day = m) /\ \A s, t \in M : SameKey(s, t) => s = t
      BY <1>2, <1>3 DEF Months
    <2> HIDE DEF M
    <2>2. QED
      BY <1>1, <2>1 DEF M

\* A stored event as one of the rows that are grouped.
LEMMA AsRowIs ==
  ASSUME NEW r, EventRow(r)
  PROVE  /\ AsRow(r).org = r.org /\ AsRow(r).project = r.project /\ AsRow(r).event = r.event
         /\ AsRow(r).day = r.created /\ AsRow(r).tool = ToolName(r.model)
         /\ AsRow(r).events = 1 /\ AsRow(r).tokens = r.tokens /\ SameCosts(r, AsRow(r))
  BY DEF AsRow, SameCosts

OfToday == {r \in store : r.created = today}
RowsOfToday == {AsRow(r) : r \in OfToday}

LEMMA RowsOfTodayTyped ==
  ASSUME TableTypes
  PROVE  /\ IsFiniteSet(OfToday) /\ IsFiniteSet(RowsOfToday)
         /\ \A s \in RowsOfToday : s.events = 1 /\ s.tokens \in Nat /\ s.day = today
  <1>1. IsFiniteSet(OfToday)
    BY FS_Subset DEF TableTypes, OfToday
  <1>2. IsFiniteSet(RowsOfToday)
    <2> DEFINE k == [r \in OfToday |-> AsRow(r)]
    <2>1. RowsOfToday = {k[r] : r \in OfToday}
      BY DEF RowsOfToday
    <2> HIDE DEF k
    <2>2. QED
      BY <1>1, <2>1, ImageFinite
  <1>3. ASSUME NEW r \in OfToday
        PROVE  AsRow(r).events = 1 /\ AsRow(r).tokens \in Nat /\ AsRow(r).day = today
    BY AsRowIs DEF TableTypes, OfToday, EventRow
  <1>4. QED
    BY <1>1, <1>2, <1>3 DEF RowsOfToday

LEMMA RebuildDailyIs ==
  ASSUME RebuildDaily
  PROVE  /\ daily' = {s \in daily : s.day # today} \cup Rebuilt(RowsOfToday)
         /\ dirty' = dirty \ {today}
         /\ UNCHANGED <<orgs, projects, store, monthly, today, edited, erased, admin>>
  BY DEF RebuildDaily, Rebuilt, RowsOfToday, OfToday

LEMMA ColumnsOf ==
  ASSUME NEW e, NEW day
  PROVE  LET r == Columns(e)
             s == SummaryRow(r, day)
         IN  /\ r.event = e /\ r.created = today /\ r.completed = today + Sent[e].skew
             /\ s.org = r.org /\ s.project = r.project /\ s.tool = r.model /\ s.day = day
             /\ s.events = 1 /\ s.tokens = r.tokens /\ SameCosts(r, s)
             /\ DOMAIN s = SummaryColumns
  <1>1. Columns(e).event = e /\ Columns(e).created = today
        /\ Columns(e).completed = today + Sent[e].skew
    BY DEF Columns
  <1>2. PICK r : r = Columns(e)
    OBVIOUS
  <1>3. PICK s : s = SummaryRow(r, day)
    OBVIOUS
  <1>4. /\ s.org = r.org /\ s.project = r.project /\ s.tool = r.model /\ s.day = day
        /\ s.events = 1 /\ s.tokens = r.tokens /\ SameCosts(r, s) /\ DOMAIN s = SummaryColumns
    BY <1>3 DEF SummaryRow, SummaryColumns, SameCosts
  <1>5. QED
    BY <1>1, <1>2, <1>3, <1>4

LEMMA AddedIs ==
  ASSUME NEW a, NEW b, DOMAIN a = SummaryColumns
  PROVE  LET s == Added(a, b)
         IN  /\ DOMAIN s = SummaryColumns
             /\ s.org = a.org /\ s.project = a.project /\ s.tool = a.tool /\ s.day = a.day
             /\ s.events = a.events + b.events /\ s.tokens = a.tokens + b.tokens
             /\ CostsAdd(s, a, b)
  BY DEF Added, SummaryColumns, CostsAdd

LEMMA UpdatedIs ==
  ASSUME NEW r, DOMAIN r = EventColumns, NEW m
  PROVE  LET s == Updated(r, m)
         IN  /\ DOMAIN s = EventColumns
             /\ s.event = r.event /\ s.org = r.org /\ s.project = r.project
             /\ s.tokens = r.tokens + 1 /\ s.model = m /\ SameCosts(r, s)
             /\ s.created = r.created /\ s.completed = r.completed
  BY DEF Updated, EventColumns, SameCosts

\* What an ingest adds: an event, and its row of the summary.
LEMMA NewRows ==
  ASSUME LedgerAssumption, TypeInv, NEW e \in Events,
         NEW r, r = Columns(e), NEW new, new = SummaryRow(r, r.completed)
  PROVE  /\ EventRow(r) /\ r.event = e /\ r.created = today
         /\ SummaryRowOf(new) /\ new.day \in Days /\ new.day = r.completed
         /\ new.org = r.org /\ new.project = r.project /\ new.tool = r.model
         /\ new.events = 1 /\ new.tokens = r.tokens /\ SameCosts(r, new)
  <1>1. EventRow(r)
    BY ColumnsTyped
  <1>2. r.event = e /\ r.created = today
    BY ColumnsOf
  <1>3. /\ DOMAIN new = SummaryColumns /\ new.day = r.completed
        /\ new.org = r.org /\ new.project = r.project /\ new.tool = r.model
        /\ new.events = 1 /\ new.tokens = r.tokens /\ SameCosts(r, new)
    <2>1. PICK day : day = r.completed
      OBVIOUS
    <2>2. new = SummaryRow(Columns(e), day)
      BY <2>1
    <2> HIDE DEF SummaryRowOf
    <2>3. QED
      BY <2>1, <2>2, ColumnsOf
  <1>4. r.tokens \in Nat /\ r.completed \in Days
    BY <1>1 DEF EventRow
  <1>5. Days \subseteq Nat
    BY DEF Days, LedgerAssumption
  <1>6. SummaryRowOf(new)
    <2>1. new.events \in Nat \ {0}
      BY <1>3
    <2>2. new.tokens \in Nat /\ new.day \in Nat
      BY <1>3, <1>4, <1>5
    <2>3. QED
      BY <1>3, <2>1, <2>2 DEF SummaryRowOf
  <1>7. QED
    BY <1>1, <1>2, <1>3, <1>4, <1>6

\* What it does to the summary: it adds a row, or adds to the one row of its key.
Upserts(new, keep, changed) ==
  /\ keep \in SUBSET daily
  /\ daily' = keep \cup {changed}
  /\ \A s \in keep : ~SameKey(s, new)
  /\ SameKey(changed, new)
  /\ \/ keep = daily /\ changed = new
     \/ \E s \in daily : /\ keep = daily \ {s} /\ SameKey(s, new)
                         /\ changed = Added(s, new)

LEMMA UpsertIs ==
  ASSUME TypeInv, NEW e \in Events, Ingest(e), NEW new,
         new = SummaryRow(Columns(e), Columns(e).completed)
  PROVE  \E keep, changed : Upserts(new, keep, changed)
  <1> DEFINE old == {s \in daily : SameKey(s, new)}
  <1>1. daily' = (daily \ old) \cup (IF old = {} THEN {new} ELSE {Added(s, new) : s \in old})
    BY DEF Ingest, UpsertDailySummary
  <1>2. CASE old = {}
    <2>1. daily' = daily \cup {new} /\ \A s \in daily : ~SameKey(s, new)
      BY <1>1, <1>2
    <2>2. SameKey(new, new)
      BY DEF SameKey
    <2>3. Upserts(new, daily, new)
      BY <2>1, <2>2 DEF Upserts
    <2>4. QED
      BY <2>3
  <1>3. ASSUME NEW s \in old
        PROVE  \E keep, changed : Upserts(new, keep, changed)
    <2>1. \A t \in old : SameKey(s, t)
      BY DEF SameKey
    <2>2. old = {s} /\ SameKey(s, new) /\ s \in daily
      BY <2>1 DEF TypeInv, UniqueRows
    <2>3. PICK a : a = Added(s, new)
      OBVIOUS
    <2>4. daily' = (daily \ {s}) \cup {a} /\ \A t \in daily \ {s} : ~SameKey(t, new)
      BY <1>1, <2>2, <2>3
    <2>5. SameKey(a, new)
      <3>1. DOMAIN s = SummaryColumns
        BY <2>2 DEF TypeInv, TableTypes, SummaryRowOf
      <3>2. a.org = s.org /\ a.project = s.project /\ a.tool = s.tool /\ a.day = s.day
        BY <2>3, <3>1, AddedIs
      <3>3. QED
        BY <2>2, <3>2 DEF SameKey
    <2>6. Upserts(new, daily \ {s}, a)
      BY <2>2, <2>3, <2>4, <2>5 DEF Upserts
    <2>7. QED
      BY <2>6
  <1>4. QED
    BY <1>2, <1>3

\* The row of the key counts one event more and adds its tokens and its cost.
GrownFrom(s, new, changed) ==
  /\ SameKey(s, new) /\ SameKey(s, changed)
  /\ changed.events = s.events + new.events
  /\ changed.tokens = s.tokens + new.tokens
  /\ CostsAdd(changed, s, new)

LEMMA ChangedIs ==
  ASSUME TypeInv, NEW new, SummaryRowOf(new), new.day \in Days,
         NEW keep, NEW changed, Upserts(new, keep, changed)
  PROVE  /\ SummaryRowOf(changed) /\ changed.day \in Days
         /\ \/ keep = daily /\ changed = new
            \/ \E s \in daily : keep = daily \ {s} /\ GrownFrom(s, new, changed)
  <1>1. CASE keep = daily /\ changed = new
    BY <1>1
  <1>2. ASSUME NEW s \in daily, keep = daily \ {s}, SameKey(s, new), changed = Added(s, new)
        PROVE  SummaryRowOf(changed) /\ changed.day \in Days /\ GrownFrom(s, new, changed)
    <2>1. SummaryRowOf(s) /\ s.day \in Days
      BY DEF TypeInv, TableTypes
    <2>2. /\ DOMAIN changed = SummaryColumns
          /\ changed.org = s.org /\ changed.project = s.project
          /\ changed.tool = s.tool /\ changed.day = s.day
          /\ changed.events = s.events + new.events
          /\ changed.tokens = s.tokens + new.tokens
          /\ CostsAdd(changed, s, new)
      <3>1. DOMAIN s = SummaryColumns
        BY <2>1 DEF SummaryRowOf
      <3>2. QED
        BY <1>2, <3>1, AddedIs
    <2>3. SameKey(s, changed)
      BY <2>2 DEF SameKey
    <2>4. SummaryRowOf(changed)
      <3>1. s.events \in Nat \ {0} /\ new.events \in Nat \ {0}
            /\ s.tokens \in Nat /\ new.tokens \in Nat /\ s.day \in Nat
        BY <2>1 DEF SummaryRowOf
      <3>2. changed.events \in Nat \ {0} /\ changed.tokens \in Nat /\ changed.day \in Nat
        BY <2>2, <3>1
      <3>3. QED
        BY <2>2, <3>2 DEF SummaryRowOf
    <2>5. GrownFrom(s, new, changed)
      BY <1>2, <2>2, <2>3 DEF GrownFrom
    <2>6. QED
      BY <2>1, <2>2, <2>4, <2>5
  <1>3. QED
    BY <1>1, <1>2 DEF Upserts

LEMMA IngestTyped ==
  ASSUME LedgerAssumption, TypeInv, NEW e \in Events, Ingest(e)
  PROVE  TypeInv'
  <1>1. PICK r : r = Columns(e)
    OBVIOUS
  <1>2. PICK new : new = SummaryRow(r, r.completed)
    OBVIOUS
  <1>3. EventRow(r) /\ r.event = e /\ SummaryRowOf(new) /\ new.day \in Days
    BY <1>1, <1>2, NewRows
  <1>4. /\ store' = store \cup {r} /\ \A q \in store : q.event # e
        /\ UNCHANGED <<orgs, projects, monthly, today, dirty, edited, admin>>
    BY <1>1 DEF Ingest
  <1>5. PICK keep, changed : Upserts(new, keep, changed)
    BY <1>1, <1>2, UpsertIs
  <1>6. SummaryRowOf(changed) /\ changed.day \in Days
    BY <1>3, <1>5, ChangedIs
  <1>7. /\ keep \in SUBSET daily /\ daily' = keep \cup {changed}
        /\ SameKey(changed, new) /\ \A s \in keep : ~SameKey(s, new)
    BY <1>5 DEF Upserts
  <1>8. TableTypes'
    <2>1. IsFiniteSet(store') /\ IsFiniteSet(daily') /\ IsFiniteSet(monthly')
      <3>1. IsFiniteSet(store) /\ IsFiniteSet(keep) /\ IsFiniteSet(monthly)
        BY <1>7, FS_Subset DEF TypeInv, TableTypes
      <3>2. QED
        BY <1>4, <1>7, <3>1, FS_AddElement
    <2>2. \A q \in store' : EventRow(q)
      BY <1>3, <1>4 DEF TypeInv, TableTypes
    <2>3. (\A s \in daily' \cup monthly' : SummaryRowOf(s)) /\ \A s \in daily' : s.day \in Days
      BY <1>4, <1>6, <1>7 DEF TypeInv, TableTypes
    <2>4. QED
      BY <1>4, <2>1, <2>2, <2>3 DEF TypeInv, TableTypes, EventRow, Days
  <1>9. UniqueRows'
    <2>1. \A q, s \in store' : q.event = s.event => q = s
      BY <1>3, <1>4 DEF TypeInv, UniqueRows
    <2>2. ASSUME NEW s \in daily', NEW t \in daily', SameKey(s, t)
          PROVE  s = t
      <3>1. s = changed => t = changed \/ SameKey(t, new)
        BY <1>7, <2>2 DEF SameKey
      <3>2. t = changed => s = changed \/ SameKey(s, new)
        BY <1>7, <2>2 DEF SameKey
      <3>3. QED
        BY <1>7, <2>2, <3>1, <3>2 DEF TypeInv, UniqueRows
    <2>3. QED
      BY <1>4, <2>1, <2>2 DEF TypeInv, UniqueRows, SameKey
  <1>10. NameTypes'
    BY <1>4 DEF TypeInv, NameTypes
  <1>11. QED
    BY <1>8, <1>9, <1>10 DEF TypeInv

LEMMA EditTyped ==
  ASSUME LedgerAssumption, TypeInv, NEW r \in store, Edits(r)
  PROVE  TypeInv'
  <1>1. /\ UNCHANGED <<today, daily, monthly, orgs, projects>>
        /\ dirty' = dirty \cup {r.created, r.completed} /\ Uses(2)
        /\ \/ store' = store \ {r}
           \/ \E m : store' = (store \ {r}) \cup {Updated(r, m)}
    BY DEF Edits, DeleteEvent, UpdateEvent, Edit, Touched
  <1>2. EventRow(r)
    BY DEF TypeInv, TableTypes
  <1>3. ASSUME NEW m, NEW n, n = Updated(r, m)
        PROVE  EventRow(n) /\ n.event = r.event
    BY <1>2, <1>3, UpdatedIs DEF EventRow
  <1>4. /\ IsFiniteSet(store')
        /\ \A q \in store' : EventRow(q)
        /\ \A q, s \in store' : q.event = s.event => q = s
    <2>1. IsFiniteSet(store \ {r})
      BY FS_Subset DEF TypeInv, TableTypes
    <2>2. /\ \A q \in store \ {r} : EventRow(q) /\ q.event # r.event
          /\ \A q, s \in store \ {r} : q.event = s.event => q = s
      BY DEF TypeInv, TableTypes, UniqueRows
    <2>3. CASE store' = store \ {r}
      BY <2>1, <2>2, <2>3
    <2>4. ASSUME NEW m, store' = (store \ {r}) \cup {Updated(r, m)}
          PROVE  /\ IsFiniteSet(store')
                 /\ \A q \in store' : EventRow(q)
                 /\ \A q, s \in store' : q.event = s.event => q = s
      <3>1. PICK n : n = Updated(r, m)
        OBVIOUS
      <3>2. store' = (store \ {r}) \cup {n} /\ EventRow(n) /\ n.event = r.event
        BY <1>3, <2>4, <3>1
      <3>3. IsFiniteSet(store')
        BY <2>1, <3>2, FS_AddElement
      <3>4. QED
        BY <2>2, <3>2, <3>3
    <2>5. QED
      BY <1>1, <2>3, <2>4
  <1>5. TableTypes'
    <2>1. dirty' \subseteq Days
      BY <1>1, <1>2 DEF EventRow, TypeInv, TableTypes
    <2>2. QED
      BY <1>1, <1>4, <2>1 DEF TypeInv, TableTypes, EventRow, Days
  <1>6. UniqueRows'
    BY <1>1, <1>4 DEF TypeInv, UniqueRows
  <1>7. NameTypes'
    BY <1>1 DEF TypeInv, NameTypes, Uses, LedgerAssumption
  <1>8. QED
    BY <1>5, <1>6, <1>7 DEF TypeInv

LEMMA RebuildDailyTyped ==
  ASSUME LedgerAssumption, TypeInv, RebuildDaily
  PROVE  TypeInv'
  <1> DEFINE S == RowsOfToday
             old == {s \in daily : s.day # today}
             new == Rebuilt(S)
  <1>1. /\ daily' = old \cup new /\ dirty' = dirty \ {today}
        /\ UNCHANGED <<orgs, projects, store, monthly, today, edited, erased, admin>>
    BY RebuildDailyIs
  <1>2. today \in Days /\ today \in Nat
    BY DEF TypeInv, TableTypes, Days, LedgerAssumption
  <1>3. /\ IsFiniteSet(new)
        /\ \A s \in new : SummaryRowOf(s) /\ s.day = today
        /\ \A s, t \in new : SameKey(s, t) => s = t
    <2>1. IsFiniteSet(S) /\ \A s \in S : s.events = 1 /\ s.tokens \in Nat /\ s.day = today
      BY RowsOfTodayTyped DEF TypeInv
    <2>2. \A s \in S : s.events \in Nat \ {0} /\ s.tokens \in Nat
      BY <2>1
    <2> HIDE DEF S
    <2>3. QED
      BY <1>2, <2>1, <2>2, RebuiltTyped
  <1> HIDE DEF new, S
  <1>4. /\ IsFiniteSet(old)
        /\ \A s \in old : SummaryRowOf(s) /\ s.day \in Days /\ s.day # today
        /\ \A s, t \in old : SameKey(s, t) => s = t
    BY FS_Subset DEF TypeInv, TableTypes, UniqueRows
  <1> HIDE DEF old
  <1>5. TableTypes'
    <2>1. IsFiniteSet(daily') /\ \A s \in daily' : SummaryRowOf(s) /\ s.day \in Days
      BY <1>1, <1>2, <1>3, <1>4, FS_Union
    <2>2. QED
      BY <1>1, <2>1 DEF TypeInv, TableTypes, EventRow, Days
  <1>6. UniqueRows'
    <2>1. \A s, t \in daily' : SameKey(s, t) => s.day = t.day
      BY DEF SameKey
    <2>2. \A s, t \in daily' : SameKey(s, t) => s = t
      BY <1>1, <1>3, <1>4, <2>1
    <2>3. QED
      BY <1>1, <2>2 DEF TypeInv, UniqueRows
  <1>7. NameTypes'
    BY <1>1 DEF TypeInv, NameTypes
  <1>8. QED
    BY <1>5, <1>6, <1>7 DEF TypeInv

LEMMA RebuildMonthlyTyped ==
  ASSUME LedgerAssumption, TypeInv, RebuildMonthly
  PROVE  TypeInv'
  <1> DEFINE month == MonthOf[today]
             S == {s \in daily : MonthOf[s.day] = month /\ s.day <= today /\ s.org \in orgs}
             old == {s \in monthly : s.day # month}
             new == Months(S, month)
  <1>1. /\ monthly' = old \cup new /\ ~\E q, s \in S : Collide(q, s)
        /\ UNCHANGED <<orgs, projects, store, daily, today, dirty, edited, erased, admin>>
    BY DEF RebuildMonthly, Months
  <1>2. month \in Nat
    BY DEF TypeInv, TableTypes, LedgerAssumption
  <1>3. /\ IsFiniteSet(new)
        /\ \A s \in new : SummaryRowOf(s) /\ s.day = month
        /\ \A s, t \in new : SameKey(s, t) => s = t
    <2>1. /\ IsFiniteSet(S)
          /\ \A s \in S : s.events \in Nat \ {0} /\ s.tokens \in Nat /\ s.day \in Nat
      BY FS_Subset DEF TypeInv, TableTypes, SummaryRowOf
    <2> HIDE DEF S, month
    <2>2. QED
      BY <1>1, <1>2, <2>1, MonthsTyped
  <1> HIDE DEF new, S
  <1>4. /\ IsFiniteSet(old)
        /\ \A s \in old : SummaryRowOf(s) /\ s.day # month
        /\ \A s, t \in old : SameKey(s, t) => s = t
    BY FS_Subset DEF TypeInv, TableTypes, UniqueRows
  <1> HIDE DEF old, month
  <1>5. TableTypes'
    <2>1. IsFiniteSet(monthly') /\ \A s \in monthly' : SummaryRowOf(s)
      BY <1>1, <1>3, <1>4, FS_Union
    <2>2. QED
      BY <1>1, <2>1 DEF TypeInv, TableTypes, EventRow, Days
  <1>6. UniqueRows'
    <2>1. \A s, t \in monthly' : SameKey(s, t) => s.day = t.day
      BY DEF SameKey
    <2>2. \A s, t \in monthly' : SameKey(s, t) => s = t
      BY <1>1, <1>3, <1>4, <2>1
    <2>3. QED
      BY <1>1, <2>2 DEF TypeInv, UniqueRows
  <1>7. NameTypes'
    BY <1>1 DEF TypeInv, NameTypes
  <1>8. QED
    BY <1>5, <1>6, <1>7 DEF TypeInv

\* The rows of a pair of names in a table.
In(T, o, p) == {r \in T : r.org = o /\ r.project = p}
DailyOf(o, p, d) == {s \in daily : s.org = o /\ s.project = p /\ s.day = d}

\* An administrative step keeps the rows of a pair of names or deletes them all, but
\* for the rows of the older service's deletions, whose days are then dirty.
Spares(o, p, d) ==
  \/ In(store, o, p)' = In(store, o, p) /\ DailyOf(o, p, d)' = DailyOf(o, p, d)
  \/ In(store, o, p)' = {} /\ DailyOf(o, p, d)' = {}

LEMMA SweepSpares ==
  ASSUME NEW gone, OldSweep(gone), UNCHANGED store, NEW o, NEW p, NEW d, d \notin dirty'
  PROVE  Spares(o, p, d) /\ dirty \subseteq dirty'
  <1>1. CASE UNCHANGED <<daily, monthly, dirty>>
    BY <1>1 DEF Spares, In, DailyOf
  <1>2. CASE daily' = daily \ gone /\ dirty' = dirty \cup {s.day : s \in daily \ daily'}
    <2>1. \A s \in daily : s.day = d => s \in daily'
      BY <1>2
    <2>2. DailyOf(o, p, d)' = DailyOf(o, p, d)
      BY <1>2, <2>1 DEF DailyOf
    <2>3. QED
      BY <1>2, <2>2 DEF Spares, In
  <1>3. QED
    BY <1>1, <1>2 DEF OldSweep

LEMMA SweepDirties ==
  ASSUME TypeInv, NEW gone, OldSweep(gone)
  PROVE  dirty' \subseteq Days
  BY DEF OldSweep, TypeInv, TableTypes

LEMMA AdministersSpares ==
  ASSUME Administers, NEW o, NEW p, NEW d, d \notin dirty'
  PROVE  Spares(o, p, d) /\ dirty \subseteq dirty'
  <1>1. ASSUME UNCHANGED <<store, daily, dirty>>
        PROVE  Spares(o, p, d) /\ dirty \subseteq dirty'
    BY <1>1 DEF Spares, In, DailyOf
  <1>2. ASSUME NEW q \in Orgs, CreateOrganization(q)
        PROVE  UNCHANGED <<store, daily, dirty>>
    BY <1>2 DEF CreateOrganization
  <1>3. ASSUME NEW q \in Orgs, NEW k \in Projects, CreateProject(k, q) \/ UpdateProject(k, q)
        PROVE  UNCHANGED <<store, daily, dirty>>
    BY <1>3 DEF CreateProject, UpdateProject
  <1>4. ASSUME NEW q \in Orgs, DeleteOrganization(q)
        PROVE  Spares(o, p, d) /\ dirty \subseteq dirty'
    <2>1. /\ store' = {r \in store : r.org # q} /\ daily' = {s \in daily : s.org # q}
          /\ UNCHANGED dirty
      BY <1>4 DEF DeleteOrganization
    <2>2. QED
      BY <2>1 DEF Spares, In, DailyOf
  <1>5. ASSUME NEW k \in Projects, DeleteProject(k)
        PROVE  Spares(o, p, d) /\ dirty \subseteq dirty'
    <2>1. /\ store' = {r \in store : r.project # k} /\ daily' = {s \in daily : s.project # k}
          /\ UNCHANGED dirty
      BY <1>5 DEF DeleteProject
    <2>2. QED
      BY <2>1 DEF Spares, In, DailyOf
  <1>6. ASSUME NEW q \in Orgs, OldDeleteOrganization(q)
        PROVE  Spares(o, p, d) /\ dirty \subseteq dirty'
    BY <1>6, SweepSpares DEF OldDeleteOrganization
  <1>7. ASSUME NEW k \in Projects, OldDeleteProject(k)
        PROVE  Spares(o, p, d) /\ dirty \subseteq dirty'
    BY <1>7, SweepSpares DEF OldDeleteProject
  <1>8. QED
    BY <1>1, <1>2, <1>3, <1>4, <1>5, <1>6, <1>7 DEF Administers

LEMMA AdministersNames ==
  ASSUME LedgerAssumption, TypeInv, Administers
  PROVE  NameTypes' /\ dirty' \subseteq Days
  <1>1. NameTypes /\ dirty \subseteq Days
    BY DEF TypeInv, TableTypes
  <1>2. Administer => admin' \in 0..MaxAdmin
    BY <1>1 DEF Administer, Uses, NameTypes, LedgerAssumption
  <1>3. ASSUME NEW o \in Orgs, CreateOrganization(o)
        PROVE  NameTypes' /\ dirty' \subseteq Days
    BY <1>1, <1>2, <1>3 DEF CreateOrganization, NameTypes
  <1>4. ASSUME NEW o \in Orgs, DeleteOrganization(o)
        PROVE  NameTypes' /\ dirty' \subseteq Days
    BY <1>1, <1>2, <1>4 DEF DeleteOrganization, NameTypes, Without, Of
  <1>5. ASSUME NEW o \in Orgs, OldDeleteOrganization(o)
        PROVE  NameTypes' /\ dirty' \subseteq Days
    <2>1. dirty' \subseteq Days
      BY <1>5, SweepDirties DEF OldDeleteOrganization
    <2>2. QED
      BY <1>1, <1>2, <1>5, <2>1 DEF OldDeleteOrganization, NameTypes, Of
  <1>6. ASSUME NEW o \in Orgs, NEW p \in Projects, CreateProject(p, o)
        PROVE  NameTypes' /\ dirty' \subseteq Days
    BY <1>1, <1>2, <1>6 DEF CreateProject, NameTypes
  <1>7. ASSUME NEW o \in Orgs, NEW p \in Projects, UpdateProject(p, o)
        PROVE  NameTypes' /\ dirty' \subseteq Days
    BY <1>1, <1>2, <1>7 DEF UpdateProject, NameTypes
  <1>8. ASSUME NEW p \in Projects, DeleteProject(p)
        PROVE  NameTypes' /\ dirty' \subseteq Days
    BY <1>1, <1>2, <1>8 DEF DeleteProject, NameTypes, Without
  <1>9. ASSUME NEW p \in Projects, OldDeleteProject(p)
        PROVE  NameTypes' /\ dirty' \subseteq Days
    <2>1. dirty' \subseteq Days
      BY <1>9, SweepDirties DEF OldDeleteProject
    <2>2. QED
      BY <1>1, <1>2, <1>9, <2>1 DEF OldDeleteProject, NameTypes, Without
  <1>10. QED
    BY <1>3, <1>4, <1>5, <1>6, <1>7, <1>8, <1>9 DEF Administers

LEMMA AdministersTyped ==
  ASSUME LedgerAssumption, TypeInv, Administers
  PROVE  TypeInv'
  <1>1. /\ UNCHANGED today
        /\ store' \subseteq store /\ daily' \subseteq daily /\ monthly' \subseteq monthly
    BY AdministersDeletes
  <1>2. NameTypes' /\ dirty' \subseteq Days
    BY AdministersNames
  <1>3. IsFiniteSet(store') /\ IsFiniteSet(daily') /\ IsFiniteSet(monthly')
    BY <1>1, FS_Subset DEF TypeInv, TableTypes
  <1>4. TableTypes'
    BY <1>1, <1>2, <1>3 DEF TypeInv, TableTypes, EventRow, Days
  <1>5. UniqueRows'
    BY <1>1 DEF TypeInv, UniqueRows
  <1>6. QED
    BY <1>2, <1>4, <1>5 DEF TypeInv

LEMMA TypeStep ==
  ASSUME LedgerAssumption, TypeInv, [Next]_vars
  PROVE  TypeInv'
  <1>1. ASSUME UNCHANGED <<orgs, projects, store, daily, monthly, dirty, admin>>,
               today' \in 1..LastDay
        PROVE  TypeInv'
    BY <1>1 DEF TypeInv, TableTypes, UniqueRows, NameTypes, EventRow, Days
  <1>2. CASE NextDay
    BY <1>1, <1>2 DEF NextDay, TypeInv, TableTypes, LedgerAssumption
  <1>3. CASE UNCHANGED vars
    BY <1>1, <1>3 DEF vars, TypeInv, TableTypes
  <1>4. ASSUME NEW e \in Events, Ingest(e)
        PROVE  TypeInv'
    BY <1>4, IngestTyped
  <1>5. ASSUME NEW r \in store, Edits(r)
        PROVE  TypeInv'
    BY <1>5, EditTyped
  <1>6. QED
    BY <1>2, <1>3, <1>4, <1>5, StepKinds, RebuildDailyTyped, RebuildMonthlyTyped,
       AdministersTyped

LEMMA TypeInit ==
  ASSUME LedgerAssumption, Init
  PROVE  TypeInv
  <1>1. 1 \in 1..LastDay /\ 0 \in 0..MaxAdmin
    BY DEF LedgerAssumption
  <1>2. TableTypes
    BY <1>1, FS_EmptySet DEF Init, TableTypes
  <1>3. UniqueRows
    BY DEF Init, UniqueRows
  <1>4. NameTypes
    BY <1>1 DEF Init, NameTypes, LedgerAssumption
  <1>5. QED
    BY <1>2, <1>3, <1>4 DEF TypeInv

\* In every state an event is one row, a day and a month have one summary row per key,
\* with natural counts, and each project belongs to an organisation there is.
THEOREM TablesAreTyped == Spec => []TypeOK
  <1>1. Init => TypeInv
    BY TypeInit, LedgerAssumption
  <1>2. TypeInv /\ [Next]_vars => TypeInv'
    BY TypeStep, LedgerAssumption
  <1>3. TypeInv => TypeOK
    BY DEF TypeInv, TableTypes, UniqueRows, NameTypes, EventRow, SummaryRowOf, TypeOK
  <1>4. QED
    BY <1>1, <1>2, <1>3, PTL DEF Spec

-----------------------------------------------------------------------------
(* What the summary counts *)

Eventful(T) == \A s \in T : s.events \in Nat

LEMMA CountAdds ==
  ASSUME NEW T, IsFiniteSet(T), Eventful(T), NEW x, x.events \in Nat, x \notin T
  PROVE  Count(T) \in Nat /\ Count(T \cup {x}) = Count(T) + x.events
  <1> DEFINE f == [s \in T \cup {x} |-> s.events]
  <1>1. IsFiniteSet(T \cup {x})
    BY FS_AddElement
  <1>2. /\ \A s \in T : f[s] = s.events
        /\ \A s \in T \cup {x} : f[s] = s.events
        /\ Whole(f, T) /\ Whole(f, T \cup {x}) /\ f[x] = x.events
    BY DEF Eventful, Whole
  <1> HIDE DEF f
  <1>3. Count(T) = SumOn(f, T) /\ Count(T \cup {x}) = SumOn(f, T \cup {x})
    BY <1>1, <1>2, CountIs
  <1>4. SumOn(f, T) \in Nat
    BY <1>2, SumWhole
  <1>5. SumOn(f, T \cup {x}) = f[x] + SumOn(f, T)
    BY <1>2, SumAdd
  <1>6. QED
    BY <1>2, <1>3, <1>4, <1>5

LEMMA CountNone == Count({}) = 0
  <1> DEFINE f == [s \in {} |-> 0]
  <1>1. \A s \in {} : f[s] = s.events
    OBVIOUS
  <1> HIDE DEF f
  <1>2. QED
    BY <1>1, CountIs, SumEmpty, FS_EmptySet

\* The rows of whole groups, rebuilt, add up to what the rows added up to.
Made(S, T) == {Summed(S, q) : q \in T}

LEMMA RebuiltSums ==
  ASSUME NEW S, IsFiniteSet(S), NEW d, \A s \in S : s.day = d,
         NEW T \in SUBSET S, \A q \in T : Group(S, q) \subseteq T,
         NEW f, Whole(f, S), NEW g,
         \A q \in T : g[Summed(S, q)] = SumOn(f, Group(S, q))
  PROVE  SumOn(g, Made(S, T)) = SumOn(f, T)
  <1> DEFINE k == [q \in T |-> Summed(S, q)]
  <1>1. IsFiniteSet(T) /\ Whole(f, T)
    BY FS_Subset DEF Whole
  <1>2. ASSUME NEW q \in T
        PROVE  {x \in T : Summed(S, x) = Summed(S, q)} = Group(S, q)
    <2>1. ASSUME NEW x \in T, Summed(S, x) = Summed(S, q)
          PROVE  x \in Group(S, q)
      BY <2>1, SummedOwner DEF Group
    <2>2. ASSUME NEW x \in Group(S, q)
          PROVE  x \in T /\ Summed(S, x) = Summed(S, q)
      <3>1. x \in S /\ x.org = q.org /\ x.project = q.project /\ x.tool = q.tool
        BY DEF Group
      <3>2. x.day = d /\ q.day = d
        BY <3>1
      <3>3. Group(S, x) = Group(S, q)
        BY <3>1 DEF Group
      <3>4. QED
        BY <3>1, <3>2, <3>3 DEF Summed, GroupRow
    <2>3. QED
      BY <2>1, <2>2
  <1>3. \A v \in KeysOf(k, T) : g[v] = SumOn(f, WithKey(k, T, v))
    <2> SUFFICES ASSUME NEW q \in T
                 PROVE  g[k[q]] = SumOn(f, WithKey(k, T, k[q]))
      BY DEF KeysOf
    <2>1. WithKey(k, T, k[q]) = Group(S, q)
      BY <1>2 DEF WithKey
    <2>2. QED
      BY <2>1
  <1>4. KeysOf(k, T) = Made(S, T)
    BY DEF KeysOf, Made
  <1> HIDE DEF k
  <1>5. QED
    BY <1>1, <1>3, <1>4, SumGroups

\* A rebuild makes one row of each event of the day before it groups them.
LEMMA OneRowEach ==
  ASSUME TypeInv, NEW o, NEW p, NEW R, R = In(OfToday, o, p),
         NEW f, NEW h, Whole(h, R), \A r \in R : f[AsRow(r)] = h[r]
  PROVE  SumOn(f, In(RowsOfToday, o, p)) = SumOn(h, R)
  <1> DEFINE T == In(RowsOfToday, o, p)
             k == [r \in R |-> AsRow(r)]
  <1>1. IsFiniteSet(R)
    BY RowsOfTodayTyped, FS_Subset DEF TypeInv, In
  <1>2. T = KeysOf(k, R)
    <2>1. \A r \in OfToday : AsRow(r).org = r.org /\ AsRow(r).project = r.project
      BY AsRowIs DEF TypeInv, TableTypes, OfToday
    <2>2. R = {r \in OfToday : r.org = o /\ r.project = p}
      BY DEF In
    <2>3. ASSUME NEW x \in T
          PROVE  x \in KeysOf(k, R)
      <3>1. x \in RowsOfToday /\ x.org = o /\ x.project = p
        BY DEF In
      <3>2. PICK r \in OfToday : x = AsRow(r)
        BY <3>1 DEF RowsOfToday
      <3>3. r \in R
        BY <2>1, <2>2, <3>1, <3>2
      <3>4. QED
        BY <3>2, <3>3 DEF KeysOf
    <2>4. ASSUME NEW x \in KeysOf(k, R)
          PROVE  x \in T
      <3>1. PICK r \in R : x = k[r]
        BY DEF KeysOf
      <3>2. r \in OfToday /\ x = AsRow(r) /\ r.org = o /\ r.project = p
        BY <2>2, <3>1
      <3>3. x \in RowsOfToday /\ x.org = o /\ x.project = p
        BY <2>1, <3>2 DEF RowsOfToday
      <3>4. QED
        BY <3>3 DEF In
    <2>5. QED
      BY <2>3, <2>4
  <1>3. ASSUME NEW r \in R
        PROVE  f[k[r]] = SumOn(h, WithKey(k, R, k[r]))
    <2>1. \A x \in R : k[x] = k[r] => x = r
      <3>1. \A x \in R : x \in store /\ k[x].event = x.event
        BY AsRowIs DEF TypeInv, TableTypes, OfToday, In
      <3>2. QED
        BY <3>1 DEF TypeInv, UniqueRows
    <2>2. WithKey(k, R, k[r]) = {r}
      BY <2>1 DEF WithKey
    <2>3. f[k[r]] = h[r] /\ h[r] \in Nat
      BY DEF Whole
    <2> HIDE DEF k
    <2>4. SumOn(h, {r}) = h[r]
      BY <2>3, SumOne
    <2>5. QED
      BY <2>2, <2>3, <2>4
  <1>4. \A v \in KeysOf(k, R) : f[v] = SumOn(h, WithKey(k, R, v))
    BY <1>3 DEF KeysOf
  <1> HIDE DEF k, T
  <1>5. SumOn(f, T) = SumOn(h, R)
    BY <1>1, <1>2, <1>4, SumGroups
  <1>6. QED
    BY <1>5 DEF T

LEMMA RebuiltFinite ==
  ASSUME TypeInv
  PROVE  /\ IsFiniteSet(Rebuilt(RowsOfToday))
         /\ \A o, p : /\ IsFiniteSet(In(Rebuilt(RowsOfToday), o, p))
                      /\ In(Rebuilt(RowsOfToday), o, p) = Made(RowsOfToday, In(RowsOfToday, o, p))
                      /\ In(RowsOfToday, o, p) \in SUBSET RowsOfToday
                      /\ \A q \in In(RowsOfToday, o, p) :
                           /\ Group(RowsOfToday, q) \subseteq In(RowsOfToday, o, p)
                           /\ IsFiniteSet(Group(RowsOfToday, q))
  <1> DEFINE S == RowsOfToday
             h == [q \in S |-> Summed(S, q)]
  <1>1. IsFiniteSet(S)
    BY RowsOfTodayTyped DEF TypeInv
  <1>2. Rebuilt(S) = {h[q] : q \in S}
    BY DEF Rebuilt
  <1> HIDE DEF h, S
  <1>3. IsFiniteSet(Rebuilt(S))
    BY <1>1, <1>2, ImageFinite
  <1>4. ASSUME NEW o, NEW p
        PROVE  /\ IsFiniteSet(In(Rebuilt(S), o, p))
               /\ In(Rebuilt(S), o, p) = Made(S, In(S, o, p))
               /\ In(S, o, p) \in SUBSET S
               /\ \A q \in In(S, o, p) : /\ Group(S, q) \subseteq In(S, o, p)
                                         /\ IsFiniteSet(Group(S, q))
    <2>1. IsFiniteSet(In(Rebuilt(S), o, p))
      BY <1>3, FS_Subset DEF In
    <2>2. In(Rebuilt(S), o, p) = Made(S, In(S, o, p))
      BY SummedOwner DEF In, Rebuilt, Made
    <2>3. \A q \in In(S, o, p) : Group(S, q) \subseteq In(S, o, p) /\ Group(S, q) \in SUBSET S
      BY DEF In, Group
    <2>4. \A q \in In(S, o, p) : IsFiniteSet(Group(S, q))
      BY <1>1, <2>3, FS_Subset
    <2>5. QED
      BY <2>1, <2>2, <2>3, <2>4 DEF In
  <1>5. QED
    BY <1>3, <1>4 DEF S

\* The rebuilt rows of a pair of names count its events of the day.
LEMMA RebuiltCounts ==
  ASSUME TypeInv, NEW o, NEW p
  PROVE  Count(In(Rebuilt(RowsOfToday), o, p)) = Cardinality(In(OfToday, o, p))
  <1> DEFINE S == RowsOfToday
             T == In(S, o, p)
             M == In(Rebuilt(S), o, p)
             R == In(OfToday, o, p)
             f == [s \in S |-> 1]
             g == [s \in M |-> s.events]
             ones == [r \in R |-> 1]
  <1>1. /\ IsFiniteSet(S) /\ \A s \in S : s.events = 1 /\ s.day = today
    BY RowsOfTodayTyped DEF TypeInv
  <1>2. /\ IsFiniteSet(M) /\ M = Made(S, T) /\ T \in SUBSET S
        /\ \A q \in T : Group(S, q) \subseteq T /\ IsFiniteSet(Group(S, q))
    BY RebuiltFinite
  <1>3. Count(M) = SumOn(g, M)
    <2>1. \A s \in M : g[s] = s.events
      OBVIOUS
    <2> HIDE DEF g, M
    <2>2. QED
      BY <1>2, <2>1, CountIs
  <1>4. SumOn(g, Made(S, T)) = SumOn(f, T)
    <2>1. Whole(f, S)
      BY DEF Whole
    <2>2. ASSUME NEW q \in T
          PROVE  g[Summed(S, q)] = SumOn(f, Group(S, q))
      <3>1. Summed(S, q) \in M
        BY <1>2 DEF Made
      <3>2. g[Summed(S, q)] = Summed(S, q).events
        BY <3>1
      <3>3. Summed(S, q).events = Count(Group(S, q))
        BY DEF Summed, GroupRow
      <3>4. \A s \in Group(S, q) : f[s] = s.events
        BY <1>1 DEF Group
      <3> HIDE DEF f, g, S, T, M
      <3>5. QED
        BY <1>2, <3>2, <3>3, <3>4, CountIs
    <2> HIDE DEF f, g, S, T, M
    <2>3. QED
      BY <1>1, <1>2, <2>1, <2>2, RebuiltSums
  <1>5. SumOn(f, T) = SumOn(ones, R)
    <2>1. Whole(ones, R)
      BY DEF Whole
    <2>2. \A r \in R : f[AsRow(r)] = ones[r]
      BY DEF In, RowsOfToday
    <2> HIDE DEF f, ones
    <2>3. QED
      BY <2>1, <2>2, OneRowEach
  <1>6. SumOn(ones, R) = Cardinality(R)
    <2>1. \A r \in R : ones[r] = 1
      OBVIOUS
    <2>2. IsFiniteSet(R)
      BY RowsOfTodayTyped, FS_Subset DEF TypeInv, In
    <2> HIDE DEF ones, R
    <2>3. QED
      BY <2>1, <2>2, SumOnes
  <1> HIDE DEF S, T, R, M, f, g, ones
  <1>7. QED
    BY <1>2, <1>3, <1>4, <1>5, <1>6 DEF S, R, M

\* The events of a pair of names dated on a day both ways, and either way.
Both(o, p, d) == {r \in store : r.org = o /\ r.project = p /\ r.created = d /\ r.completed = d}
Either(o, p, d) ==
  {r \in store : r.org = o /\ r.project = p /\ d \in {r.created, r.completed}}
CountedWithin(o, p, d) ==
  /\ Cardinality(Both(o, p, d)) <= Count(DailyOf(o, p, d))
  /\ Count(DailyOf(o, p, d)) <= Cardinality(Either(o, p, d))

LEMMA WithinIs ==
  SummaryWithinEvents <=>
    \A d \in Days \ dirty, o \in Orgs, p \in Projects \cup {None} : CountedWithin(o, p, d)
  BY DEF SummaryWithinEvents, CountedWithin, Both, Either, DailyOf

Same(o, p, d) ==
  /\ Both(o, p, d)' = Both(o, p, d) /\ Either(o, p, d)' = Either(o, p, d)
  /\ DailyOf(o, p, d)' = DailyOf(o, p, d)
Emptied(o, p, d) == Both(o, p, d)' = {} /\ Either(o, p, d)' = {} /\ DailyOf(o, p, d)' = {}

LEMMA SpareSame ==
  ASSUME NEW o, NEW p, NEW d, Spares(o, p, d)
  PROVE  Same(o, p, d) \/ Emptied(o, p, d)
  <1>1. /\ Both(o, p, d) = {r \in In(store, o, p) : r.created = d /\ r.completed = d}
        /\ Either(o, p, d) = {r \in In(store, o, p) : d \in {r.created, r.completed}}
        /\ Both(o, p, d)' = {r \in In(store, o, p)' : r.created = d /\ r.completed = d}
        /\ Either(o, p, d)' = {r \in In(store, o, p)' : d \in {r.created, r.completed}}
    BY DEF Both, Either, In
  <1>2. CASE In(store, o, p)' = In(store, o, p) /\ DailyOf(o, p, d)' = DailyOf(o, p, d)
    BY <1>1, <1>2 DEF Same
  <1>3. CASE In(store, o, p)' = {} /\ DailyOf(o, p, d)' = {}
    BY <1>1, <1>3 DEF Emptied
  <1>4. QED
    BY <1>2, <1>3 DEF Spares

\* An edit dirties both days of its event, and concerns no other.
LEMMA EditSame ==
  ASSUME TypeInv, NEW r \in store, Edits(r), NEW o, NEW p, NEW d, d \notin dirty'
  PROVE  d \notin dirty /\ Same(o, p, d)
  <1>1. /\ UNCHANGED daily /\ dirty' = dirty \cup {r.created, r.completed}
        /\ \/ store' = store \ {r}
           \/ \E m : store' = (store \ {r}) \cup {Updated(r, m)}
    BY DEF Edits, DeleteEvent, UpdateEvent, Edit, Touched
  <1>2. r.created # d /\ r.completed # d /\ d \notin dirty
    BY <1>1
  <1>3. EventRow(r)
    BY DEF TypeInv, TableTypes
  <1>4. ASSUME NEW m, NEW n, n = Updated(r, m)
        PROVE  n.created # d /\ n.completed # d
    BY <1>2, <1>3, <1>4, UpdatedIs DEF EventRow
  <1>5. Both(o, p, d)' = Both(o, p, d) /\ Either(o, p, d)' = Either(o, p, d)
    <2>1. CASE store' = store \ {r}
      BY <1>2, <2>1 DEF Both, Either
    <2>2. ASSUME NEW m, store' = (store \ {r}) \cup {Updated(r, m)}
          PROVE  Both(o, p, d)' = Both(o, p, d) /\ Either(o, p, d)' = Either(o, p, d)
      <3>1. PICK n : n = Updated(r, m)
        OBVIOUS
      <3>2. n.created # d /\ n.completed # d /\ store' = (store \ {r}) \cup {n}
        BY <1>4, <2>2, <3>1
      <3>3. QED
        BY <1>2, <3>2 DEF Both, Either
    <2>3. QED
      BY <1>1, <2>1, <2>2
  <1>6. DailyOf(o, p, d)' = DailyOf(o, p, d)
    BY <1>1 DEF DailyOf
  <1>7. QED
    BY <1>2, <1>5, <1>6 DEF Same

\* A rebuild makes the rows of today anew, of the events created today.
LEMMA RebuildShape ==
  ASSUME TypeInv, RebuildDaily, NEW o, NEW p, NEW d
  PROVE  /\ UNCHANGED store /\ dirty' = dirty \ {today}
         /\ IF d = today THEN DailyOf(o, p, d)' = In(Rebuilt(RowsOfToday), o, p)
                         ELSE DailyOf(o, p, d)' = DailyOf(o, p, d)
  <1>1. /\ daily' = {s \in daily : s.day # today} \cup Rebuilt(RowsOfToday)
        /\ dirty' = dirty \ {today} /\ UNCHANGED <<store, today>>
    BY RebuildDailyIs
  <1>2. \A s \in Rebuilt(RowsOfToday) : s.day = today
    <2>1. \A s \in RowsOfToday : s.day = today
      BY RowsOfTodayTyped DEF TypeInv
    <2>2. QED
      BY <2>1, SummedOwner DEF Rebuilt
  <1>3. CASE d # today
    <2>1. DailyOf(o, p, d)' = DailyOf(o, p, d)
      BY <1>1, <1>2, <1>3 DEF DailyOf
    <2>2. QED
      BY <1>1, <1>3, <2>1
  <1>4. CASE d = today
    <2>1. DailyOf(o, p, d)' = In(Rebuilt(RowsOfToday), o, p)
      BY <1>1, <1>2, <1>4 DEF DailyOf, In
    <2>2. QED
      BY <1>1, <1>4, <2>1
  <1>5. QED
    BY <1>3, <1>4

LEMMA TodayWithin ==
  ASSUME TypeInv, NEW o, NEW p
  PROVE  /\ Both(o, p, today) \subseteq In(OfToday, o, p)
         /\ In(OfToday, o, p) \subseteq Either(o, p, today)
         /\ IsFiniteSet(In(OfToday, o, p)) /\ IsFiniteSet(Either(o, p, today))
  <1>1. /\ Both(o, p, today) \subseteq In(OfToday, o, p)
        /\ In(OfToday, o, p) \subseteq Either(o, p, today)
    BY DEF Both, Either, In, OfToday
  <1>2. IsFiniteSet(Either(o, p, today))
    BY FS_Subset DEF Either, TypeInv, TableTypes
  <1>3. QED
    BY <1>1, <1>2, FS_Subset

LEMMA RebuildWithin ==
  ASSUME TypeInv, RebuildDaily, NEW o, NEW p, NEW d, d \notin dirty',
         d \notin dirty => CountedWithin(o, p, d)
  PROVE  CountedWithin(o, p, d)'
  <1>1. /\ UNCHANGED store /\ dirty' = dirty \ {today}
        /\ IF d = today THEN DailyOf(o, p, d)' = In(Rebuilt(RowsOfToday), o, p)
                        ELSE DailyOf(o, p, d)' = DailyOf(o, p, d)
    BY RebuildShape
  <1>2. Both(o, p, d)' = Both(o, p, d) /\ Either(o, p, d)' = Either(o, p, d)
    BY <1>1 DEF Both, Either
  <1>3. CASE d # today
    BY <1>1, <1>2, <1>3 DEF CountedWithin
  <1>4. CASE d = today
    <2>1. Count(DailyOf(o, p, d)') = Cardinality(In(OfToday, o, p))
      BY <1>1, <1>4, RebuiltCounts
    <2>2. /\ Cardinality(Both(o, p, d)) <= Cardinality(In(OfToday, o, p))
          /\ Cardinality(In(OfToday, o, p)) <= Cardinality(Either(o, p, d))
      BY <1>4, TodayWithin, FS_Subset
    <2>3. QED
      BY <1>2, <2>1, <2>2 DEF CountedWithin
  <1>5. QED
    BY <1>3, <1>4

\* An ingest changes one row, among those of its names and the day it was completed.
Mine(r, o, p, d) == r.org = o /\ r.project = p /\ r.completed = d
Shape(r, o, p, d, new, changed, K) ==
  /\ SummaryRowOf(new) /\ SummaryRowOf(changed) /\ SameKey(changed, new)
  /\ new.events = 1 /\ new.tokens = r.tokens /\ new.tool = r.model
  /\ K \in SUBSET DailyOf(o, p, d) /\ changed \notin K
  /\ DailyOf(o, p, d)' = K \cup {changed}
  /\ \/ K = DailyOf(o, p, d) /\ changed = new
     \/ \E s \in DailyOf(o, p, d) : K = DailyOf(o, p, d) \ {s} /\ GrownFrom(s, new, changed)

LEMMA IngestShape ==
  ASSUME LedgerAssumption, TypeInv, NEW e \in Events, Ingest(e), NEW r, r = Columns(e),
         NEW o, NEW p, NEW d
  PROVE  IF Mine(r, o, p, d) THEN \E new, changed, K : Shape(r, o, p, d, new, changed, K)
                             ELSE DailyOf(o, p, d)' = DailyOf(o, p, d)
  <1>1. PICK new : new = SummaryRow(r, r.completed)
    OBVIOUS
  <1>2. /\ SummaryRowOf(new) /\ new.day \in Days /\ new.day = r.completed
        /\ new.org = r.org /\ new.project = r.project
        /\ new.events = 1 /\ new.tokens = r.tokens /\ new.tool = r.model
    BY <1>1, NewRows
  <1>3. PICK keep, changed : Upserts(new, keep, changed)
    BY <1>1, UpsertIs
  <1>4. keep \in SUBSET daily /\ daily' = keep \cup {changed} /\ SameKey(changed, new)
        /\ \A s \in keep : ~SameKey(s, new)
    BY <1>3 DEF Upserts
  <1>5. /\ SummaryRowOf(changed)
        /\ \/ keep = daily /\ changed = new
           \/ \E s \in daily : keep = daily \ {s} /\ GrownFrom(s, new, changed)
    BY <1>2, <1>3, ChangedIs
  <1>6. CASE ~Mine(r, o, p, d)
    <2>1. \A s : SameKey(s, new) => ~(s.org = o /\ s.project = p /\ s.day = d)
      BY <1>2, <1>6 DEF SameKey, Mine
    <2>2. DailyOf(o, p, d)' = DailyOf(o, p, d)
      BY <1>4, <1>5, <2>1 DEF DailyOf, GrownFrom
    <2>3. QED
      BY <1>6, <2>2
  <1>7. CASE Mine(r, o, p, d)
    <2>1. \A s : SameKey(s, new) => s.org = o /\ s.project = p /\ s.day = d
      BY <1>2, <1>7 DEF SameKey, Mine
    <2>2. PICK K : K = {s \in keep : s.org = o /\ s.project = p /\ s.day = d}
      OBVIOUS
    <2>3. /\ DailyOf(o, p, d)' = K \cup {changed} /\ changed \notin K
          /\ K \in SUBSET DailyOf(o, p, d)
      BY <1>4, <2>1, <2>2 DEF DailyOf
    <2>4. \/ K = DailyOf(o, p, d) /\ changed = new
          \/ \E s \in DailyOf(o, p, d) : K = DailyOf(o, p, d) \ {s} /\ GrownFrom(s, new, changed)
      <3>1. CASE keep = daily /\ changed = new
        BY <2>2, <3>1 DEF DailyOf
      <3>2. ASSUME NEW s \in daily, keep = daily \ {s}, GrownFrom(s, new, changed)
            PROVE  s \in DailyOf(o, p, d) /\ K = DailyOf(o, p, d) \ {s}
        BY <2>1, <2>2, <3>2 DEF DailyOf, GrownFrom
      <3>3. QED
        BY <1>5, <3>1, <3>2
    <2>5. Shape(r, o, p, d, new, changed, K)
      BY <1>2, <1>4, <1>5, <2>3, <2>4 DEF Shape
    <2>6. QED
      BY <1>7, <2>5
  <1>8. QED
    BY <1>6, <1>7

LEMMA DailyTyped ==
  ASSUME TypeInv, NEW o, NEW p, NEW d
  PROVE  /\ IsFiniteSet(DailyOf(o, p, d))
         /\ \A s \in DailyOf(o, p, d) : SummaryRowOf(s)
         /\ Count(DailyOf(o, p, d)) \in Nat
  <1>1. DailyOf(o, p, d) \in SUBSET daily
    BY DEF DailyOf
  <1>2. IsFiniteSet(DailyOf(o, p, d)) /\ \A s \in DailyOf(o, p, d) : SummaryRowOf(s)
    BY <1>1, FS_Subset DEF TypeInv, TableTypes
  <1>3. \A s \in DailyOf(o, p, d) : s.events \in Nat \ {0} /\ s.tokens \in Nat
    BY <1>2 DEF SummaryRowOf
  <1>4. QED
    BY <1>2, <1>3, GroupTyped

LEMMA ShapeCounts ==
  ASSUME TypeInv, NEW r, NEW o, NEW p, NEW d, NEW new, NEW changed, NEW K,
         Shape(r, o, p, d, new, changed, K)
  PROVE  Count(DailyOf(o, p, d)') = Count(DailyOf(o, p, d)) + 1
  <1>1. PICK D : D = DailyOf(o, p, d)
    OBVIOUS
  <1>2. IsFiniteSet(D) /\ (\A s \in D : SummaryRowOf(s)) /\ Count(D) \in Nat
    BY <1>1, DailyTyped
  <1>3. /\ DailyOf(o, p, d)' = K \cup {changed} /\ changed \notin K /\ K \in SUBSET D
        /\ new.events = 1 /\ SummaryRowOf(changed)
    BY <1>1 DEF Shape
  <1>4. IsFiniteSet(K) /\ Eventful(K) /\ changed.events \in Nat
    BY <1>2, <1>3, FS_Subset DEF Eventful, SummaryRowOf
  <1>5. Count(K) \in Nat /\ Count(K \cup {changed}) = Count(K) + changed.events
    BY <1>3, <1>4, CountAdds
  <1>6. CASE K = D /\ changed = new
    BY <1>1, <1>3, <1>5, <1>6
  <1>7. ASSUME NEW s \in D, K = D \ {s}, GrownFrom(s, new, changed)
        PROVE  Count(DailyOf(o, p, d)') = Count(D) + 1
    <2>1. s.events \in Nat /\ changed.events = s.events + 1
      BY <1>2, <1>3, <1>7 DEF GrownFrom, SummaryRowOf
    <2>2. D = K \cup {s} /\ s \notin K
      BY <1>7
    <2>3. Count(D) = Count(K) + s.events
      BY <1>4, <2>1, <2>2, CountAdds
    <2>4. QED
      BY <1>3, <1>5, <2>1, <2>3
  <1>8. QED
    BY <1>1, <1>6, <1>7 DEF Shape

\* The stored event is among those of either date, and of both if it was not delayed.
LEMMA IngestEvents ==
  ASSUME LedgerAssumption, TypeInv, NEW e \in Events, Ingest(e), NEW r, r = Columns(e),
         NEW o, NEW p, NEW d
  PROVE  /\ r \notin Either(o, p, d) /\ r.tokens \in Nat
         /\ IF Mine(r, o, p, d)
            THEN /\ Either(o, p, d)' = Either(o, p, d) \cup {r}
                 /\ Both(o, p, d)' \in {Both(o, p, d), Both(o, p, d) \cup {r}}
            ELSE /\ Either(o, p, d)' \in {Either(o, p, d), Either(o, p, d) \cup {r}}
                 /\ Both(o, p, d)' = Both(o, p, d)
         /\ UNCHANGED dirty
  <1>1. store' = store \cup {r} /\ UNCHANGED dirty /\ \A q \in store : q.event # e
    BY DEF Ingest
  <1>2. r.event = e /\ EventRow(r)
    <2>1. PICK new : new = SummaryRow(r, r.completed)
      OBVIOUS
    <2>2. QED
      BY <2>1, NewRows
  <1>3. r \notin store
    BY <1>1, <1>2
  <1>4. r \notin Either(o, p, d) /\ r.tokens \in Nat
    BY <1>2, <1>3 DEF Either, EventRow
  <1>5. CASE Mine(r, o, p, d)
    <2>1. Either(o, p, d)' = Either(o, p, d) \cup {r}
      BY <1>1, <1>5 DEF Either, Mine
    <2>2. Both(o, p, d)' \in {Both(o, p, d), Both(o, p, d) \cup {r}}
      BY <1>1 DEF Both
    <2>3. QED
      BY <1>1, <1>4, <1>5, <2>1, <2>2
  <1>6. CASE ~Mine(r, o, p, d)
    <2>1. Either(o, p, d)' \in {Either(o, p, d), Either(o, p, d) \cup {r}}
      BY <1>1 DEF Either
    <2>2. Both(o, p, d)' = Both(o, p, d)
      BY <1>1, <1>6 DEF Both, Mine
    <2>3. QED
      BY <1>1, <1>4, <1>6, <2>1, <2>2
  <1>7. QED
    BY <1>5, <1>6

LEMMA IngestWithin ==
  ASSUME LedgerAssumption, TypeInv, NEW e \in Events, Ingest(e),
         NEW o, NEW p, NEW d, CountedWithin(o, p, d)
  PROVE  CountedWithin(o, p, d)'
  <1>1. PICK r : r = Columns(e)
    OBVIOUS
  <1>2. PICK n, b, c : /\ n = Count(DailyOf(o, p, d))
                       /\ b = Cardinality(Both(o, p, d)) /\ c = Cardinality(Either(o, p, d))
    OBVIOUS
  <1>3. IsFiniteSet(Both(o, p, d)) /\ IsFiniteSet(Either(o, p, d))
    BY FS_Subset DEF Both, Either, TypeInv, TableTypes
  <1>4. b \in Nat /\ c \in Nat /\ n \in Nat /\ b <= n /\ n <= c
    BY <1>2, <1>3, FS_CardinalityType, DailyTyped DEF CountedWithin
  <1>5. CASE ~Mine(r, o, p, d)
    <2>1. Both(o, p, d)' = Both(o, p, d) /\ DailyOf(o, p, d)' = DailyOf(o, p, d)
      BY <1>1, <1>5, IngestShape, IngestEvents
    <2>2. Either(o, p, d)' \in {Either(o, p, d), Either(o, p, d) \cup {r}}
      BY <1>1, <1>5, IngestEvents
    <2>3. Cardinality(Either(o, p, d)') \in {c, c + 1}
      BY <1>2, <1>3, <2>2, FS_AddElement
    <2>4. n <= Cardinality(Either(o, p, d)')
      BY <1>4, <2>3
    <2>5. QED
      BY <1>2, <1>4, <2>1, <2>4 DEF CountedWithin
  <1>6. CASE Mine(r, o, p, d)
    <2>1. /\ Either(o, p, d)' = Either(o, p, d) \cup {r} /\ r \notin Either(o, p, d)
          /\ Both(o, p, d)' \in {Both(o, p, d), Both(o, p, d) \cup {r}}
      BY <1>1, <1>6, IngestEvents
    <2>2. Cardinality(Either(o, p, d)') = c + 1
      BY <1>2, <1>3, <2>1, FS_AddElement
    <2>3. Cardinality(Both(o, p, d)') \in {b, b + 1}
      BY <1>2, <1>3, <2>1, FS_AddElement
    <2>4. Count(DailyOf(o, p, d)') = n + 1
      BY <1>1, <1>2, <1>6, IngestShape, ShapeCounts
    <2>5. Cardinality(Both(o, p, d)') <= n + 1 /\ n + 1 <= Cardinality(Either(o, p, d)')
      BY <1>4, <2>2, <2>3
    <2>6. QED
      BY <2>4, <2>5 DEF CountedWithin
  <1>7. QED
    BY <1>5, <1>6

CountInv == \A d \in Days \ dirty : \A o, p : CountedWithin(o, p, d)

\* How a step concerns the rows and events of a pair of names on a day.
LEMMA CleanSteps ==
  ASSUME TypeInv, [Next]_vars, NEW o, NEW p, NEW d, d \notin dirty'
  PROVE  \/ d \notin dirty /\ (Same(o, p, d) \/ Emptied(o, p, d))
         \/ d \notin dirty /\ \E e \in Events : Ingest(e)
         \/ RebuildDaily
  <1>1. ASSUME NEW e \in Events, Ingest(e)
        PROVE  d \notin dirty
    BY <1>1 DEF Ingest
  <1>2. ASSUME NEW r \in store, Edits(r)
        PROVE  d \notin dirty /\ Same(o, p, d)
    BY <1>2, EditSame
  <1>3. CASE Administers
    <2>1. Spares(o, p, d) /\ dirty \subseteq dirty'
      BY <1>3, AdministersSpares
    <2>2. QED
      BY <2>1, SpareSame
  <1>4. CASE RebuildMonthly \/ NextDay \/ UNCHANGED vars
    <2>1. UNCHANGED <<store, daily, dirty>>
      BY <1>4 DEF RebuildMonthly, NextDay, vars
    <2>2. Same(o, p, d)
      BY <2>1 DEF Same, Both, Either, DailyOf
    <2>3. QED
      BY <2>1, <2>2
  <1>5. QED
    BY <1>1, <1>2, <1>3, <1>4, StepKinds

LEMMA CountStep ==
  ASSUME LedgerAssumption, TypeInv, CountInv, [Next]_vars
  PROVE  CountInv'
  <1> SUFFICES ASSUME NEW d \in Days, d \notin dirty', NEW o, NEW p
               PROVE  CountedWithin(o, p, d)'
    BY DEF CountInv, Days
  <1>1. d \notin dirty => CountedWithin(o, p, d)
    BY DEF CountInv
  <1>2. CASE d \notin dirty /\ Same(o, p, d)
    BY <1>1, <1>2 DEF Same, CountedWithin
  <1>3. CASE Emptied(o, p, d)
    BY <1>3, CountNone, FS_EmptySet DEF Emptied, CountedWithin
  <1>4. ASSUME NEW e \in Events, Ingest(e), d \notin dirty
        PROVE  CountedWithin(o, p, d)'
    BY <1>1, <1>4, IngestWithin
  <1>5. CASE RebuildDaily
    BY <1>1, <1>5, RebuildWithin
  <1>6. QED
    BY <1>2, <1>3, <1>4, <1>5, CleanSteps

\* Around midnight and whatever clocks say, the summary of a day that no edit and no
\* deletion of the older service concerned since its rebuild counts every event dated on
\* it both ways once, and no event twice.
THEOREM SummaryIsWithinEvents == Spec => []SummaryWithinEvents
  <1>1. Init => TypeInv
    BY TypeInit, LedgerAssumption
  <1>2. Init => CountInv
    <2> SUFFICES ASSUME Init, NEW o, NEW p, NEW d
                 PROVE  CountedWithin(o, p, d)
      BY DEF CountInv
    <2>1. Both(o, p, d) = {} /\ Either(o, p, d) = {} /\ DailyOf(o, p, d) = {}
      BY DEF Init, Both, Either, DailyOf
    <2>2. QED
      BY <2>1, CountNone, FS_EmptySet DEF CountedWithin
  <1>3. TypeInv /\ [Next]_vars => TypeInv'
    BY TypeStep, LedgerAssumption
  <1>4. TypeInv /\ CountInv /\ [Next]_vars => CountInv'
    BY CountStep, LedgerAssumption
  <1>5. CountInv => SummaryWithinEvents
    BY WithinIs DEF CountInv
  <1>6. QED
    BY <1>1, <1>2, <1>3, <1>4, <1>5, PTL DEF Spec

-----------------------------------------------------------------------------
(* Rounding, and the rates a cost is made of *)

LEMMA Divided ==
  ASSUME NEW x \in Int, NEW k \in Nat \ {0}
  PROVE  /\ x \div k \in Int /\ x % k \in 0..k - 1
         /\ x = k * (x \div k) + (x % k)
  OBVIOUS

\* A rounded number is half a unit away at most.
LEMMA HalfEvenNear ==
  ASSUME NEW x \in Int, NEW k \in Nat \ {0}
  PROVE  /\ HalfEven(x, k) \in Int
         /\ 2 * (k * HalfEven(x, k)) - 2 * x <= k /\ 2 * x - 2 * (k * HalfEven(x, k)) <= k
  <1>1. PICK q \in Int : q = x \div k
    BY Divided
  <1>2. PICK rest \in 0..k - 1 : rest = x % k
    BY Divided
  <1>3. x = k * q + rest
    BY <1>1, <1>2, Divided
  <1>4. HalfEven(x, k) = IF 2 * rest < k \/ (2 * rest = k /\ q % 2 = 0) THEN q ELSE q + 1
    BY <1>1, <1>2 DEF HalfEven
  <1>5. PICK p \in Int : p = k * q
    OBVIOUS
  <1>6. CASE HalfEven(x, k) = q /\ 2 * rest <= k
    BY <1>3, <1>5, <1>6
  <1>7. CASE HalfEven(x, k) = q + 1 /\ 2 * rest >= k
    <2>1. k * (q + 1) = p + k
      BY <1>5
    <2>2. QED
      BY <1>3, <1>5, <1>7, <2>1
  <1>8. QED
    BY <1>4, <1>6, <1>7

LEMMA RoundedToNear ==
  ASSUME NEW x \in Int, NEW unit \in Nat \ {0}
  PROVE  /\ RoundedTo(unit, x) \in Int
         /\ 2 * RoundedTo(unit, x) - 2 * x <= unit /\ 2 * x - 2 * RoundedTo(unit, x) <= unit
  <1>1. PICK h \in Int : h = HalfEven(x, unit)
    BY HalfEvenNear
  <1>2. RoundedTo(unit, x) = unit * h /\ unit * h \in Int
    BY <1>1 DEF RoundedTo
  <1>3. QED
    BY <1>1, <1>2, HalfEvenNear

LEMMA RoundedNear ==
  ASSUME NEW x \in Int
  PROVE  /\ Rounded(x) \in Int /\ Scale \in Nat \ {0}
         /\ 2 * Rounded(x) - 2 * x <= Scale /\ 2 * x - 2 * Rounded(x) <= Scale
  <1>1. Scale \in Nat \ {0}
    BY PricingAssumption DEF PricingAssumption
  <1>2. QED
    BY <1>1, RoundedToNear DEF Rounded

LEMMA RateIs ==
  ASSUME NEW m
  PROVE  /\ Rate(m) \in Nat
         /\ m \in DOMAIN Catalogue => Rate(m) = Catalogue[m]
         /\ m \notin DOMAIN Catalogue \cup DOMAIN Aliases => Rate(m) = 0
  BY PricingAssumption DEF PricingAssumption, Rate, NormalizeModelName

\* What a page shows for tokens, beside what they cost.
LEMMA CostNear ==
  ASSUME NEW m, NEW tokens \in Nat
  PROVE  /\ tokens * Rate(m) \in Nat /\ CalculateTokenCost(m, tokens) \in Int
         /\ 2 * CalculateTokenCost(m, tokens) - 2 * (tokens * Rate(m)) <= Scale
         /\ 2 * (tokens * Rate(m)) - 2 * CalculateTokenCost(m, tokens) <= Scale
  <1>1. PICK x \in Nat : x = tokens * Rate(m)
    BY RateIs
  <1>2. QED
    BY <1>1, RoundedNear DEF CalculateTokenCost

-----------------------------------------------------------------------------
(* Costs are numbers, wherever they are stored *)

LEMMA PartsLlmIs ==
  ASSUME NEW parts, NEW D, D = DOMAIN parts, IsFiniteSet(D),
         NEW f, \A i \in D : f[i] = ResolveModelCost(parts[i])
  PROVE  TraceEvent(parts, {}).llm = SumOn(f, D)
  <1> DEFINE h == [i \in D |-> ResolveModelCost(parts[i])]
             E(g) == g = [s \in SUBSET D |-> IF s = {} THEN 0
                                             ELSE ResolveModelCost(parts[Pick(s)])
                                                    + g[s \ {Pick(s)}]]
  <1>1. TraceEvent(parts, {}).llm = (CHOOSE g : E(g))[D]
    BY DEF TraceEvent, MapThenSumSet, MapThenFoldSet, Pick
  <1>2. \A g : E(g) <=> SumEq(h, D, g)
    <2> TAKE g
    <2>1. \A s \in SUBSET D : s # {} => Pick(s) \in D
      BY DEF Pick
    <2>2. \A s \in SUBSET D :
            (IF s = {} THEN 0 ELSE ResolveModelCost(parts[Pick(s)]) + g[s \ {Pick(s)}])
            = (IF s = {} THEN 0 ELSE h[Pick(s)] + g[s \ {Pick(s)}])
      BY <2>1
    <2>3. [s \in SUBSET D |->
             IF s = {} THEN 0 ELSE ResolveModelCost(parts[Pick(s)]) + g[s \ {Pick(s)}]] =
          [s \in SUBSET D |-> IF s = {} THEN 0 ELSE h[Pick(s)] + g[s \ {Pick(s)}]]
      BY <2>2
    <2>4. QED
      BY <2>3 DEF SumEq
  <1>3. (CHOOSE g : E(g)) = (CHOOSE g : SumEq(h, D, g))
    <2> HIDE DEF E
    <2>1. QED
      BY <1>2
  <1>4. SumOn(h, D) = SumOn(f, D)
    <2>1. \A i \in D : h[i] = f[i]
      OBVIOUS
    <2> HIDE DEF h
    <2>2. QED
      BY <2>1, SumSame
  <1>5. QED
    BY <1>1, <1>3, <1>4 DEF SumOn

LEMMA NoToolsCost ==
  ASSUME NEW parts
  PROVE  TraceEvent(parts, {}).external = 0
  <1> DEFINE Cost(t) == ResolveToolCost(t.tool, t.given, t.invocations, t.seconds)
             E(g) == g = [s \in SUBSET {} |-> IF s = {} THEN 0
                                              ELSE Cost(Pick(s)) + g[s \ {Pick(s)}]]
             only == [s \in SUBSET {} |-> 0]
  <1>1. TraceEvent(parts, {}).external = (CHOOSE g : E(g))[{}]
    BY DEF TraceEvent, MapThenSumSet, MapThenFoldSet, Pick
  <1>2. \A g : E(g) <=> g = only
    OBVIOUS
  <1>3. (CHOOSE g : E(g)) = only
    <2> HIDE DEF E, only
    <2>1. QED
      BY <1>2
  <1>4. only[{}] = 0
    OBVIOUS
  <1>5. QED
    BY <1>1, <1>3, <1>4

LEMMA EngineNumbers ==
  ASSUME NEW c, c.given \in Int \cup {None}, c.tokens \in Nat, c.seconds \in Nat
  PROVE  EngineCost(c) \in Int /\ OldEngineCost(c) \in Int
         /\ ResolvePricing(c) \in Int \cup {None}
  <1>0. \A a, b \in Int : a * b \in Int
    OBVIOUS
  <1>1. ToolCost(c) \in Int
    <2>1. ASSUME NEW base \in Int
          PROVE  PerToken(base, c.tokens) \in Int /\ PerSecond(base, c.seconds) \in Int
      BY <1>0, PricingAssumption DEF PricingAssumption, PerToken, PerSecond
    <2>2. CASE c.model \notin DOMAIN ToolPrice
      <3>1. ToolCost(c) = PerToken(0, c.tokens)
        BY <2>2 DEF ToolCost
      <3>2. QED
        BY <2>1, <3>1
    <2>3. CASE c.model \in DOMAIN ToolPrice
      <3>1. PICK t : t = ToolPrice[c.model]
        OBVIOUS
      <3>2. t.model \in CostModels /\ t.base \in Int
        BY <2>3, <3>1, PricingAssumption DEF PricingAssumption
      <3>3. ToolCost(c) \in {PerToken(t.base, c.tokens), PerSecond(t.base, c.seconds), t.base}
        BY <2>3, <3>1, <3>2 DEF ToolCost, CostModels
      <3>4. QED
        BY <2>1, <3>2, <3>3
    <2>4. QED
      BY <2>2, <2>3
  <1>2. /\ \A m \in DOMAIN Catalogue : c.tokens * Catalogue[m] \in Int
        /\ \A k \in DOMAIN ProviderPrice : c.tokens * ProviderPrice[k] \in Int
    BY PricingAssumption, <1>0 DEF PricingAssumption
  <1>3. EngineCost(c) \in Int /\ OldEngineCost(c) \in Int
    <2>1. /\ \A m \in DOMAIN Catalogue : Rounded(c.tokens * Catalogue[m]) \in Int
          /\ \A k \in DOMAIN ProviderPrice : Rounded(c.tokens * ProviderPrice[k]) \in Int
      BY <1>2, RoundedNear
    <2>2. QED
      BY <1>1, <1>2, <2>1 DEF EngineCost, OldEngineCost
  <1>4. c.model \in DOMAIN ToolPrice => RegistryCost(c) \in Int
    BY <1>0, PricingAssumption DEF PricingAssumption, RegistryCost
  <1>5. ResolvePricing(c) \in Int \cup {None}
    BY <1>2, <1>4 DEF ResolvePricing
  <1>6. QED
    BY <1>3, <1>5

LEMMA ModelNumbers ==
  ASSUME NEW c, c.given \in Int \cup {None}, c.tokens \in Nat
  PROVE  ResolveModelCost(c) \in Int
  <1>1. \A k \in DOMAIN ProviderPrice : c.tokens * ProviderPrice[k] \in Int
    BY PricingAssumption DEF PricingAssumption
  <1>2. QED
    BY <1>1 DEF ResolveModelCost

LEMMA InfraIs ==
  ASSUME NEW S, IsFiniteSet(S), NEW f, \A r \in S : f[r] = r.infra
  PROVE  InfraCost(S) = SumOn(f, S)
  <1> DEFINE h == [r \in S |-> r.infra]
             E(g) == g = [s \in SUBSET S |-> IF s = {} THEN 0
                                             ELSE Pick(s).infra + g[s \ {Pick(s)}]]
  <1>1. InfraCost(S) = (CHOOSE g : E(g))[S]
    BY DEF InfraCost, Total, MapThenSumSet, MapThenFoldSet, Pick
  <1>2. \A g : E(g) <=> SumEq(h, S, g)
    <2> TAKE g
    <2>1. \A s \in SUBSET S : s # {} => Pick(s) \in S
      BY DEF Pick
    <2>2. \A s \in SUBSET S : (IF s = {} THEN 0 ELSE Pick(s).infra + g[s \ {Pick(s)}])
                             = (IF s = {} THEN 0 ELSE h[Pick(s)] + g[s \ {Pick(s)}])
      BY <2>1
    <2>3. [s \in SUBSET S |-> IF s = {} THEN 0 ELSE Pick(s).infra + g[s \ {Pick(s)}]] =
          [s \in SUBSET S |-> IF s = {} THEN 0 ELSE h[Pick(s)] + g[s \ {Pick(s)}]]
      BY <2>2
    <2>4. QED
      BY <2>3 DEF SumEq
  <1>3. (CHOOSE g : E(g)) = (CHOOSE g : SumEq(h, S, g))
    <2> HIDE DEF E
    <2>1. QED
      BY <1>2
  <1>4. SumOn(h, S) = SumOn(f, S)
    <2>1. \A r \in S : h[r] = f[r]
      OBVIOUS
    <2> HIDE DEF h
    <2>2. QED
      BY <2>1, SumSame
  <1>5. QED
    BY <1>1, <1>3, <1>4 DEF SumOn

LEMMA ExternalIs ==
  ASSUME NEW S, IsFiniteSet(S), NEW f, \A r \in S : f[r] = r.external
  PROVE  ExternalCost(S) = SumOn(f, S)
  <1> DEFINE h == [r \in S |-> r.external]
             E(g) == g = [s \in SUBSET S |-> IF s = {} THEN 0
                                             ELSE Pick(s).external + g[s \ {Pick(s)}]]
  <1>1. ExternalCost(S) = (CHOOSE g : E(g))[S]
    BY DEF ExternalCost, Total, MapThenSumSet, MapThenFoldSet, Pick
  <1>2. \A g : E(g) <=> SumEq(h, S, g)
    <2> TAKE g
    <2>1. \A s \in SUBSET S : s # {} => Pick(s) \in S
      BY DEF Pick
    <2>2. \A s \in SUBSET S : (IF s = {} THEN 0 ELSE Pick(s).external + g[s \ {Pick(s)}])
                             = (IF s = {} THEN 0 ELSE h[Pick(s)] + g[s \ {Pick(s)}])
      BY <2>1
    <2>3. [s \in SUBSET S |-> IF s = {} THEN 0 ELSE Pick(s).external + g[s \ {Pick(s)}]] =
          [s \in SUBSET S |-> IF s = {} THEN 0 ELSE h[Pick(s)] + g[s \ {Pick(s)}]]
      BY <2>2
    <2>4. QED
      BY <2>3 DEF SumEq
  <1>3. (CHOOSE g : E(g)) = (CHOOSE g : SumEq(h, S, g))
    <2> HIDE DEF E
    <2>1. QED
      BY <1>2
  <1>4. SumOn(h, S) = SumOn(f, S)
    <2>1. \A r \in S : h[r] = f[r]
      OBVIOUS
    <2> HIDE DEF h
    <2>2. QED
      BY <2>1, SumSame
  <1>5. QED
    BY <1>1, <1>3, <1>4 DEF SumOn

LEMMA TotalIs ==
  ASSUME NEW S, IsFiniteSet(S), NEW f, \A r \in S : f[r] = r.total
  PROVE  TotalCost(S) = SumOn(f, S)
  <1> DEFINE h == [r \in S |-> r.total]
             E(g) == g = [s \in SUBSET S |-> IF s = {} THEN 0
                                             ELSE Pick(s).total + g[s \ {Pick(s)}]]
  <1>1. TotalCost(S) = (CHOOSE g : E(g))[S]
    BY DEF TotalCost, Total, MapThenSumSet, MapThenFoldSet, Pick
  <1>2. \A g : E(g) <=> SumEq(h, S, g)
    <2> TAKE g
    <2>1. \A s \in SUBSET S : s # {} => Pick(s) \in S
      BY DEF Pick
    <2>2. \A s \in SUBSET S : (IF s = {} THEN 0 ELSE Pick(s).total + g[s \ {Pick(s)}])
                             = (IF s = {} THEN 0 ELSE h[Pick(s)] + g[s \ {Pick(s)}])
      BY <2>1
    <2>3. [s \in SUBSET S |-> IF s = {} THEN 0 ELSE Pick(s).total + g[s \ {Pick(s)}]] =
          [s \in SUBSET S |-> IF s = {} THEN 0 ELSE h[Pick(s)] + g[s \ {Pick(s)}]]
      BY <2>2
    <2>4. QED
      BY <2>3 DEF SumEq
  <1>3. (CHOOSE g : E(g)) = (CHOOSE g : SumEq(h, S, g))
    <2> HIDE DEF E
    <2>1. QED
      BY <1>2
  <1>4. SumOn(h, S) = SumOn(f, S)
    <2>1. \A r \in S : h[r] = f[r]
      OBVIOUS
    <2> HIDE DEF h
    <2>2. QED
      BY <2>1, SumSame
  <1>5. QED
    BY <1>1, <1>3, <1>4 DEF SumOn

CostNumbers(r) == r.llm \in Int /\ r.infra \in Int /\ r.external \in Int /\ r.total \in Int

LEMMA GroupNumbers ==
  ASSUME NEW S, IsFiniteSet(S), \A s \in S : CostNumbers(s)
  PROVE  /\ LlmCost(S) \in Int /\ InfraCost(S) \in Int
         /\ ExternalCost(S) \in Int /\ TotalCost(S) \in Int
  <1> DEFINE f == [s \in S |-> s.llm]
             h == [s \in S |-> s.infra]
             g == [s \in S |-> s.external]
             k == [s \in S |-> s.total]
  <1>1. /\ Numbers(f, S) /\ Numbers(h, S) /\ Numbers(g, S) /\ Numbers(k, S)
        /\ \A s \in S : /\ f[s] = s.llm /\ h[s] = s.infra
                       /\ g[s] = s.external /\ k[s] = s.total
    BY DEF Numbers, CostNumbers
  <1> HIDE DEF f, g, h, k
  <1>2. /\ LlmCost(S) = SumOn(f, S) /\ InfraCost(S) = SumOn(h, S)
        /\ ExternalCost(S) = SumOn(g, S) /\ TotalCost(S) = SumOn(k, S)
    BY <1>1, LlmIs, InfraIs, ExternalIs, TotalIs
  <1>3. QED
    BY <1>1, <1>2, SumNumber

LEMMA PricedNumbers ==
  ASSUME LedgerAssumption, NEW e \in Events
  PROVE  Priced(Sent[e]).llm \in Int /\ Priced(Sent[e]).external \in Int
  <1>1. PICK c : c = Sent[e]
    OBVIOUS
  <1>2. /\ c.given \in Int \cup {None} /\ c.tokens \in Nat /\ c.seconds \in Nat
        /\ c.external \in Int
        /\ {"tokens", "seconds", "given"} \subseteq DOMAIN c
        /\ IsFiniteSet(DOMAIN c.parts)
        /\ \A i \in DOMAIN c.parts : c.parts[i].tokens \in Nat
                                     /\ c.parts[i].given \in Int \cup {None}
    BY <1>1 DEF LedgerAssumption
  <1>3. CASE c.parts # <<>>
    <2>1. Priced(c) = TraceEvent(c.parts, {})
      BY <1>3 DEF Priced
    <2>2. PICK D : D = DOMAIN c.parts
      OBVIOUS
    <2>3. PICK f : f = [i \in D |-> ResolveModelCost(c.parts[i])]
      OBVIOUS
    <2>4. Numbers(f, D) /\ \A i \in D : f[i] = ResolveModelCost(c.parts[i])
      BY <1>2, <2>2, <2>3, ModelNumbers DEF Numbers
    <2>5. TraceEvent(c.parts, {}).llm = SumOn(f, D)
      BY <1>2, <2>2, <2>4, PartsLlmIs
    <2>6. SumOn(f, D) \in Int
      BY <1>2, <2>2, <2>4, SumNumber
    <2>7. QED
      BY <1>1, <2>1, <2>5, <2>6, NoToolsCost
  <1>4. CASE c.parts = <<>>
    <2>1. PICK n : n = [c EXCEPT !.given = ResolvePricing(c)]
      OBVIOUS
    <2>2. ResolvePricing(c) \in Int \cup {None} /\ EngineCost(c) \in Int /\ OldEngineCost(c) \in Int
      BY <1>2, EngineNumbers
    <2>3. n.given \in Int \cup {None} /\ n.tokens \in Nat /\ n.seconds \in Nat
      <3>1. n.given = ResolvePricing(c) /\ n.tokens = c.tokens /\ n.seconds = c.seconds
        BY <1>2, <2>1
      <3>2. QED
        BY <1>2, <2>2, <3>1
    <2>4. ControlCost(c) \in Int
      BY <2>1, <2>3, EngineNumbers DEF ControlCost
    <2>5. Priced(c).external = c.external
          /\ Priced(c).llm \in {ControlCost(c), OldEngineCost(c), EngineCost(c)}
      BY <1>4 DEF Priced
    <2>6. QED
      BY <1>1, <1>2, <2>2, <2>4, <2>5
  <1>5. QED
    BY <1>3, <1>4

NumbersInv ==
  /\ \A r \in store : CostNumbers(r)
  /\ \A s \in daily : CostNumbers(s)

LEMMA AddedNumbers ==
  ASSUME NEW s, SummaryRowOf(s), CostNumbers(s), NEW new, CostNumbers(new)
  PROVE  CostNumbers(Added(s, new))
  BY DEF Added, SummaryRowOf, SummaryColumns, CostNumbers

LEMMA IngestNumbers ==
  ASSUME LedgerAssumption, TypeInv, NumbersInv, NEW e \in Events, Ingest(e)
  PROVE  NumbersInv'
  <1>1. PICK r : r = Columns(e)
    OBVIOUS
  <1>2. PICK new : new = SummaryRow(r, r.completed)
    OBVIOUS
  <1>3. store' = store \cup {r}
    BY <1>1 DEF Ingest
  <1>4. CostNumbers(r)
    <2>1. PICK l, i, x : l = Priced(Sent[e]).llm /\ i = Sent[e].infra
                         /\ x = Priced(Sent[e]).external
      OBVIOUS
    <2>2. /\ r.llm = Rounded(l) /\ r.infra = Rounded(i) /\ r.external = Rounded(x)
          /\ r.total = Rounded(l + i + x)
      BY <1>1, <2>1 DEF Columns, CostSummary
    <2>3. l \in Int /\ i \in Int /\ x \in Int /\ l + i + x \in Int
      BY <2>1, PricedNumbers DEF LedgerAssumption
    <2>4. QED
      BY <2>2, <2>3, RoundedNear DEF CostNumbers
  <1>5. CostNumbers(new)
    BY <1>2, <1>4 DEF CostNumbers, SummaryRow
  <1>6. PICK keep, changed : Upserts(new, keep, changed)
    BY <1>1, <1>2, UpsertIs
  <1>7. keep \subseteq daily /\ daily' = keep \cup {changed}
    BY <1>6 DEF Upserts
  <1>8. CostNumbers(changed)
    <2>1. CASE changed = new
      BY <1>5, <2>1
    <2>2. ASSUME NEW s \in daily, changed = Added(s, new)
          PROVE  CostNumbers(changed)
      <3>1. SummaryRowOf(s) /\ CostNumbers(s)
        BY DEF TypeInv, TableTypes, NumbersInv
      <3>2. QED
        BY <1>5, <2>2, <3>1, AddedNumbers
    <2>3. QED
      BY <1>6, <2>1, <2>2 DEF Upserts
  <1>9. QED
    BY <1>3, <1>4, <1>7, <1>8 DEF NumbersInv

LEMMA RebuildNumbers ==
  ASSUME TypeInv, NumbersInv, RebuildDaily
  PROVE  NumbersInv'
  <1>1. /\ daily' = {s \in daily : s.day # today} \cup Rebuilt(RowsOfToday) /\ UNCHANGED store
    BY RebuildDailyIs
  <1>2. IsFiniteSet(RowsOfToday)
    BY RowsOfTodayTyped DEF TypeInv
  <1>3. \A q \in RowsOfToday : CostNumbers(q)
    <2> SUFFICES ASSUME NEW r \in OfToday
                 PROVE  CostNumbers(AsRow(r))
      BY DEF RowsOfToday
    <2>1. CostNumbers(r)
      BY DEF OfToday, NumbersInv
    <2>2. SameCosts(r, AsRow(r))
      BY DEF AsRow, SameCosts
    <2>3. QED
      BY <2>1, <2>2 DEF CostNumbers, SameCosts
  <1>4. ASSUME NEW q \in RowsOfToday
        PROVE  CostNumbers(Summed(RowsOfToday, q))
    <2>1. PICK G : G = Group(RowsOfToday, q)
      OBVIOUS
    <2>2. G \in SUBSET RowsOfToday
      BY <2>1 DEF Group
    <2>3. /\ LlmCost(G) \in Int /\ InfraCost(G) \in Int
          /\ ExternalCost(G) \in Int /\ TotalCost(G) \in Int
      BY <1>2, <1>3, <2>2, GroupNumbers, FS_Subset
    <2>4. /\ Summed(RowsOfToday, q).llm = LlmCost(G)
          /\ Summed(RowsOfToday, q).infra = InfraCost(G)
          /\ Summed(RowsOfToday, q).external = ExternalCost(G)
          /\ Summed(RowsOfToday, q).total = TotalCost(G)
      BY <2>1 DEF Summed, GroupRow
    <2>5. QED
      BY <2>3, <2>4 DEF CostNumbers
  <1>5. QED
    BY <1>1, <1>4 DEF NumbersInv, Rebuilt

LEMMA NumbersStep ==
  ASSUME LedgerAssumption, TypeInv, NumbersInv, [Next]_vars
  PROVE  NumbersInv'
  <1>1. ASSUME store' \subseteq store, daily' \subseteq daily
        PROVE  NumbersInv'
    BY <1>1 DEF NumbersInv
  <1>2. ASSUME NEW e \in Events, Ingest(e)
        PROVE  NumbersInv'
    BY <1>2, IngestNumbers
  <1>3. ASSUME NEW r \in store, Edits(r)
        PROVE  NumbersInv'
    <2>1. CASE DeleteEvent(r)
      BY <1>1, <2>1 DEF DeleteEvent
    <2>2. ASSUME NEW m, UpdateEvent(r, m)
          PROVE  NumbersInv'
      <3>1. PICK n : n = Updated(r, m)
        OBVIOUS
      <3>2. store' = (store \ {r}) \cup {n} /\ UNCHANGED daily
        BY <2>2, <3>1 DEF UpdateEvent
      <3>3. SameCosts(r, n)
        BY <3>1, UpdatedIs DEF TypeInv, TableTypes, EventRow
      <3>4. CostNumbers(n)
        BY <3>3 DEF NumbersInv, CostNumbers, SameCosts
      <3>5. QED
        BY <3>2, <3>4 DEF NumbersInv
    <2>3. QED
      BY <1>3, <2>1, <2>2 DEF Edits
  <1>4. CASE Administers
    BY <1>1, <1>4, AdministersDeletes
  <1>5. CASE RebuildMonthly \/ NextDay \/ UNCHANGED vars
    BY <1>1, <1>5 DEF RebuildMonthly, NextDay, vars
  <1>6. QED
    BY <1>2, <1>3, <1>4, <1>5, RebuildNumbers, StepKinds

-----------------------------------------------------------------------------
(* Costs *)

\* A model whose events all come priced from the catalogue and are not edited.
Faithful(m) ==
  /\ m \in DOMAIN Catalogue \ edited
  /\ \A e \in Events : Priced(Sent[e]).model = m => CataloguePriced(Sent[e])

\* What is stored of an event is what its sender's columns price, until it is edited.
StoredAsPriced ==
  \A r \in store : r.model \notin edited =>
    /\ r.model = Priced(Sent[r.event]).model /\ r.tokens = Priced(Sent[r.event]).tokens
    /\ r.llm = Rounded(Priced(Sent[r.event]).llm)

\* The stored total is the sum of the stored costs, but for the roundings of the four.
SplitInv == \A r \in store : Within(r.total, r.llm + r.infra + r.external, 2 * Scale)

\* A row's total without what is no token cost.
Net(s) == s.total - s.infra - s.external
EnforcedRow(s) ==
  Within(Net(s), s.tokens * Catalogue[s.tool], 3 * (Scale * s.events))

EnforcedInv ==
  /\ StoredAsPriced /\ SplitInv
  /\ \A s \in daily : Faithful(s.tool) => EnforcedRow(s)

LEMMA ScaleIs == Scale \in Nat \ {0}
  BY PricingAssumption DEF PricingAssumption

\* The cost engine prices it like the pages, directly or behind the control plane.
LEMMA PricedLikeShown ==
  ASSUME LedgerAssumption, NEW e \in Events, NEW m \in DOMAIN Catalogue,
         Priced(Sent[e]).model = m, CataloguePriced(Sent[e])
  PROVE  /\ Priced(Sent[e]).llm = Rounded(Priced(Sent[e]).tokens * Catalogue[m])
         /\ Priced(Sent[e]).tokens \in Nat
  <1>1. PICK c : c = Sent[e]
    OBVIOUS
  <1>2. /\ c.given = None /\ ~c.dec /\ c.parts = <<>> /\ c.tokens \in Nat
        /\ c.control => ResolvePricing(c) = None
        /\ {"model", "tokens", "given"} \subseteq DOMAIN c
    BY <1>1 DEF CataloguePriced, LedgerAssumption
  <1>3. /\ Priced(c).model = c.model /\ Priced(c).tokens = c.tokens
        /\ Priced(c).llm = IF c.control THEN ControlCost(c) ELSE EngineCost(c)
    BY <1>2 DEF Priced
  <1>4. c.model = m /\ Catalogue[m] \in Nat
    BY <1>1, <1>3, PricingAssumption DEF PricingAssumption
  <1>5. ASSUME NEW k, k.given = None, k.tokens = c.tokens, k.model = m
        PROVE  EngineCost(k) = Rounded(c.tokens * Catalogue[m])
    <2>1. CASE c.tokens = 0
      <3>1. c.tokens * Catalogue[m] = 0
        BY <1>4, <2>1
      <3>2. Rounded(0) = 0
        BY ScaleIs DEF Rounded, RoundedTo, HalfEven
      <3>3. EngineCost(k) = 0
        BY <1>5, <2>1 DEF EngineCost
      <3>4. QED
        BY <3>1, <3>2, <3>3
    <2>2. CASE c.tokens # 0
      BY <1>2, <1>4, <1>5, <2>2 DEF EngineCost
    <2>3. QED
      BY <2>1, <2>2
  <1>6. CASE ~c.control
    BY <1>1, <1>2, <1>3, <1>4, <1>5, <1>6
  <1>7. CASE c.control
    <2>1. PICK k : k = [c EXCEPT !.given = None]
      OBVIOUS
    <2>2. k.given = None /\ k.tokens = c.tokens /\ k.model = c.model
      BY <1>2, <2>1
    <2>3. ControlCost(c) = EngineCost(k)
      BY <1>2, <1>7, <2>1 DEF ControlCost
    <2>4. QED
      BY <1>1, <1>2, <1>3, <1>4, <1>5, <1>7, <2>2, <2>3
  <1>8. QED
    BY <1>6, <1>7

\* Rounded by the engine and again with its total, a catalogue event's stored token
\* cost is a unit away from what its tokens cost at most.
LEMMA CatalogueNear ==
  ASSUME NEW llm, NEW tokens \in Nat, NEW m \in DOMAIN Catalogue,
         llm = Rounded(Rounded(tokens * Catalogue[m]))
  PROVE  llm \in Int /\ tokens * Catalogue[m] \in Nat /\ Within(llm, tokens * Catalogue[m], Scale)
  <1>1. PICK x \in Nat : x = tokens * Catalogue[m]
    BY PricingAssumption DEF PricingAssumption
  <1>2. PICK y \in Int : y = Rounded(x)
    BY RoundedNear
  <1>3. llm \in Int /\ 2 * llm - 2 * y <= Scale /\ 2 * y - 2 * llm <= Scale
    BY <1>1, <1>2, RoundedNear
  <1>4. 2 * y - 2 * x <= Scale /\ 2 * x - 2 * y <= Scale
    BY <1>2, RoundedNear
  <1>5. QED
    BY <1>1, <1>3, <1>4, ScaleIs DEF Within

LEMMA ColumnsPriced ==
  ASSUME LedgerAssumption, NEW e \in Events, NEW r, r = Columns(e)
  PROVE  /\ r.model = Priced(Sent[e]).model /\ r.tokens = Priced(Sent[e]).tokens
         /\ r.llm = Rounded(Priced(Sent[e]).llm)
         /\ CostNumbers(r) /\ Within(r.total, r.llm + r.infra + r.external, 2 * Scale)
  <1>1. PICK q : q = Priced(Sent[e])
    OBVIOUS
  <1>2. PICK infra : infra = Sent[e].infra
    OBVIOUS
  <1>3. /\ r.model = q.model /\ r.tokens = q.tokens
        /\ r.llm = Rounded(q.llm) /\ r.infra = Rounded(infra) /\ r.external = Rounded(q.external)
        /\ r.total = Rounded(q.llm + infra + q.external)
    BY <1>1, <1>2 DEF Columns, CostSummary
  <1>4. PICK l \in Int, i \in Int, x \in Int : l = q.llm /\ i = infra /\ x = q.external
    BY <1>1, <1>2, PricedNumbers DEF LedgerAssumption
  <1>5. /\ r.llm \in Int /\ r.infra \in Int /\ r.external \in Int /\ r.total \in Int
        /\ 2 * r.llm - 2 * l <= Scale /\ 2 * l - 2 * r.llm <= Scale
        /\ 2 * r.infra - 2 * i <= Scale /\ 2 * i - 2 * r.infra <= Scale
        /\ 2 * r.external - 2 * x <= Scale /\ 2 * x - 2 * r.external <= Scale
        /\ 2 * r.total - 2 * (l + i + x) <= Scale /\ 2 * (l + i + x) - 2 * r.total <= Scale
    <2>1. PICK all \in Int : all = l + i + x
      OBVIOUS
    <2>2. /\ r.llm = Rounded(l) /\ r.infra = Rounded(i) /\ r.external = Rounded(x)
          /\ r.total = Rounded(all)
      BY <1>3, <1>4, <2>1
    <2>3. QED
      BY <2>1, <2>2, RoundedNear
  <1>6. Within(r.total, r.llm + r.infra + r.external, 2 * Scale)
    <2>1. PICK a \in Int, b \in Int, c \in Int, t \in Int :
                 a = r.llm /\ b = r.infra /\ c = r.external /\ t = r.total
      BY <1>5
    <2>2. /\ 2 * a - 2 * l <= Scale /\ 2 * l - 2 * a <= Scale
          /\ 2 * b - 2 * i <= Scale /\ 2 * i - 2 * b <= Scale
          /\ 2 * c - 2 * x <= Scale /\ 2 * x - 2 * c <= Scale
          /\ 2 * t - 2 * (l + i + x) <= Scale /\ 2 * (l + i + x) - 2 * t <= Scale
      BY <1>5, <2>1
    <2>3. t - (a + b + c) <= 2 * Scale /\ a + b + c - t <= 2 * Scale
      BY <2>2, ScaleIs
    <2>4. QED
      BY <2>1, <2>3 DEF Within
  <1>7. QED
    BY <1>1, <1>3, <1>5, <1>6 DEF CostNumbers

\* An event of a faithful model: its total without the rest is its tokens' cost.
LEMMA NetNear ==
  ASSUME NEW r, CostNumbers(r), r.tokens \in Nat, NEW m \in DOMAIN Catalogue,
         Within(r.llm, r.tokens * Catalogue[m], Scale),
         Within(r.total, r.llm + r.infra + r.external, 2 * Scale)
  PROVE  Within(Net(r), r.tokens * Catalogue[m], 3 * Scale)
  <1>1. PICK x \in Nat : x = r.tokens * Catalogue[m]
    BY PricingAssumption DEF PricingAssumption
  <1>2. QED
    BY <1>1, ScaleIs DEF Within, Net, CostNumbers

LEMMA StoredLikeShown ==
  ASSUME LedgerAssumption, TypeInv, StoredAsPriced,
         NEW r \in store, r.model \in DOMAIN Catalogue \ edited,
         CataloguePriced(Sent[r.event])
  PROVE  Within(r.llm, r.tokens * Catalogue[r.model], Scale)
  <1>1. r.event \in Events
    BY DEF TypeInv, TableTypes, EventRow
  <1>2. /\ r.model = Priced(Sent[r.event]).model /\ r.tokens = Priced(Sent[r.event]).tokens
        /\ r.llm = Rounded(Priced(Sent[r.event]).llm)
    BY DEF StoredAsPriced
  <1>3. PICK m \in DOMAIN Catalogue : m = r.model
    OBVIOUS
  <1>4. /\ Priced(Sent[r.event]).llm = Rounded(r.tokens * Catalogue[m]) /\ r.tokens \in Nat
    BY <1>1, <1>2, <1>3, PricedLikeShown
  <1>5. QED
    BY <1>2, <1>3, <1>4, CatalogueNear

LEMMA FaithfulNet ==
  ASSUME LedgerAssumption, TypeInv, NumbersInv, EnforcedInv, NEW r \in store, Faithful(r.model)
  PROVE  Within(Net(r), r.tokens * Catalogue[r.model], 3 * Scale)
  <1>1. r.event \in Events /\ r.tokens \in Nat /\ CostNumbers(r)
    BY DEF TypeInv, TableTypes, EventRow, NumbersInv
  <1>2. r.model \in DOMAIN Catalogue \ edited /\ r.model = Priced(Sent[r.event]).model
    BY DEF StoredAsPriced, EnforcedInv, Faithful
  <1>3. CataloguePriced(Sent[r.event])
    BY <1>1, <1>2 DEF Faithful
  <1>4. Within(r.llm, r.tokens * Catalogue[r.model], Scale)
    BY <1>2, <1>3, StoredLikeShown DEF EnforcedInv
  <1>5. QED
    BY <1>1, <1>2, <1>4, NetNear DEF EnforcedInv, SplitInv

LEMMA GrownEnforced ==
  ASSUME NEW s, NEW new, NEW changed, NEW m \in DOMAIN Catalogue,
         s.tool = m, new.tool = m, changed.tool = m, CostsAdd(changed, s, new),
         changed.events = s.events + new.events, changed.tokens = s.tokens + new.tokens,
         s.events \in Nat, new.events \in Nat, s.tokens \in Nat, new.tokens \in Nat,
         CostNumbers(s), CostNumbers(new), EnforcedRow(s), EnforcedRow(new)
  PROVE  EnforcedRow(changed)
  <1>1. Catalogue[m] \in Nat
    BY PricingAssumption DEF PricingAssumption
  <1>2. PICK x \in Nat, y \in Nat : x = s.tokens * Catalogue[m] /\ y = new.tokens * Catalogue[m]
    <2>1. \A a, b \in Nat : a * b \in Nat
      OBVIOUS
    <2>2. QED
      BY <1>1, <2>1
  <1>3. PICK k \in Nat, n \in Nat : k = Scale * s.events /\ n = Scale * new.events
    BY ScaleIs
  <1>4. changed.tokens * Catalogue[m] = x + y /\ Scale * changed.events = k + n
    <2>1. \A a, b, c \in Nat : (a + b) * c = a * c + b * c /\ c * (a + b) = c * a + c * b
      OBVIOUS
    <2>2. QED
      BY <1>1, <1>2, <1>3, <2>1, ScaleIs
  <1>5. Net(changed) = Net(s) + Net(new) /\ Net(s) \in Int /\ Net(new) \in Int
    BY DEF Net, CostsAdd, CostNumbers
  <1>6. Within(Net(s), x, 3 * k) /\ Within(Net(new), y, 3 * n)
    BY <1>2, <1>3 DEF EnforcedRow
  <1>7. Within(Net(changed), x + y, 3 * (k + n))
    BY <1>5, <1>6 DEF Within
  <1>8. QED
    BY <1>4, <1>7 DEF EnforcedRow

LEMMA IngestEnforced ==
  ASSUME LedgerAssumption, TypeInv, NumbersInv, EnforcedInv, NEW e \in Events, Ingest(e)
  PROVE  EnforcedInv'
  <1>1. PICK r : r = Columns(e)
    OBVIOUS
  <1>2. PICK new : new = SummaryRow(r, r.completed)
    OBVIOUS
  <1>3. /\ SummaryRowOf(new) /\ new.day \in Days /\ r.event = e /\ EventRow(r)
        /\ new.tool = r.model /\ new.tokens = r.tokens /\ new.events = 1 /\ SameCosts(r, new)
    BY <1>1, <1>2, NewRows
  <1>4. store' = store \cup {r} /\ UNCHANGED edited
    BY <1>1 DEF Ingest
  <1>5. PICK keep, changed : Upserts(new, keep, changed)
    BY <1>1, <1>2, UpsertIs
  <1>6. keep \in SUBSET daily /\ daily' = keep \cup {changed} /\ SameKey(changed, new)
    BY <1>5 DEF Upserts
  <1>7. \/ keep = daily /\ changed = new
        \/ \E s \in daily : keep = daily \ {s} /\ GrownFrom(s, new, changed)
    BY <1>3, <1>5, ChangedIs
  <1>8. /\ r.model = Priced(Sent[e]).model /\ r.tokens = Priced(Sent[e]).tokens
        /\ r.llm = Rounded(Priced(Sent[e]).llm)
        /\ CostNumbers(r) /\ Within(r.total, r.llm + r.infra + r.external, 2 * Scale)
    BY <1>1, ColumnsPriced
  <1>9. StoredAsPriced' /\ SplitInv'
    BY <1>3, <1>4, <1>8 DEF EnforcedInv, StoredAsPriced, SplitInv
  <1>10. ASSUME Faithful(changed.tool)
         PROVE  EnforcedRow(changed)
    <2>1. PICK m : m = changed.tool
      OBVIOUS
    <2>2. new.tool = m
      BY <1>6, <2>1 DEF SameKey
    <2>3. m \in DOMAIN Catalogue /\ CataloguePriced(Sent[e])
      BY <1>3, <1>8, <1>10, <2>1, <2>2 DEF Faithful
    <2>4. r.llm = Rounded(Rounded(r.tokens * Catalogue[m])) /\ r.tokens \in Nat
      BY <1>3, <1>8, <2>2, <2>3, PricedLikeShown
    <2>5. Within(Net(r), r.tokens * Catalogue[m], 3 * Scale)
      BY <1>8, <2>3, <2>4, CatalogueNear, NetNear
    <2>6. EnforcedRow(new)
      <3>1. Net(new) = Net(r)
        BY <1>3 DEF Net, SameCosts
      <3>2. Scale * new.events = Scale
        BY <1>3, ScaleIs
      <3>3. QED
        BY <1>3, <2>2, <2>5, <3>1, <3>2 DEF EnforcedRow
    <2>7. CASE changed = new
      BY <2>6, <2>7
    <2>8. ASSUME NEW s \in daily, GrownFrom(s, new, changed)
          PROVE  EnforcedRow(changed)
      <3>1. /\ s.tool = m /\ changed.tokens = s.tokens + new.tokens
            /\ changed.events = s.events + new.events /\ CostsAdd(changed, s, new)
        BY <2>2, <2>8 DEF GrownFrom, SameKey
      <3>2. EnforcedRow(s)
        BY <1>10, <2>1, <3>1 DEF EnforcedInv
      <3>3. /\ s.tokens \in Nat /\ new.tokens \in Nat /\ s.events \in Nat /\ new.events \in Nat
        BY <1>3 DEF SummaryRowOf, TypeInv, TableTypes
      <3>4. CostNumbers(s) /\ CostNumbers(new)
        BY <1>3, <1>8 DEF NumbersInv, CostNumbers, SameCosts
      <3>5. QED
        BY <2>1, <2>2, <2>3, <2>6, <3>1, <3>2, <3>3, <3>4, GrownEnforced
    <2>9. QED
      BY <1>7, <2>7, <2>8
  <1>11. QED
    <2>1. \A m : Faithful(m)' <=> Faithful(m)
      BY <1>4 DEF Faithful
    <2>2. ASSUME NEW s \in daily', Faithful(s.tool)
          PROVE  EnforcedRow(s)
      BY <1>6, <1>10, <2>2 DEF EnforcedInv
    <2>3. QED
      BY <1>9, <2>1, <2>2 DEF EnforcedInv

\* A group of one faithful model costs what its tokens cost.
LEMMA GroupEnforced ==
  ASSUME LedgerAssumption, TypeInv, NumbersInv, EnforcedInv,
         NEW q \in RowsOfToday, Faithful(q.tool), NEW G, G = Group(RowsOfToday, q)
  PROVE  Within(TotalCost(G) - InfraCost(G) - ExternalCost(G), Tokens(G) * Catalogue[q.tool],
                3 * (Scale * Count(G)))
  <1>1. IsFiniteSet(G) /\ \A s \in G : s.tokens \in Nat /\ s.events = 1
    <2>1. IsFiniteSet(RowsOfToday) /\ \A s \in RowsOfToday : s.tokens \in Nat /\ s.events = 1
      BY RowsOfTodayTyped DEF TypeInv
    <2>2. QED
      BY <2>1, FS_Subset DEF Group
  <1>2. PICK rate \in Nat : rate = Catalogue[q.tool]
    BY PricingAssumption DEF Faithful, PricingAssumption
  <1>3. q.tool \in DOMAIN Catalogue /\ q.tool # Unknown
    BY DEF Faithful, LedgerAssumption
  <1>4. ASSUME NEW s \in G
        PROVE  CostNumbers(s) /\ Within(Net(s), s.tokens * rate, 3 * Scale)
    <2>1. s \in RowsOfToday /\ s.tool = q.tool
      BY DEF Group
    <2>2. PICK r \in OfToday : s = AsRow(r)
      BY <2>1 DEF RowsOfToday
    <2>3. r \in store /\ EventRow(r) /\ CostNumbers(r)
      BY DEF OfToday, TypeInv, TableTypes, NumbersInv
    <2>4. s.tool = ToolName(r.model) /\ s.tokens = r.tokens /\ SameCosts(r, s)
      BY <2>2, <2>3, AsRowIs
    <2>5. r.model = q.tool
      BY <1>3, <2>1, <2>4 DEF ToolName
    <2>6. Within(Net(r), r.tokens * Catalogue[r.model], 3 * Scale)
      BY <2>3, <2>5, FaithfulNet
    <2>7. Net(s) = Net(r) /\ CostNumbers(s)
      BY <2>3, <2>4 DEF Net, SameCosts, CostNumbers
    <2>8. QED
      BY <1>2, <2>4, <2>5, <2>6, <2>7
  <1> DEFINE t == [s \in G |-> s.total]
             i == [s \in G |-> s.infra]
             x == [s \in G |-> s.external]
             k == [s \in G |-> s.tokens]
             c == [s \in G |-> s.tokens * rate]
             v == [s \in G |-> s.events]
             n == [s \in G |-> s.events * (3 * Scale)]
  <1>5. \A s \in G : /\ t[s] = s.total /\ i[s] = s.infra /\ x[s] = s.external
                     /\ k[s] = s.tokens /\ c[s] = k[s] * rate
                     /\ v[s] = s.events /\ n[s] = v[s] * (3 * Scale)
    OBVIOUS
  <1>6. /\ Numbers(t, G) /\ Numbers(i, G) /\ Numbers(x, G) /\ Numbers(c, G) /\ Numbers(n, G)
        /\ Whole(k, G) /\ Whole(v, G)
    <2>1. \A s \in G : s.tokens * rate \in Int
      BY <1>1, <1>2
    <2>2. \A s \in G : s.events * (3 * Scale) \in Int
      BY <1>1, ScaleIs
    <2>3. QED
      BY <1>1, <1>4, <2>1, <2>2 DEF Numbers, Whole, CostNumbers
  <1>7. \A s \in G : /\ t[s] - (c[s] + i[s] + x[s]) <= n[s]
                     /\ c[s] + i[s] + x[s] - t[s] <= n[s]
    <2> SUFFICES ASSUME NEW s \in G
                 PROVE  /\ t[s] - (c[s] + i[s] + x[s]) <= n[s]
                        /\ c[s] + i[s] + x[s] - t[s] <= n[s]
      OBVIOUS
    <2>1. PICK y \in Nat : y = s.tokens * rate
      BY <1>1, <1>2
    <2>2. n[s] = 3 * Scale
      BY <1>1, ScaleIs
    <2>3. /\ s.total \in Int /\ s.infra \in Int /\ s.external \in Int
          /\ s.total - s.infra - s.external - y <= 3 * Scale
          /\ y - (s.total - s.infra - s.external) <= 3 * Scale
      BY <1>4, <2>1 DEF Within, Net, CostNumbers
    <2>4. c[s] = y /\ t[s] = s.total /\ i[s] = s.infra /\ x[s] = s.external
      BY <2>1
    <2> HIDE DEF t, i, x, c, n
    <2>5. QED
      BY <2>2, <2>3, <2>4, ScaleIs
  <1> HIDE DEF t, i, x, k, c, v, n
  <1>8. /\ TotalCost(G) = SumOn(t, G) /\ InfraCost(G) = SumOn(i, G)
        /\ ExternalCost(G) = SumOn(x, G) /\ Tokens(G) = SumOn(k, G) /\ Count(G) = SumOn(v, G)
    BY <1>1, <1>5, TotalIs, InfraIs, ExternalIs, TokensIs, CountIs
  <1>9. SumOn(c, G) = SumOn(k, G) * rate
    BY <1>1, <1>5, <1>6, SumScaled
  <1>10. SumOn(n, G) = SumOn(v, G) * (3 * Scale)
    BY <1>1, <1>5, <1>6, SumScaled, ScaleIs
  <1>11. /\ SumOn(t, G) - (SumOn(c, G) + SumOn(i, G) + SumOn(x, G)) <= SumOn(n, G)
         /\ SumOn(c, G) + SumOn(i, G) + SumOn(x, G) - SumOn(t, G) <= SumOn(n, G)
    BY <1>1, <1>6, <1>7, SumApart
  <1>12. /\ SumOn(t, G) \in Int /\ SumOn(c, G) \in Int /\ SumOn(i, G) \in Int
         /\ SumOn(x, G) \in Int /\ SumOn(v, G) \in Nat
    BY <1>1, <1>6, SumNumber, SumWhole
  <1>13. SumOn(n, G) = 3 * (Scale * SumOn(v, G))
    <2>1. \A a, b \in Nat : a * (3 * b) = 3 * (b * a)
      OBVIOUS
    <2>2. QED
      BY <1>10, <1>12, <2>1, ScaleIs
  <1>14. Scale * SumOn(v, G) \in Nat
    BY <1>12, ScaleIs
  <1>15. Within(SumOn(t, G) - SumOn(i, G) - SumOn(x, G), SumOn(c, G), 3 * (Scale * SumOn(v, G)))
    BY <1>11, <1>12, <1>13, <1>14 DEF Within
  <1>16. QED
    BY <1>2, <1>8, <1>9, <1>15

LEMMA RebuildEnforced ==
  ASSUME LedgerAssumption, TypeInv, NumbersInv, EnforcedInv, RebuildDaily
  PROVE  EnforcedInv'
  <1>1. /\ daily' = {s \in daily : s.day # today} \cup Rebuilt(RowsOfToday)
        /\ UNCHANGED <<store, edited>>
    BY RebuildDailyIs
  <1>2. \A m : Faithful(m)' <=> Faithful(m)
    BY <1>1 DEF Faithful
  <1>3. ASSUME NEW q \in RowsOfToday, NEW s, s = Summed(RowsOfToday, q), Faithful(s.tool)
        PROVE  EnforcedRow(s)
    <2>1. PICK G : G = Group(RowsOfToday, q)
      OBVIOUS
    <2>2. /\ s.tool = q.tool /\ s.total = TotalCost(G) /\ s.infra = InfraCost(G)
          /\ s.external = ExternalCost(G) /\ s.tokens = Tokens(G) /\ s.events = Count(G)
      BY <1>3, <2>1 DEF Summed, GroupRow
    <2>3. QED
      BY <1>3, <2>1, <2>2, GroupEnforced DEF EnforcedRow, Net
  <1>4. ASSUME NEW s \in daily', Faithful(s.tool)
        PROVE  EnforcedRow(s)
    BY <1>1, <1>3, <1>4 DEF EnforcedInv, Rebuilt
  <1>5. QED
    BY <1>1, <1>2, <1>4 DEF EnforcedInv, StoredAsPriced, SplitInv

\* An edit takes the models it concerns out of the claim.
LEMMA EditEnforced ==
  ASSUME TypeInv, EnforcedInv, NEW r \in store, Edits(r)
  PROVE  EnforcedInv'
  <1>1. /\ UNCHANGED daily /\ edited \subseteq edited'
        /\ \/ store' = store \ {r}
           \/ \E m : store' = (store \ {r}) \cup {Updated(r, m)} /\ m \in edited'
    BY DEF Edits, DeleteEvent, UpdateEvent
  <1>2. \A m : Faithful(m)' => Faithful(m)
    BY <1>1 DEF Faithful
  <1>3. StoredAsPriced' /\ SplitInv'
    <2>1. CASE store' = store \ {r}
      BY <1>1, <2>1 DEF EnforcedInv, StoredAsPriced, SplitInv
    <2>2. ASSUME NEW m, store' = (store \ {r}) \cup {Updated(r, m)}, m \in edited'
          PROVE  StoredAsPriced' /\ SplitInv'
      <3>1. PICK n : n = Updated(r, m)
        OBVIOUS
      <3>2. n.model = m /\ SameCosts(r, n)
        <4>1. DOMAIN r = EventColumns
          BY DEF TypeInv, TableTypes, EventRow
        <4>2. QED
          BY <3>1, <4>1, UpdatedIs
      <3>3. StoredAsPriced'
        BY <1>1, <2>2, <3>1, <3>2 DEF EnforcedInv, StoredAsPriced
      <3>4. SplitInv'
        BY <2>2, <3>1, <3>2 DEF EnforcedInv, SplitInv, SameCosts
      <3>5. QED
        BY <3>3, <3>4
    <2>3. QED
      BY <1>1, <2>1, <2>2
  <1>4. QED
    BY <1>1, <1>2, <1>3 DEF EnforcedInv

LEMMA EnforcedStep ==
  ASSUME LedgerAssumption, TypeInv, NumbersInv, EnforcedInv, [Next]_vars
  PROVE  EnforcedInv'
  <1>1. ASSUME store' \subseteq store, daily' \subseteq daily, UNCHANGED edited
        PROVE  EnforcedInv'
    BY <1>1 DEF EnforcedInv, StoredAsPriced, SplitInv, Faithful
  <1>2. ASSUME NEW e \in Events, Ingest(e)
        PROVE  EnforcedInv'
    BY <1>2, IngestEnforced
  <1>3. ASSUME NEW r \in store, Edits(r)
        PROVE  EnforcedInv'
    BY <1>3, EditEnforced
  <1>4. CASE Administers
    BY <1>1, <1>4, AdministersDeletes
  <1>5. CASE RebuildMonthly \/ NextDay \/ UNCHANGED vars
    BY <1>1, <1>5 DEF RebuildMonthly, NextDay, vars
  <1>6. QED
    BY <1>2, <1>3, <1>4, <1>5, RebuildEnforced, StepKinds

\* A line is rounded once more when it is shown.
LEMMA EnforcedIsShown ==
  ASSUME TypeInv, NumbersInv, NEW s \in daily, s.tool \in DOMAIN Catalogue, EnforcedRow(s)
  PROVE  Within(s.total - s.infra - s.external, CalculateTokenCost(s.tool, s.tokens),
                Scale * (3 * s.events + 1))
  <1>1. s.events \in Nat /\ s.tokens \in Nat
    BY DEF TypeInv, TableTypes, SummaryRowOf
  <1>2. PICK x \in Nat : x = s.tokens * Catalogue[s.tool] /\ x = s.tokens * Rate(s.tool)
    BY <1>1, RateIs, PricingAssumption DEF PricingAssumption
  <1>3. PICK shown \in Int : shown = CalculateTokenCost(s.tool, s.tokens)
    BY <1>1, CostNear
  <1>4. 2 * shown - 2 * x <= Scale /\ 2 * x - 2 * shown <= Scale
    BY <1>1, <1>2, <1>3, CostNear
  <1>5. PICK k \in Nat : k = Scale * s.events
    BY <1>1, ScaleIs
  <1>6. Scale * (3 * s.events + 1) = 3 * k + Scale
    <2>1. \A a, b \in Nat : a * (3 * b + 1) = 3 * (a * b) + a
      OBVIOUS
    <2>2. QED
      BY <1>1, <1>5, <2>1, ScaleIs
  <1>7. PICK net \in Int : net = s.total - s.infra - s.external
    BY DEF NumbersInv, CostNumbers
  <1>8. Within(net, x, 3 * k)
    BY <1>2, <1>5, <1>7 DEF EnforcedRow, Net
  <1>9. Within(net, shown, 3 * k + Scale)
    BY <1>4, <1>8, ScaleIs DEF Within
  <1>10. QED
    BY <1>3, <1>6, <1>7, <1>9

\* The cost budgets are enforced on is the cost the dashboards show, but for the
\* roundings of each event and of each line, for a catalogue model whose events came
\* without a cost of their own and were not edited, whatever the catalogue, the
\* provider and tool prices, the increments and the rebuilds.
THEOREM CostIsEnforcedAsShown == Spec => []EnforcedAsShown
  <1>1. Init => TypeInv
    BY TypeInit, LedgerAssumption
  <1>2. Init => NumbersInv /\ EnforcedInv
    BY DEF Init, NumbersInv, EnforcedInv, StoredAsPriced, SplitInv
  <1>3. TypeInv /\ [Next]_vars => TypeInv'
    BY TypeStep, LedgerAssumption
  <1>4. TypeInv /\ NumbersInv /\ [Next]_vars => NumbersInv'
    BY NumbersStep, LedgerAssumption
  <1>5. TypeInv /\ NumbersInv /\ EnforcedInv /\ [Next]_vars => EnforcedInv'
    BY EnforcedStep, LedgerAssumption
  <1>6. TypeInv /\ NumbersInv /\ EnforcedInv => EnforcedAsShown
    BY EnforcedIsShown DEF EnforcedInv, EnforcedAsShown, Faithful
  <1>7. QED
    BY <1>1, <1>2, <1>3, <1>4, <1>5, <1>6, PTL DEF Spec

-----------------------------------------------------------------------------
(* Pages over events: each is a cut of its rows by a key. *)

Tokened(S) == IsFiniteSet(S) /\ \A r \in S : r.tokens \in Nat
Cut(S, key) ==
  [k \in KeysOf(key, S) |->
     [events |-> Cardinality(WithKey(key, S, k)), tokens |-> Tokens(WithKey(key, S, k)),
      cost |-> Shown(WithKey(key, S, k))]]

\* What each sum adds up, with any function that has the values.
LEMMA ExactIs ==
  ASSUME NEW S, IsFiniteSet(S),
         NEW f, \A r \in S : f[r] = r.tokens * Rate(r.model)
  PROVE  Exact(S) = SumOn(f, S)
  <1> DEFINE Cost(r) == r.tokens * Rate(r.model)
             h == [r \in S |-> Cost(r)]
             E(g) == g = [s \in SUBSET S |-> IF s = {} THEN 0
                                             ELSE Cost(Pick(s)) + g[s \ {Pick(s)}]]
  <1>1. Exact(S) = (CHOOSE g : E(g))[S]
    BY DEF Exact, Total, MapThenSumSet, MapThenFoldSet, Pick
  <1>2. \A g : E(g) <=> SumEq(h, S, g)
    <2> TAKE g
    <2>1. \A s \in SUBSET S : s # {} => Pick(s) \in S
      BY DEF Pick
    <2>2. \A s \in SUBSET S : (IF s = {} THEN 0 ELSE Cost(Pick(s)) + g[s \ {Pick(s)}])
                             = (IF s = {} THEN 0 ELSE h[Pick(s)] + g[s \ {Pick(s)}])
      BY <2>1
    <2>3. [s \in SUBSET S |-> IF s = {} THEN 0 ELSE Cost(Pick(s)) + g[s \ {Pick(s)}]] =
          [s \in SUBSET S |-> IF s = {} THEN 0 ELSE h[Pick(s)] + g[s \ {Pick(s)}]]
      BY <2>2
    <2>4. QED
      BY <2>3 DEF SumEq
  <1>3. (CHOOSE g : E(g)) = (CHOOSE g : SumEq(h, S, g))
    <2> HIDE DEF E
    <2>1. QED
      BY <1>2
  <1>4. SumOn(h, S) = SumOn(f, S)
    <2>1. \A r \in S : h[r] = f[r]
      OBVIOUS
    <2> HIDE DEF h
    <2>2. QED
      BY <2>1, SumSame
  <1>5. QED
    BY <1>1, <1>3, <1>4 DEF SumOn

LEMMA ShownIs ==
  ASSUME NEW S, NEW D, D = {r.model : r \in S}, IsFiniteSet(D),
         NEW f, \A m \in D : f[m] = CalculateTokenCost(m, Tokens({r \in S : r.model = m}))
  PROVE  Shown(S) = SumOn(f, D)
  <1> DEFINE Cost(m) == CalculateTokenCost(m, Tokens({r \in S : r.model = m}))
             h == [m \in D |-> Cost(m)]
             E(g) == g = [s \in SUBSET D |-> IF s = {} THEN 0
                                             ELSE Cost(Pick(s)) + g[s \ {Pick(s)}]]
  <1>1. Shown(S) = (CHOOSE g : E(g))[D]
    BY DEF Shown, Total, MapThenSumSet, MapThenFoldSet, Pick
  <1>2. \A g : E(g) <=> SumEq(h, D, g)
    <2> TAKE g
    <2>1. \A s \in SUBSET D : s # {} => Pick(s) \in D
      BY DEF Pick
    <2>2. \A s \in SUBSET D : (IF s = {} THEN 0 ELSE Cost(Pick(s)) + g[s \ {Pick(s)}])
                             = (IF s = {} THEN 0 ELSE h[Pick(s)] + g[s \ {Pick(s)}])
      BY <2>1
    <2>3. [s \in SUBSET D |-> IF s = {} THEN 0 ELSE Cost(Pick(s)) + g[s \ {Pick(s)}]] =
          [s \in SUBSET D |-> IF s = {} THEN 0 ELSE h[Pick(s)] + g[s \ {Pick(s)}]]
      BY <2>2
    <2>4. QED
      BY <2>3 DEF SumEq
  <1>3. (CHOOSE g : E(g)) = (CHOOSE g : SumEq(h, D, g))
    <2> HIDE DEF E
    <2>1. QED
      BY <1>2
  <1>4. SumOn(h, D) = SumOn(f, D)
    <2>1. \A m \in D : h[m] = f[m]
      OBVIOUS
    <2> HIDE DEF h
    <2>2. QED
      BY <2>1, SumSame
  <1>5. QED
    BY <1>1, <1>3, <1>4 DEF SumOn

LEMMA ShownEachIs ==
  ASSUME NEW S, IsFiniteSet(S),
         NEW f, \A r \in S : f[r] = CalculateTokenCost(r.model, r.tokens)
  PROVE  ShownEach(S) = SumOn(f, S)
  <1> DEFINE Cost(r) == CalculateTokenCost(r.model, r.tokens)
             h == [r \in S |-> Cost(r)]
             E(g) == g = [s \in SUBSET S |-> IF s = {} THEN 0
                                             ELSE Cost(Pick(s)) + g[s \ {Pick(s)}]]
  <1>1. ShownEach(S) = (CHOOSE g : E(g))[S]
    BY DEF ShownEach, Total, MapThenSumSet, MapThenFoldSet, Pick
  <1>2. \A g : E(g) <=> SumEq(h, S, g)
    <2> TAKE g
    <2>1. \A s \in SUBSET S : s # {} => Pick(s) \in S
      BY DEF Pick
    <2>2. \A s \in SUBSET S : (IF s = {} THEN 0 ELSE Cost(Pick(s)) + g[s \ {Pick(s)}])
                             = (IF s = {} THEN 0 ELSE h[Pick(s)] + g[s \ {Pick(s)}])
      BY <2>1
    <2>3. [s \in SUBSET S |-> IF s = {} THEN 0 ELSE Cost(Pick(s)) + g[s \ {Pick(s)}]] =
          [s \in SUBSET S |-> IF s = {} THEN 0 ELSE h[Pick(s)] + g[s \ {Pick(s)}]]
      BY <2>2
    <2>4. QED
      BY <2>3 DEF SumEq
  <1>3. (CHOOSE g : E(g)) = (CHOOSE g : SumEq(h, S, g))
    <2> HIDE DEF E
    <2>1. QED
      BY <1>2
  <1>4. SumOn(h, S) = SumOn(f, S)
    <2>1. \A r \in S : h[r] = f[r]
      OBVIOUS
    <2> HIDE DEF h
    <2>2. QED
      BY <2>1, SumSame
  <1>5. QED
    BY <1>1, <1>3, <1>4 DEF SumOn

LEMMA ShownByOrgIs ==
  ASSUME NEW S, NEW key, key = [r \in S |-> r.org], NEW D, D = KeysOf(key, S), IsFiniteSet(D),
         NEW f, \A o \in D : f[o] = Shown(WithKey(key, S, o))
  PROVE  ShownByOrg(S) = SumOn(f, D)
  <1> DEFINE Cost(o) == Shown({r \in S : r.org = o})
             h == [o \in D |-> Cost(o)]
             E(g) == g = [s \in SUBSET D |-> IF s = {} THEN 0
                                             ELSE Cost(Pick(s)) + g[s \ {Pick(s)}]]
  <1>1. ShownByOrg(S) = (CHOOSE g : E(g))[D]
    <2>1. D = {r.org : r \in S}
      BY DEF KeysOf
    <2>2. QED
      BY <2>1 DEF ShownByOrg, Total, MapThenSumSet, MapThenFoldSet, Pick
  <1>2. \A g : E(g) <=> SumEq(h, D, g)
    <2> TAKE g
    <2>1. \A s \in SUBSET D : s # {} => Pick(s) \in D
      BY DEF Pick
    <2>2. \A s \in SUBSET D : (IF s = {} THEN 0 ELSE Cost(Pick(s)) + g[s \ {Pick(s)}])
                             = (IF s = {} THEN 0 ELSE h[Pick(s)] + g[s \ {Pick(s)}])
      BY <2>1
    <2>3. [s \in SUBSET D |-> IF s = {} THEN 0 ELSE Cost(Pick(s)) + g[s \ {Pick(s)}]] =
          [s \in SUBSET D |-> IF s = {} THEN 0 ELSE h[Pick(s)] + g[s \ {Pick(s)}]]
      BY <2>2
    <2>4. QED
      BY <2>3 DEF SumEq
  <1>3. (CHOOSE g : E(g)) = (CHOOSE g : SumEq(h, D, g))
    <2> HIDE DEF E
    <2>1. QED
      BY <1>2
  <1>4. SumOn(h, D) = SumOn(f, D)
    <2>1. \A o \in D : h[o] = f[o]
      <3>1. \A o : {r \in S : r.org = o} = WithKey(key, S, o)
        BY DEF WithKey
      <3>2. QED
        BY <3>1
    <2> HIDE DEF h
    <2>2. QED
      BY <2>1, SumSame
  <1>5. QED
    BY <1>1, <1>3, <1>4 DEF SumOn

LEMMA PartsShownIs ==
  ASSUME NEW parts, NEW D, D = DOMAIN parts, IsFiniteSet(D),
         NEW f, \A i \in D : f[i] = CalculateTokenCost(parts[i].model, parts[i].tokens)
  PROVE  TracePartsShown(parts) = SumOn(f, D)
  <1> DEFINE Cost(i) == CalculateTokenCost(parts[i].model, parts[i].tokens)
             h == [i \in D |-> Cost(i)]
             E(g) == g = [s \in SUBSET D |-> IF s = {} THEN 0
                                             ELSE Cost(Pick(s)) + g[s \ {Pick(s)}]]
  <1>1. TracePartsShown(parts) = (CHOOSE g : E(g))[D]
    BY DEF TracePartsShown, MapThenSumSet, MapThenFoldSet, Pick
  <1>2. \A g : E(g) <=> SumEq(h, D, g)
    <2> TAKE g
    <2>1. \A s \in SUBSET D : s # {} => Pick(s) \in D
      BY DEF Pick
    <2>2. \A s \in SUBSET D : (IF s = {} THEN 0 ELSE Cost(Pick(s)) + g[s \ {Pick(s)}])
                             = (IF s = {} THEN 0 ELSE h[Pick(s)] + g[s \ {Pick(s)}])
      BY <2>1
    <2>3. [s \in SUBSET D |-> IF s = {} THEN 0 ELSE Cost(Pick(s)) + g[s \ {Pick(s)}]] =
          [s \in SUBSET D |-> IF s = {} THEN 0 ELSE h[Pick(s)] + g[s \ {Pick(s)}]]
      BY <2>2
    <2>4. QED
      BY <2>3 DEF SumEq
  <1>3. (CHOOSE g : E(g)) = (CHOOSE g : SumEq(h, D, g))
    <2> HIDE DEF E
    <2>1. QED
      BY <1>2
  <1>4. SumOn(h, D) = SumOn(f, D)
    <2>1. \A i \in D : h[i] = f[i]
      OBVIOUS
    <2> HIDE DEF h
    <2>2. QED
      BY <2>1, SumSame
  <1>5. QED
    BY <1>1, <1>3, <1>4 DEF SumOn

LEMMA SumIs ==
  ASSUME NEW report, NEW D, D = DOMAIN report, IsFiniteSet(D),
         NEW f, \A k \in D : f[k] = report[k].cost
  PROVE  Sum(report) = SumOn(f, D)
  <1> DEFINE h == [k \in D |-> report[k].cost]
             E(g) == g = [s \in SUBSET D |-> IF s = {} THEN 0
                                             ELSE report[Pick(s)].cost + g[s \ {Pick(s)}]]
  <1>1. Sum(report) = (CHOOSE g : E(g))[D]
    BY DEF Sum, MapThenSumSet, MapThenFoldSet, Pick
  <1>2. \A g : E(g) <=> SumEq(h, D, g)
    <2> TAKE g
    <2>1. \A s \in SUBSET D : s # {} => Pick(s) \in D
      BY DEF Pick
    <2>2. \A s \in SUBSET D : (IF s = {} THEN 0 ELSE report[Pick(s)].cost + g[s \ {Pick(s)}])
                             = (IF s = {} THEN 0 ELSE h[Pick(s)] + g[s \ {Pick(s)}])
      BY <2>1
    <2>3. [s \in SUBSET D |-> IF s = {} THEN 0 ELSE report[Pick(s)].cost + g[s \ {Pick(s)}]] =
          [s \in SUBSET D |-> IF s = {} THEN 0 ELSE h[Pick(s)] + g[s \ {Pick(s)}]]
      BY <2>2
    <2>4. QED
      BY <2>3 DEF SumEq
  <1>3. (CHOOSE g : E(g)) = (CHOOSE g : SumEq(h, D, g))
    <2> HIDE DEF E
    <2>1. QED
      BY <1>2
  <1>4. SumOn(h, D) = SumOn(f, D)
    <2>1. \A k \in D : h[k] = f[k]
      OBVIOUS
    <2> HIDE DEF h
    <2>2. QED
      BY <2>1, SumSame
  <1>5. QED
    BY <1>1, <1>3, <1>4 DEF SumOn

LEMMA SumEventsIs ==
  ASSUME NEW report, NEW D, D = DOMAIN report, IsFiniteSet(D),
         NEW f, \A k \in D : f[k] = report[k].events
  PROVE  SumEvents(report) = SumOn(f, D)
  <1> DEFINE h == [k \in D |-> report[k].events]
             E(g) == g = [s \in SUBSET D |-> IF s = {} THEN 0
                                             ELSE report[Pick(s)].events + g[s \ {Pick(s)}]]
  <1>1. SumEvents(report) = (CHOOSE g : E(g))[D]
    BY DEF SumEvents, MapThenSumSet, MapThenFoldSet, Pick
  <1>2. \A g : E(g) <=> SumEq(h, D, g)
    <2> TAKE g
    <2>1. \A s \in SUBSET D : s # {} => Pick(s) \in D
      BY DEF Pick
    <2>2. \A s \in SUBSET D : (IF s = {} THEN 0 ELSE report[Pick(s)].events + g[s \ {Pick(s)}])
                             = (IF s = {} THEN 0 ELSE h[Pick(s)] + g[s \ {Pick(s)}])
      BY <2>1
    <2>3. [s \in SUBSET D |-> IF s = {} THEN 0 ELSE report[Pick(s)].events + g[s \ {Pick(s)}]] =
          [s \in SUBSET D |-> IF s = {} THEN 0 ELSE h[Pick(s)] + g[s \ {Pick(s)}]]
      BY <2>2
    <2>4. QED
      BY <2>3 DEF SumEq
  <1>3. (CHOOSE g : E(g)) = (CHOOSE g : SumEq(h, D, g))
    <2> HIDE DEF E
    <2>1. QED
      BY <1>2
  <1>4. SumOn(h, D) = SumOn(f, D)
    <2>1. \A k \in D : h[k] = f[k]
      OBVIOUS
    <2> HIDE DEF h
    <2>2. QED
      BY <2>1, SumSame
  <1>5. QED
    BY <1>1, <1>3, <1>4 DEF SumOn

\* A unit for each of some rows.
LEMMA Units ==
  ASSUME NEW S, IsFiniteSet(S), NEW unit \in Nat
  PROVE  \E n : /\ \A x \in S : n[x] = unit
                /\ Numbers(n, S) /\ SumOn(n, S) = unit * Cardinality(S)
  <1> DEFINE n == [x \in S |-> unit]
  <1>1. \A x \in S : n[x] = unit
    OBVIOUS
  <1> HIDE DEF n
  <1>2. Whole(n, S) /\ SumOn(n, S) = Cardinality(S) * unit /\ Cardinality(S) \in Nat
    BY <1>1, SumConstant, FS_CardinalityType
  <1>3. SumOn(n, S) = unit * Cardinality(S) /\ Numbers(n, S)
    BY <1>1, <1>2 DEF Numbers
  <1>4. QED
    BY <1>1, <1>3

LEMMA UnitsGrow ==
  ASSUME NEW S, IsFiniteSet(S), NEW T \in SUBSET S
  PROVE  /\ Cardinality(T) \in Nat /\ Cardinality(S) \in Nat /\ Cardinality(T) <= Cardinality(S)
         /\ Scale * Cardinality(T) \in Nat /\ Scale * Cardinality(S) \in Nat
         /\ Scale * Cardinality(T) <= Scale * Cardinality(S)
         /\ T # {} => Scale <= Scale * Cardinality(T)
  <1>1. IsFiniteSet(T) /\ Cardinality(T) <= Cardinality(S)
    BY FS_Subset
  <1>2. PICK a \in Nat, d \in Nat : Cardinality(T) = a /\ Cardinality(S) = a + d
    <2>1. Cardinality(T) \in Nat /\ Cardinality(S) \in Nat
      BY <1>1, FS_CardinalityType
    <2>2. Cardinality(S) = Cardinality(T) + (Cardinality(S) - Cardinality(T))
      BY <2>1
    <2>3. Cardinality(S) - Cardinality(T) \in Nat
      BY <1>1, <2>1
    <2>4. QED
      BY <2>1, <2>2, <2>3
  <1>3. Scale * (a + d) = Scale * a + Scale * d /\ Scale * a \in Nat /\ Scale * d \in Nat
    BY ScaleIs
  <1>4. T # {} => Cardinality(T) # 0
    BY <1>1, FS_EmptySet
  <1>5. ASSUME NEW b \in Nat, a = b + 1 PROVE Scale <= Scale * a
    <2>1. Scale * a = Scale * b + Scale /\ Scale * b \in Nat
      BY <1>5, ScaleIs
    <2>2. QED
      BY <2>1, ScaleIs
  <1>6. a # 0 => \E b \in Nat : a = b + 1
    <2>1. a # 0 => a - 1 \in Nat /\ a = (a - 1) + 1
      OBVIOUS
    <2>2. QED
      BY <2>1
  <1>7. T # {} => Scale <= Scale * Cardinality(T)
    BY <1>2, <1>4, <1>5, <1>6
  <1>8. Scale * Cardinality(T) <= Scale * Cardinality(S)
    <2>1. PICK x \in Nat, y \in Nat : x = Scale * a /\ y = Scale * d
      BY <1>3
    <2>2. Scale * (a + d) = x + y
      BY <1>3, <2>1
    <2>3. QED
      BY <1>2, <2>1, <2>2
  <1>9. QED
    BY <1>2, <1>3, <1>7, <1>8, ScaleIs

LEMMA ExactWhole ==
  ASSUME NEW S, Tokened(S)
  PROVE  \E f : /\ \A r \in S : f[r] = r.tokens * Rate(r.model)
                /\ Whole(f, S) /\ Exact(S) = SumOn(f, S) /\ Exact(S) \in Nat
                /\ \A T \in SUBSET S : Tokened(T) /\ Exact(T) = SumOn(f, T) /\ Exact(T) \in Nat
  <1> DEFINE f == [r \in S |-> r.tokens * Rate(r.model)]
  <1>1. \A r \in S : r.tokens * Rate(r.model) \in Nat
    BY RateIs DEF Tokened
  <1>2. \A r \in S : f[r] = r.tokens * Rate(r.model) /\ f[r] \in Nat
    BY <1>1
  <1> HIDE DEF f
  <1>3. ASSUME NEW T \in SUBSET S
        PROVE  Tokened(T) /\ Exact(T) = SumOn(f, T) /\ Exact(T) \in Nat
    <2>1. Tokened(T) /\ Whole(f, T) /\ \A r \in T : f[r] = r.tokens * Rate(r.model)
      BY <1>2, FS_Subset DEF Tokened, Whole
    <2>2. QED
      BY <2>1, ExactIs, SumWhole DEF Tokened
  <1>4. Whole(f, S)
    BY <1>2 DEF Whole
  <1>5. QED
    BY <1>2, <1>3, <1>4

\* The events of one model, priced together: one rounding.
LEMMA OneModelCost ==
  ASSUME NEW S, Tokened(S), NEW m, \A r \in S : r.model = m
  PROVE  /\ CalculateTokenCost(m, Tokens(S)) \in Int /\ Exact(S) \in Nat
         /\ 2 * CalculateTokenCost(m, Tokens(S)) - 2 * Exact(S) <= Scale
         /\ 2 * Exact(S) - 2 * CalculateTokenCost(m, Tokens(S)) <= Scale
  <1>1. PICK f : /\ \A r \in S : f[r] = r.tokens * Rate(r.model)
                 /\ Exact(S) = SumOn(f, S) /\ Exact(S) \in Nat
    BY ExactWhole
  <1>2. PICK h : h = [r \in S |-> r.tokens]
    OBVIOUS
  <1>3. IsFiniteSet(S) /\ Whole(h, S) /\ \A r \in S : h[r] = r.tokens /\ f[r] = h[r] * Rate(m)
    BY <1>1, <1>2 DEF Whole, Tokened
  <1>4. Tokens(S) = SumOn(h, S) /\ Tokens(S) \in Nat
    BY <1>3, TokensIs, SumWhole
  <1>5. Exact(S) = Tokens(S) * Rate(m)
    BY <1>1, <1>3, <1>4, RateIs, SumScaled
  <1>6. QED
    BY <1>1, <1>4, <1>5, CostNear

\* A page's cost of some events is near what their tokens cost, however it rounds.
LEMMA ShownNear ==
  ASSUME NEW S, Tokened(S)
  PROVE  Shown(S) \in Int /\ Near(Shown(S), S)
  <1>1. PICK f : /\ Whole(f, S) /\ Exact(S) = SumOn(f, S) /\ Exact(S) \in Nat
                 /\ \A T \in SUBSET S : Tokened(T) /\ Exact(T) = SumOn(f, T) /\ Exact(T) \in Nat
    BY ExactWhole
  <1>2. PICK key : key = [r \in S |-> r.model]
    OBVIOUS
  <1>3. PICK D : D = {r.model : r \in S}
    OBVIOUS
  <1>4. /\ D = KeysOf(key, S) /\ \A m : {r \in S : r.model = m} = WithKey(key, S, m)
        /\ \A m : WithKey(key, S, m) \in SUBSET S /\ \A r \in WithKey(key, S, m) : r.model = m
        /\ \A m \in D : WithKey(key, S, m) # {}
    BY <1>2, <1>3 DEF KeysOf, WithKey
  <1>5. IsFiniteSet(S) /\ IsFiniteSet(D)
    BY <1>4, ImageFinite DEF Tokened, KeysOf
  <1>6. PICK c : c = [m \in D |-> CalculateTokenCost(m, Tokens({r \in S : r.model = m}))]
    OBVIOUS
  <1>7. \A m \in D : c[m] = CalculateTokenCost(m, Tokens({r \in S : r.model = m}))
    BY <1>6
  <1>8. Shown(S) = SumOn(c, D)
    BY <1>3, <1>5, <1>7, ShownIs
  <1>9. ASSUME NEW m \in D
        PROVE  /\ c[m] \in Int
               /\ c[m] - SumOn(f, WithKey(key, S, m)) <= Scale * Cardinality(WithKey(key, S, m))
               /\ SumOn(f, WithKey(key, S, m)) - c[m] <= Scale * Cardinality(WithKey(key, S, m))
    <2>1. PICK P : P = WithKey(key, S, m)
      OBVIOUS
    <2>2. P \in SUBSET S /\ P # {} /\ \A r \in P : r.model = m
      BY <1>4, <2>1
    <2>3. Tokened(P) /\ Exact(P) = SumOn(f, P)
      BY <1>1, <2>2
    <2>4. c[m] = CalculateTokenCost(m, Tokens(P))
      BY <1>4, <1>7, <2>1
    <2>5. /\ c[m] \in Int /\ Exact(P) \in Nat
          /\ 2 * c[m] - 2 * Exact(P) <= Scale /\ 2 * Exact(P) - 2 * c[m] <= Scale
      BY <2>2, <2>3, <2>4, OneModelCost
    <2>6. Scale <= Scale * Cardinality(P) /\ Scale * Cardinality(P) \in Nat
      BY <1>5, <2>2, UnitsGrow
    <2>7. c[m] - Exact(P) <= Scale * Cardinality(P) /\ Exact(P) - c[m] <= Scale * Cardinality(P)
      BY <2>5, <2>6, ScaleIs
    <2>8. QED
      BY <2>1, <2>3, <2>5, <2>7
  <1>10. Numbers(f, S)
    BY <1>1 DEF Whole, Numbers
  <1>11. /\ SumOn(c, D) \in Int
         /\ SumOn(c, D) - SumOn(f, S) <= Scale * Cardinality(S)
         /\ SumOn(f, S) - SumOn(c, D) <= Scale * Cardinality(S)
    <2>1. Scale \in Nat
      BY ScaleIs
    <2>2. \A m \in KeysOf(key, S) :
            /\ c[m] \in Int
            /\ c[m] - SumOn(f, WithKey(key, S, m)) <= Scale * Cardinality(WithKey(key, S, m))
            /\ SumOn(f, WithKey(key, S, m)) - c[m] <= Scale * Cardinality(WithKey(key, S, m))
      BY <1>4, <1>9
    <2>3. QED
      BY <1>4, <1>5, <1>10, <2>1, <2>2, NearGroups
  <1>12. QED
    BY <1>1, <1>8, <1>11 DEF Near, Within

LEMMA ShownEachNear ==
  ASSUME NEW S, Tokened(S)
  PROVE  ShownEach(S) \in Int /\ Near(ShownEach(S), S)
  <1>1. PICK f : /\ \A r \in S : f[r] = r.tokens * Rate(r.model)
                 /\ Whole(f, S) /\ Exact(S) = SumOn(f, S) /\ Exact(S) \in Nat
    BY ExactWhole
  <1>2. PICK c : c = [r \in S |-> CalculateTokenCost(r.model, r.tokens)]
    OBVIOUS
  <1>3. IsFiniteSet(S) /\ \A r \in S : c[r] = CalculateTokenCost(r.model, r.tokens)
    BY <1>2 DEF Tokened
  <1>4. ShownEach(S) = SumOn(c, S)
    BY <1>3, ShownEachIs
  <1>5. PICK n : /\ \A r \in S : n[r] = Scale
                 /\ Numbers(n, S) /\ SumOn(n, S) = Scale * Cardinality(S)
    BY <1>3, ScaleIs, Units
  <1>6. ASSUME NEW r \in S
        PROVE  c[r] \in Int /\ c[r] - f[r] <= n[r] /\ f[r] - c[r] <= n[r]
    <2>1. /\ c[r] \in Int /\ f[r] \in Nat
          /\ 2 * c[r] - 2 * f[r] <= Scale /\ 2 * f[r] - 2 * c[r] <= Scale
      BY <1>1, <1>3, CostNear DEF Tokened
    <2>2. QED
      BY <1>5, <2>1, ScaleIs
  <1>7. Numbers(c, S) /\ Numbers(f, S)
    BY <1>1, <1>6 DEF Numbers, Whole
  <1>8. /\ SumOn(c, S) - SumOn(f, S) <= SumOn(n, S) /\ SumOn(f, S) - SumOn(c, S) <= SumOn(n, S)
        /\ SumOn(c, S) \in Int
    BY <1>3, <1>5, <1>6, <1>7, SumNear
  <1>9. QED
    BY <1>1, <1>4, <1>5, <1>8 DEF Near, Within

\* Parts that are near, by any key, add up to a sum that is near.
LEMMA PartsNear ==
  ASSUME NEW S, Tokened(S), NEW key, NEW c,
         \A k \in KeysOf(key, S) : c[k] \in Int /\ Near(c[k], WithKey(key, S, k))
  PROVE  SumOn(c, KeysOf(key, S)) \in Int /\ Near(SumOn(c, KeysOf(key, S)), S)
  <1>1. PICK f : /\ Whole(f, S) /\ Exact(S) = SumOn(f, S) /\ Exact(S) \in Nat
                 /\ \A T \in SUBSET S : Tokened(T) /\ Exact(T) = SumOn(f, T) /\ Exact(T) \in Nat
    BY ExactWhole
  <1>2. \A k : WithKey(key, S, k) \in SUBSET S
    BY DEF WithKey
  <1>3. \A k \in KeysOf(key, S) :
          /\ c[k] \in Int
          /\ c[k] - SumOn(f, WithKey(key, S, k)) <= Scale * Cardinality(WithKey(key, S, k))
          /\ SumOn(f, WithKey(key, S, k)) - c[k] <= Scale * Cardinality(WithKey(key, S, k))
    BY <1>1, <1>2 DEF Near, Within
  <1>4. IsFiniteSet(S) /\ Numbers(f, S) /\ Scale \in Nat
    BY <1>1, ScaleIs DEF Numbers, Whole, Tokened
  <1>5. /\ SumOn(c, KeysOf(key, S)) \in Int
        /\ SumOn(c, KeysOf(key, S)) - SumOn(f, S) <= Scale * Cardinality(S)
        /\ SumOn(f, S) - SumOn(c, KeysOf(key, S)) <= Scale * Cardinality(S)
    BY <1>3, <1>4, NearGroups
  <1>6. QED
    BY <1>1, <1>5 DEF Near, Within

LEMMA ShownByOrgNear ==
  ASSUME NEW S, Tokened(S)
  PROVE  ShownByOrg(S) \in Int /\ Near(ShownByOrg(S), S)
  <1>1. PICK key : key = [r \in S |-> r.org]
    OBVIOUS
  <1>2. PICK D : D = {r.org : r \in S}
    OBVIOUS
  <1>3. /\ D = KeysOf(key, S) /\ \A o : {r \in S : r.org = o} = WithKey(key, S, o)
        /\ \A o : WithKey(key, S, o) \in SUBSET S
    BY <1>1, <1>2 DEF KeysOf, WithKey
  <1>4. IsFiniteSet(D)
    BY <1>3, ImageFinite DEF Tokened, KeysOf
  <1>5. PICK c : c = [o \in D |-> Shown({r \in S : r.org = o})]
    OBVIOUS
  <1>6. \A o \in D : c[o] = Shown({r \in S : r.org = o})
    BY <1>5
  <1>7. ShownByOrg(S) = SumOn(c, D)
    <2>1. \A q \in KeysOf(key, S) : c[q] = Shown(WithKey(key, S, q))
      BY <1>3, <1>6
    <2>2. QED
      BY <1>1, <1>3, <1>4, <2>1, ShownByOrgIs
  <1>8. \A o : Tokened(WithKey(key, S, o))
    BY <1>3, FS_Subset DEF Tokened
  <1>9. \A o \in D : c[o] \in Int /\ Near(c[o], WithKey(key, S, o))
    BY <1>3, <1>6, <1>8, ShownNear
  <1>10. QED
    BY <1>3, <1>7, <1>9, PartsNear

\* A report with a line for each key of S, near the cost of the rows with that key.
NearCut(report, S, key) ==
  /\ DOMAIN report = KeysOf(key, S)
  /\ \A k \in KeysOf(key, S) : /\ report[k].events = Cardinality(WithKey(key, S, k))
                               /\ report[k].cost \in Int
                               /\ Near(report[k].cost, WithKey(key, S, k))

LEMMA CutNear ==
  ASSUME NEW S, Tokened(S), NEW key
  PROVE  NearCut(Cut(S, key), S, key)
  <1>1. /\ DOMAIN Cut(S, key) = KeysOf(key, S)
        /\ \A k \in KeysOf(key, S) :
             /\ Cut(S, key)[k].events = Cardinality(WithKey(key, S, k))
             /\ Cut(S, key)[k].cost = Shown(WithKey(key, S, k))
    BY DEF Cut
  <1>2. \A k : Tokened(WithKey(key, S, k))
    <2>1. \A k : WithKey(key, S, k) \in SUBSET S
      BY DEF WithKey
    <2>2. QED
      BY <2>1, FS_Subset DEF Tokened
  <1>3. QED
    BY <1>1, <1>2, ShownNear DEF NearCut

\* However rows are cut, the lines add up to all of them.
LEMMA CutAddsUp ==
  ASSUME NEW S, Tokened(S), NEW key, NEW report, NearCut(report, S, key)
  PROVE  Sum(report) \in Int /\ Near(Sum(report), S) /\ SumEvents(report) = Cardinality(S)
  <1> DEFINE D == KeysOf(key, S)
             ones == [r \in S |-> 1]
             c == [k \in D |-> report[k].cost]
             n == [k \in D |-> report[k].events]
  <1>1. IsFiniteSet(S) /\ IsFiniteSet(D)
    BY ImageFinite DEF Tokened, KeysOf
  <1>2. \A k : WithKey(key, S, k) \in SUBSET S /\ IsFiniteSet(WithKey(key, S, k))
    BY <1>1, FS_Subset DEF WithKey
  <1>3. \A k \in D : c[k] = report[k].cost /\ n[k] = report[k].events
    OBVIOUS
  <1>4. Whole(ones, S) /\ \A T \in SUBSET S : \A r \in T : ones[r] = 1
    BY DEF Whole
  <1>5. DOMAIN report = D
    BY DEF NearCut
  <1> HIDE DEF c, n, ones
  <1>6. \A k \in D : /\ c[k] \in Int /\ Near(c[k], WithKey(key, S, k))
                     /\ n[k] = Cardinality(WithKey(key, S, k))
    BY <1>3 DEF NearCut
  <1>7. \A k \in D : n[k] = SumOn(ones, WithKey(key, S, k))
    BY <1>2, <1>4, <1>6, SumOnes
  <1>8. SumOn(n, D) = SumOn(ones, S)
    BY <1>1, <1>4, <1>7, SumGroups
  <1>9. SumOn(ones, S) = Cardinality(S)
    BY <1>1, <1>4, SumOnes
  <1>10. SumOn(c, D) \in Int /\ Near(SumOn(c, D), S)
    BY <1>6, PartsNear
  <1> HIDE DEF D
  <1>11. Sum(report) = SumOn(c, D) /\ SumEvents(report) = SumOn(n, D)
    BY <1>1, <1>3, <1>5, SumIs, SumEventsIs
  <1>12. QED
    BY <1>8, <1>9, <1>10, <1>11

\* What has no name costs nothing.
LEMMA NamedCost ==
  ASSUME NEW S, Tokened(S)
  PROVE  Exact(Named(S)) = Exact(S) /\ Tokened(Named(S))
  <1>1. PICK f : /\ \A r \in S : f[r] = r.tokens * Rate(r.model)
                 /\ Whole(f, S) /\ Exact(S) = SumOn(f, S)
                 /\ \A T \in SUBSET S : Tokened(T) /\ Exact(T) = SumOn(f, T)
    BY ExactWhole
  <1>2. PICK T : T = Named(S)
    OBVIOUS
  <1>3. IsFiniteSet(S) /\ T \in SUBSET S /\ IsFiniteSet(S \ T)
    BY <1>2, FS_Subset DEF Tokened, Named
  <1>4. Rate(None) = 0
    BY RateIs, PricingAssumption DEF PricingAssumption
  <1>5. \A r \in S \ T : f[r] = 0
    BY <1>1, <1>2, <1>4 DEF Named, Tokened
  <1>6. SumOn(f, S) = SumOn(f, T) + SumOn(f, S \ T) /\ SumOn(f, T) \in Nat
    BY <1>1, <1>3, SumSplit
  <1>7. SumOn(f, S \ T) = 0
    BY <1>3, <1>5, SumZeros
  <1>8. QED
    BY <1>1, <1>2, <1>3, <1>6, <1>7

LEMMA NamedNear ==
  ASSUME NEW S, Tokened(S), NEW x \in Int, Near(x, Named(S))
  PROVE  Near(x, S)
  <1>1. Exact(Named(S)) = Exact(S) /\ Exact(S) \in Nat
    BY NamedCost, ExactWhole
  <1>2. Named(S) \in SUBSET S /\ IsFiniteSet(S)
    BY DEF Named, Tokened
  <1>3. /\ Scale * Cardinality(Named(S)) \in Nat /\ Scale * Cardinality(S) \in Nat
        /\ Scale * Cardinality(Named(S)) <= Scale * Cardinality(S)
    BY <1>2, UnitsGrow
  <1>4. QED
    BY <1>1, <1>3 DEF Near, Within

LEMMA CostByModelCut ==
  ASSUME NEW o, NEW p, NEW S, S = Named(Scope(store, o, p))
  PROVE  CostByModel(o, p) = Cut(S, [r \in S |-> <<r.model, r.provider>>])
  <1> DEFINE key == [r \in S |-> <<r.model, r.provider>>]
  <1>1. /\ \A k : {r \in S : <<r.model, r.provider>> = k} = WithKey(key, S, k)
        /\ {<<r.model, r.provider>> : r \in S} = KeysOf(key, S)
    BY DEF WithKey, KeysOf
  <1> HIDE DEF key
  <1>2. CostByModel(o, p) = Cut(S, key)
    BY <1>1 DEF CostByModel, By, Line, ModelProvider, Cut
  <1>3. QED
    BY <1>2 DEF key

LEMMA CostByToolCut ==
  ASSUME NEW o, NEW p, NEW S, S = Named(Scope(store, o, p))
  PROVE  CostByTool(o, p) = Cut(S, [r \in S |-> r.model])
  <1> DEFINE key == [r \in S |-> r.model]
  <1>1. /\ \A k : {r \in S : r.model = k} = WithKey(key, S, k)
        /\ {r.model : r \in S} = KeysOf(key, S)
    BY DEF WithKey, KeysOf
  <1> HIDE DEF key
  <1>2. CostByTool(o, p) = Cut(S, key)
    BY <1>1 DEF CostByTool, By, Line, Tool, Cut
  <1>3. QED
    BY <1>2 DEF key

LEMMA CostByProviderCut ==
  ASSUME NEW o, NEW p, NEW S, S = Scope(store, o, p)
  PROVE  CostByProvider(o, p) = Cut(S, [r \in S |-> r.provider])
  <1> DEFINE key == [r \in S |-> r.provider]
  <1>1. /\ \A k : {r \in S : r.provider = k} = WithKey(key, S, k)
        /\ {r.provider : r \in S} = KeysOf(key, S)
    BY DEF WithKey, KeysOf
  <1> HIDE DEF key
  <1>2. CostByProvider(o, p) = Cut(S, key)
    BY <1>1 DEF CostByProvider, By, Line, Provider, Cut
  <1>3. QED
    BY <1>2 DEF key

LEMMA CostByExecutionTypeCut ==
  ASSUME NEW o, NEW p, NEW S, S = Scope(store, o, p)
  PROVE  CostByExecutionType(o, p) = Cut(S, [r \in S |-> r.exec])
  <1> DEFINE key == [r \in S |-> r.exec]
  <1>1. /\ \A k : {r \in S : r.exec = k} = WithKey(key, S, k)
        /\ {r.exec : r \in S} = KeysOf(key, S)
    BY DEF WithKey, KeysOf
  <1> HIDE DEF key
  <1>2. CostByExecutionType(o, p) = Cut(S, key)
    BY <1>1 DEF CostByExecutionType, By, Line, Exec, Cut
  <1>3. QED
    BY <1>2 DEF key

LEMMA CostByServiceTypeCut ==
  ASSUME NEW o, NEW p, NEW S, S = Scope(store, o, p)
  PROVE  CostByServiceType(o, p) = Cut(S, [r \in S |-> r.service])
  <1> DEFINE key == [r \in S |-> r.service]
  <1>1. /\ \A k : {r \in S : r.service = k} = WithKey(key, S, k)
        /\ {r.service : r \in S} = KeysOf(key, S)
    BY DEF WithKey, KeysOf
  <1> HIDE DEF key
  <1>2. CostByServiceType(o, p) = Cut(S, key)
    BY <1>1 DEF CostByServiceType, By, Line, Service, Cut
  <1>3. QED
    BY <1>2 DEF key

LEMMA AdminAggregateCut ==
  ASSUME NEW o, NEW S, S = Given(store, o, None)
  PROVE  AdminAggregate(o) = Cut(S, [r \in S |-> <<r.org, r.model>>])
  <1> DEFINE key == [r \in S |-> <<r.org, r.model>>]
  <1>1. /\ \A k : {r \in S : <<r.org, r.model>> = k} = WithKey(key, S, k)
        /\ {<<r.org, r.model>> : r \in S} = KeysOf(key, S)
    BY DEF WithKey, KeysOf
  <1> HIDE DEF key
  <1>2. AdminAggregate(o) = Cut(S, key)
    BY <1>1 DEF AdminAggregate, By, Line, Cut
  <1>3. QED
    BY <1>2 DEF key

LEMMA ProjectTraceCut ==
  ASSUME NEW o, NEW p, NEW S, S = Given(store, o, p), Tokened(S)
  PROVE  NearCut(ProjectTrace(p, o), S, [r \in S |-> ToolName(r.model)])
  <1> DEFINE key == [r \in S |-> ToolName(r.model)]
  <1>1. /\ \A k : {r \in S : ToolName(r.model) = k} = WithKey(key, S, k)
        /\ {ToolName(r.model) : r \in S} = KeysOf(key, S)
        /\ \A k : WithKey(key, S, k) \in SUBSET S
    BY DEF WithKey, KeysOf
  <1> HIDE DEF key
  <1>2. ProjectTrace(p, o) =
          [k \in KeysOf(key, S) |->
             [events |-> Cardinality(WithKey(key, S, k)), tokens |-> Tokens(WithKey(key, S, k)),
              cost |-> ShownEach(WithKey(key, S, k))]]
    BY <1>1 DEF ProjectTrace, By, Line, ToolOrUnknown
  <1>3. \A k : Tokened(WithKey(key, S, k))
    BY <1>1, FS_Subset DEF Tokened
  <1>4. NearCut(ProjectTrace(p, o), S, key)
    BY <1>2, <1>3, ShownEachNear DEF NearCut
  <1>5. QED
    BY <1>4 DEF key

InsightLine(S) ==
  [events |-> Cardinality(S), tokens |-> Tokens(S), cost |-> Shown(S),
   llm |-> Cents(LlmCost(S)), infra |-> Cents(InfraCost(S)),
   external |-> Cents(ExternalCost(S)), total |-> Cents(TotalCost(S))]

LEMMA InsightsToolCostsIs ==
  ASSUME NEW o, NEW S, S = Named(Given(store, o, None)),
         NEW key, key = [r \in S |-> <<r.model, r.provider>>]
  PROVE  /\ InsightsToolCosts(o) = [k \in KeysOf(key, S) |-> InsightLine(WithKey(key, S, k))]
         /\ OldInsightsToolCosts(o) =
              [k \in KeysOf(key, S) |->
                 [events |-> Cardinality(WithKey(key, S, k)),
                  tokens |-> Tokens(WithKey(key, S, k)),
                  cost |-> Cents(TotalCost(WithKey(key, S, k)))]]
  <1>1. /\ \A k : {r \in S : <<r.model, r.provider>> = k} = WithKey(key, S, k)
        /\ {<<r.model, r.provider>> : r \in S} = KeysOf(key, S)
    BY DEF WithKey, KeysOf
  <1>2. By(S, ModelProvider, Shown) =
          [k \in KeysOf(key, S) |->
             [events |-> Cardinality(WithKey(key, S, k)), tokens |-> Tokens(WithKey(key, S, k)),
              cost |-> Shown(WithKey(key, S, k))]]
    BY <1>1 DEF By, Line, ModelProvider
  <1>3. PICK lines : lines = By(S, ModelProvider, Shown)
    OBVIOUS
  <1>4. InsightsToolCosts(o) =
          [k \in DOMAIN lines |->
             [events |-> lines[k].events, tokens |-> lines[k].tokens, cost |-> lines[k].cost,
              llm |-> Cents(LlmCost({r \in S : ModelProvider(r) = k})),
              infra |-> Cents(InfraCost({r \in S : ModelProvider(r) = k})),
              external |-> Cents(ExternalCost({r \in S : ModelProvider(r) = k})),
              total |-> Cents(TotalCost({r \in S : ModelProvider(r) = k}))]]
    BY <1>3 DEF InsightsToolCosts
  <1>5. \A k : {r \in S : ModelProvider(r) = k} = WithKey(key, S, k)
    BY <1>1 DEF ModelProvider
  <1>6. DOMAIN lines = KeysOf(key, S)
    BY <1>2, <1>3
  <1>7. ASSUME NEW k \in KeysOf(key, S)
        PROVE  InsightsToolCosts(o)[k] = InsightLine(WithKey(key, S, k))
    <2>1. /\ lines[k].events = Cardinality(WithKey(key, S, k))
          /\ lines[k].tokens = Tokens(WithKey(key, S, k))
          /\ lines[k].cost = Shown(WithKey(key, S, k))
      BY <1>2, <1>3
    <2>2. QED
      BY <1>4, <1>5, <1>6, <2>1 DEF InsightLine
  <1>8. InsightsToolCosts(o) = [k \in KeysOf(key, S) |-> InsightLine(WithKey(key, S, k))]
    BY <1>4, <1>6, <1>7
  <1>9. OldInsightsToolCosts(o) =
              [k \in KeysOf(key, S) |->
                 [events |-> Cardinality(WithKey(key, S, k)),
                  tokens |-> Tokens(WithKey(key, S, k)),
                  cost |-> Cents(TotalCost(WithKey(key, S, k)))]]
    BY <1>1 DEF OldInsightsToolCosts, By, Line, ModelProvider, Stored4, Stored
  <1>10. QED
    BY <1>8, <1>9

LEMMA InsightsToolCostsCut ==
  ASSUME NEW o, NEW S, S = Named(Given(store, o, None)), Tokened(S),
         NEW key, key = [r \in S |-> <<r.model, r.provider>>]
  PROVE  NearCut(InsightsToolCosts(o), S, key)
  <1>1. InsightsToolCosts(o) = [k \in KeysOf(key, S) |-> InsightLine(WithKey(key, S, k))]
    BY InsightsToolCostsIs
  <1>2. \A k : WithKey(key, S, k) \in SUBSET S
    BY DEF WithKey
  <1>3. \A k : Tokened(WithKey(key, S, k))
    BY <1>2, FS_Subset DEF Tokened
  <1>4. \A T : InsightLine(T).events = Cardinality(T) /\ InsightLine(T).cost = Shown(T)
    BY DEF InsightLine
  <1>5. QED
    BY <1>1, <1>3, <1>4, ShownNear DEF NearCut

\* Registered tools add their lines whether they were used or not.
LEMMA RegisteredAddUp ==
  ASSUME NEW o, NEW S, S = Named(Given(store, o, None)), Tokened(S)
  PROVE  Sum(RegisteredTools(o)) \in Int /\ Near(Sum(RegisteredTools(o)), S)
  <1>1. PICK key : key = [r \in S |-> r.model]
    OBVIOUS
  <1>2. PICK used : used = KeysOf(key, S)
    OBVIOUS
  <1>3. PICK names : names = DOMAIN ToolPrice \cup {r.model : r \in S}
    OBVIOUS
  <1>4. PICK R : R = RegisteredTools(o)
    OBVIOUS
  <1>5. /\ \A k : {r \in S : r.model = k} = WithKey(key, S, k)
        /\ {r.model : r \in S} = used
        /\ \A k : WithKey(key, S, k) \in SUBSET S
    BY <1>1, <1>2 DEF WithKey, KeysOf
  <1>6. R = [t \in names |-> Line({r \in S : r.model = t}, ShownByOrg)]
    BY <1>3, <1>4 DEF RegisteredTools
  <1>7. \A T : Line(T, ShownByOrg).cost = ShownByOrg(T)
    BY DEF Line
  <1>8. PICK c : c = [t \in names |-> R[t].cost]
    OBVIOUS
  <1>9. /\ DOMAIN R = names
        /\ \A t \in names : c[t] = R[t].cost /\ c[t] = ShownByOrg(WithKey(key, S, t))
    BY <1>5, <1>6, <1>7, <1>8
  <1>10. IsFiniteSet(used) /\ IsFiniteSet(names) /\ used \in SUBSET names
    <2>1. IsFiniteSet(used)
      BY <1>2, ImageFinite DEF Tokened, KeysOf
    <2>2. IsFiniteSet(DOMAIN ToolPrice)
      BY PricingAssumption DEF PricingAssumption
    <2>3. names = DOMAIN ToolPrice \cup used
      BY <1>3, <1>5
    <2>4. QED
      BY <2>1, <2>2, <2>3, FS_Union
  <1>11. \A k : Tokened(WithKey(key, S, k))
    BY <1>5, FS_Subset DEF Tokened
  <1>12. \A t \in names : c[t] \in Int /\ Near(c[t], WithKey(key, S, t))
    BY <1>9, <1>11, ShownByOrgNear
  <1>13. SumOn(c, used) \in Int /\ Near(SumOn(c, used), S)
    <2>1. \A t \in KeysOf(key, S) : c[t] \in Int /\ Near(c[t], WithKey(key, S, t))
      BY <1>2, <1>10, <1>12
    <2>2. QED
      BY <1>2, <2>1, PartsNear
  <1>14. \A t \in names \ used : c[t] = 0
    <2>1. \A t \in names \ used : WithKey(key, S, t) = {}
      BY <1>2 DEF WithKey, KeysOf
    <2>2. ShownByOrg({}) = 0
      <3>1. PICK none, f : none = [r \in {} |-> r.org] /\ f = [q \in {} |-> 0]
        OBVIOUS
      <3>2. KeysOf(none, {}) = {} /\ IsFiniteSet({})
        BY FS_EmptySet DEF KeysOf
      <3>3. \A q \in {} : f[q] = Shown(WithKey(none, {}, q))
        OBVIOUS
      <3>4. ShownByOrg({}) = SumOn(f, {})
        BY <3>1, <3>2, <3>3, ShownByOrgIs
      <3>5. QED
        BY <3>4, SumEmpty
    <2>3. QED
      BY <1>9, <2>1, <2>2
  <1>15. SumOn(c, names) = SumOn(c, used)
    <2>1. PICK rest : rest = names \ used
      OBVIOUS
    <2>2. IsFiniteSet(rest) /\ used \cup rest = names /\ used \cap rest = {}
      BY <1>10, <2>1, FS_Subset
    <2>3. SumOn(c, rest) = 0
      BY <1>14, <2>1, <2>2, SumZeros
    <2>4. SumOn(c, used \cup rest) = SumOn(c, used) + SumOn(c, rest)
      BY <1>10, <1>12, <2>2, NumberUnion DEF Numbers
    <2>5. SumOn(c, names) = SumOn(c, used) + SumOn(c, rest)
      BY <2>2, <2>4, Zenon
    <2>6. QED
      BY <1>13, <2>3, <2>5
  <1>16. Sum(R) = SumOn(c, names)
    BY <1>9, <1>10, SumIs
  <1>17. QED
    BY <1>4, <1>13, <1>15, <1>16

LEMMA StoreTokened ==
  ASSUME TypeInv, NEW S \in SUBSET store
  PROVE  Tokened(S)
  BY FS_Subset DEF TypeInv, TableTypes, EventRow, Tokened

LEMMA ScopesOfStore ==
  ASSUME NEW o, NEW p
  PROVE  /\ Given(store, o, p) \in SUBSET store /\ Scope(store, o, p) \in SUBSET store
         /\ Named(Given(store, o, p)) \in SUBSET store
         /\ o # None => Scope(store, o, p) = Given(store, o, p)
         /\ Given(store, None, None) = store
  BY DEF Given, Scope, Named

\* A trace whose models have one rate costs what they cost apart.
LEMMA OneCost ==
  ASSUME NEW r, r.tokens \in Nat
  PROVE  Tokened({r}) /\ Cardinality({r}) = 1 /\ Exact({r}) = r.tokens * Rate(r.model)
  <1>1. IsFiniteSet({r}) /\ Cardinality({r}) = 1
    BY FS_Singleton
  <1>2. Tokened({r})
    BY <1>1 DEF Tokened
  <1>3. PICK f : f = [x \in {r} |-> x.tokens * Rate(x.model)]
    OBVIOUS
  <1>4. \A x \in {r} : f[x] = x.tokens * Rate(x.model)
    BY <1>3
  <1>5. f[r] = r.tokens * Rate(r.model) /\ f[r] \in Nat
    BY <1>4, RateIs
  <1>6. Exact({r}) = SumOn(f, {r}) /\ SumOn(f, {r}) = f[r]
    BY <1>1, <1>4, <1>5, ExactIs, SumOne
  <1>7. QED
    BY <1>1, <1>2, <1>5, <1>6

LEMMA TracePartsSame ==
  ASSUME LedgerAssumption, TypeInv, StoredAsPriced
  PROVE  TracePartsAgree
  <1> SUFFICES ASSUME NEW r \in store, NEW parts, parts = Sent[r.event].parts,
                      parts # <<>>, r.model \notin edited,
                      \A i, j \in DOMAIN parts : Rate(parts[i].model) = Rate(parts[j].model)
               PROVE  Within(Shown({r}), TracePartsShown(parts),
                             Scale * (Cardinality(DOMAIN parts) + 1))
    BY DEF TracePartsAgree
  <1>1. PICK D : D = DOMAIN parts
    OBVIOUS
  <1>2. PICK k : k = Rate(parts[1].model)
    OBVIOUS
  <1>3. r.event \in Events /\ r.tokens \in Nat
    BY DEF TypeInv, TableTypes, EventRow
  <1>4. 1 \in D /\ IsFiniteSet(D) /\ \A i \in D : parts[i].tokens \in Nat
    BY <1>1, <1>3 DEF LedgerAssumption
  <1>5. Priced(Sent[r.event]) = TraceEvent(parts, {})
    BY DEF Priced
  <1>6. r.model = parts[1].model /\ r.tokens = TraceEvent(parts, {}).tokens
    <2>1. TraceEvent(parts, {}).model = parts[1].model
      BY DEF TraceEvent
    <2>2. QED
      BY <1>5, <2>1 DEF StoredAsPriced
  <1>7. k \in Nat /\ \A i \in D : Rate(parts[i].model) = k
    BY <1>1, <1>2, <1>4, RateIs
  <1>8. PICK h : h = [i \in D |-> parts[i].tokens]
    OBVIOUS
  <1>9. PICK x : x = [i \in D |-> parts[i].tokens * k]
    OBVIOUS
  <1>10. PICK f : f = [i \in D |-> CalculateTokenCost(parts[i].model, parts[i].tokens)]
    OBVIOUS
  <1>11. /\ \A i \in D : h[i] = parts[i].tokens /\ x[i] = h[i] * k
         /\ \A i \in D : f[i] = CalculateTokenCost(parts[i].model, parts[i].tokens)
         /\ Whole(h, D)
    BY <1>4, <1>8, <1>9, <1>10 DEF Whole
  <1>12. TracePartsShown(parts) = SumOn(f, D)
    BY <1>1, <1>4, <1>11, PartsShownIs
  <1>13. r.tokens = SumOn(h, D)
    BY <1>1, <1>4, <1>6, <1>11, PartsTokensIs
  <1>14. SumOn(x, D) = r.tokens * k
    BY <1>4, <1>7, <1>11, <1>13, SumScaled
  <1>15. PICK n : /\ \A i \in D : n[i] = Scale
                  /\ Numbers(n, D) /\ SumOn(n, D) = Scale * Cardinality(D)
    BY <1>4, ScaleIs, Units
  <1>16. ASSUME NEW i \in D
         PROVE  /\ f[i] \in Int /\ x[i] \in Int
                /\ f[i] - x[i] <= n[i] /\ x[i] - f[i] <= n[i]
    <2>1. x[i] = parts[i].tokens * Rate(parts[i].model)
      BY <1>7, <1>11
    <2>2. /\ f[i] \in Int /\ x[i] \in Nat
          /\ 2 * f[i] - 2 * x[i] <= Scale /\ 2 * x[i] - 2 * f[i] <= Scale
      BY <1>4, <1>11, <2>1, CostNear
    <2>3. n[i] = Scale
      BY <1>15
    <2>4. \A a, b \in Int : \A s \in Nat :
            2 * a - 2 * b <= s /\ 2 * b - 2 * a <= s => a - b <= s /\ b - a <= s
      OBVIOUS
    <2>5. f[i] \in Int /\ x[i] \in Int /\ Scale \in Nat
      BY <2>2, ScaleIs
    <2>6. f[i] - x[i] <= Scale /\ x[i] - f[i] <= Scale
      BY <2>2, <2>4, <2>5
    <2>7. QED
      BY <2>3, <2>5, <2>6
  <1>17. /\ SumOn(f, D) - SumOn(x, D) <= SumOn(n, D) /\ SumOn(x, D) - SumOn(f, D) <= SumOn(n, D)
         /\ SumOn(f, D) \in Int /\ SumOn(x, D) \in Int
    BY <1>4, <1>15, <1>16, SumNear DEF Numbers
  <1>18. Exact({r}) = SumOn(x, D)
    BY <1>2, <1>3, <1>6, <1>14, OneCost
  <1>19. Shown({r}) \in Int /\ Within(Shown({r}), Exact({r}), Scale)
    <2>1. Shown({r}) \in Int /\ Near(Shown({r}), {r}) /\ Cardinality({r}) = 1
      BY <1>3, OneCost, ShownNear
    <2>2. Scale * 1 = Scale
      BY ScaleIs
    <2>3. QED
      BY <2>1, <2>2 DEF Near
  <1>20. PICK u \in Nat : u = Scale * Cardinality(D)
    BY <1>4, UnitsGrow
  <1>21. Scale * (Cardinality(D) + 1) = u + Scale
    <2>1. \A a, b \in Nat : a * (b + 1) = a * b + a
      OBVIOUS
    <2>2. QED
      BY <1>4, <1>20, <2>1, ScaleIs, FS_CardinalityType
  <1>22. Within(Shown({r}), SumOn(f, D), u + Scale)
    BY <1>15, <1>17, <1>18, <1>19, <1>20, ScaleIs DEF Within
  <1>23. QED
    BY <1>1, <1>12, <1>21, <1>22

\* The cost pages of one scope.
LEMMA ScopeViews ==
  ASSUME TypeInv, NEW o, NEW p
  PROVE  LET S == Scope(store, o, p)
             summary == CostBreakdownSummary(o, p)
             AddsUp(report) == Near(Sum(report), S) /\ SumEvents(report) = summary.events
         IN  /\ Near(summary.llm, S)
             /\ Near(Sum(CostByModel(o, p)), S) /\ Near(Sum(CostByTool(o, p)), S)
             /\ AddsUp(CostByProvider(o, p)) /\ AddsUp(CostByServiceType(o, p))
             /\ AddsUp(CostByExecutionType(o, p))
             /\ o # None /\ p # None => Near(Sum(ProjectTrace(p, o)), S)
  <1>1. PICK S : S = Scope(store, o, p)
    OBVIOUS
  <1>2. PICK N : N = Named(S)
    OBVIOUS
  <1>3. PICK G : G = Given(store, o, p)
    OBVIOUS
  <1>4. Tokened(S) /\ Tokened(G)
    BY <1>1, <1>3, ScopesOfStore, StoreTokened
  <1>5. Tokened(N)
    BY <1>2, <1>4, NamedCost
  <1>6. /\ CostBreakdownSummary(o, p).llm = Shown(S)
        /\ CostBreakdownSummary(o, p).events = Cardinality(S)
    BY <1>1 DEF CostBreakdownSummary
  <1>7. \A T, key : Tokened(T) => /\ Sum(Cut(T, key)) \in Int /\ Near(Sum(Cut(T, key)), T)
                                 /\ SumEvents(Cut(T, key)) = Cardinality(T)
    BY CutNear, CutAddsUp
  <1>8. Near(Sum(CostByModel(o, p)), S)
    BY <1>1, <1>2, <1>4, <1>5, <1>7, CostByModelCut, NamedNear
  <1>9. Near(Sum(CostByTool(o, p)), S)
    BY <1>1, <1>2, <1>4, <1>5, <1>7, CostByToolCut, NamedNear
  <1>10. /\ Near(Sum(CostByProvider(o, p)), S)
         /\ SumEvents(CostByProvider(o, p)) = Cardinality(S)
    BY <1>1, <1>4, <1>7, CostByProviderCut
  <1>11. /\ Near(Sum(CostByServiceType(o, p)), S)
         /\ SumEvents(CostByServiceType(o, p)) = Cardinality(S)
    BY <1>1, <1>4, <1>7, CostByServiceTypeCut
  <1>12. /\ Near(Sum(CostByExecutionType(o, p)), S)
         /\ SumEvents(CostByExecutionType(o, p)) = Cardinality(S)
    BY <1>1, <1>4, <1>7, CostByExecutionTypeCut
  <1>13. ASSUME o # None PROVE Near(Sum(ProjectTrace(p, o)), S)
    <2>1. G = S
      BY <1>1, <1>3, <1>13, ScopesOfStore
    <2>2. Near(Sum(ProjectTrace(p, o)), G)
      BY <1>3, <1>4, ProjectTraceCut, CutAddsUp
    <2>3. QED
      BY <2>1, <2>2
  <1>14. Near(Shown(S), S)
    BY <1>4, ShownNear
  <1>15. QED
    BY <1>1, <1>6, <1>8, <1>9, <1>10, <1>11, <1>12, <1>13, <1>14

\* The super-admin pages of an organisation, or of all.
LEMMA AdminViews ==
  ASSUME TypeInv, NEW o
  PROVE  LET S == Given(store, o, None)
         IN  /\ Near(Sum(AdminAggregate(o)), S)
             /\ Near(Sum(InsightsToolCosts(o)), S) /\ Near(Sum(RegisteredTools(o)), S)
  <1>1. PICK G : G = Given(store, o, None)
    OBVIOUS
  <1>2. PICK N : N = Named(G)
    OBVIOUS
  <1>3. Tokened(G)
    BY <1>1, ScopesOfStore, StoreTokened
  <1>4. Tokened(N)
    BY <1>2, <1>3, NamedCost
  <1>5. Near(Sum(AdminAggregate(o)), G)
    BY <1>1, <1>3, AdminAggregateCut, CutNear, CutAddsUp
  <1>6. Sum(InsightsToolCosts(o)) \in Int /\ Near(Sum(InsightsToolCosts(o)), N)
    BY <1>1, <1>2, <1>4, InsightsToolCostsCut, CutAddsUp
  <1>7. Sum(RegisteredTools(o)) \in Int /\ Near(Sum(RegisteredTools(o)), N)
    BY <1>1, <1>2, <1>4, RegisteredAddUp
  <1>8. QED
    BY <1>1, <1>2, <1>3, <1>5, <1>6, <1>7, NamedNear

\* What is stored of some events, as a page of four decimals shows it.
LEMMA CentsNear ==
  ASSUME NEW x \in Int
  PROVE  Cents(x) \in Int /\ Within(Cents(x), x, 50 * Scale)
  <1>1. 100 * Scale \in Nat \ {0}
    BY ScaleIs
  <1>2. /\ Cents(x) \in Int
        /\ 2 * Cents(x) - 2 * x <= 100 * Scale /\ 2 * x - 2 * Cents(x) <= 100 * Scale
    BY <1>1, RoundedToNear DEF Cents
  <1>3. QED
    BY <1>2, ScaleIs DEF Within

LEMMA StoredSplit ==
  ASSUME TypeInv, NumbersInv, SplitInv, NEW S \in SUBSET store
  PROVE  /\ LlmCost(S) \in Int /\ InfraCost(S) \in Int
         /\ ExternalCost(S) \in Int /\ TotalCost(S) \in Int
         /\ Within(TotalCost(S), LlmCost(S) + InfraCost(S) + ExternalCost(S),
                   2 * (Scale * Cardinality(S)))
  <1>1. IsFiniteSet(S) /\ \A r \in S : CostNumbers(r)
    BY FS_Subset DEF TypeInv, TableTypes, NumbersInv
  <1>2. PICK t : t = [r \in S |-> r.total]
    OBVIOUS
  <1>3. PICK l : l = [r \in S |-> r.llm]
    OBVIOUS
  <1>4. PICK i : i = [r \in S |-> r.infra]
    OBVIOUS
  <1>5. PICK x : x = [r \in S |-> r.external]
    OBVIOUS
  <1>6. /\ \A r \in S : t[r] = r.total /\ l[r] = r.llm /\ i[r] = r.infra /\ x[r] = r.external
        /\ Numbers(t, S) /\ Numbers(l, S) /\ Numbers(i, S) /\ Numbers(x, S)
    BY <1>1, <1>2, <1>3, <1>4, <1>5 DEF Numbers, CostNumbers
  <1>7. PICK n : /\ \A r \in S : n[r] = 2 * Scale
                 /\ Numbers(n, S) /\ SumOn(n, S) = (2 * Scale) * Cardinality(S)
    <2>1. 2 * Scale \in Nat
      BY ScaleIs
    <2>2. QED
      BY <1>1, <2>1, Units
  <1>8. \A r \in S : /\ t[r] - (l[r] + i[r] + x[r]) <= n[r]
                     /\ l[r] + i[r] + x[r] - t[r] <= n[r]
    <2> TAKE r \in S
    <2>1. /\ r.total - (r.llm + r.infra + r.external) <= 2 * Scale
          /\ r.llm + r.infra + r.external - r.total <= 2 * Scale
      <3>1. r \in store
        OBVIOUS
      <3>2. Within(r.total, r.llm + r.infra + r.external, 2 * Scale)
        BY <3>1, Zenon DEF SplitInv
      <3>3. r.total \in Int /\ r.llm \in Int /\ r.infra \in Int /\ r.external \in Int
        BY <1>1 DEF CostNumbers
      <3>4. QED
        BY <3>2, <3>3, ScaleIs DEF Within
    <2>2. t[r] = r.total /\ l[r] = r.llm /\ i[r] = r.infra /\ x[r] = r.external
      BY <1>6
    <2>3. n[r] = 2 * Scale
      BY <1>7
    <2>4. QED
      BY <2>1, <2>2, <2>3
  <1>9. /\ SumOn(t, S) - (SumOn(l, S) + SumOn(i, S) + SumOn(x, S)) <= SumOn(n, S)
        /\ SumOn(l, S) + SumOn(i, S) + SumOn(x, S) - SumOn(t, S) <= SumOn(n, S)
    BY <1>1, <1>6, <1>7, <1>8, SumApart
  <1>10. /\ TotalCost(S) = SumOn(t, S) /\ LlmCost(S) = SumOn(l, S)
         /\ InfraCost(S) = SumOn(i, S) /\ ExternalCost(S) = SumOn(x, S)
    BY <1>1, <1>6, TotalIs, LlmIs, InfraIs, ExternalIs
  <1>11. (2 * Scale) * Cardinality(S) = 2 * (Scale * Cardinality(S))
    <2>1. \A a, b \in Nat : (2 * a) * b = 2 * (a * b)
      OBVIOUS
    <2>2. QED
      BY <1>1, <2>1, ScaleIs, FS_CardinalityType
  <1>12. QED
    BY <1>1, <1>7, <1>9, <1>10, <1>11, GroupNumbers DEF Within

\* The token costs stored with events that were priced from the catalogue.
LEMMA StoredLlmNear ==
  ASSUME LedgerAssumption, TypeInv, NumbersInv, StoredAsPriced, NEW S \in SUBSET store,
         \A r \in S : CataloguePriced(Sent[r.event]) /\ r.model \notin edited
  PROVE  LlmCost(S) \in Int /\ Near(LlmCost(S), S)
  <1>1. Tokened(S) /\ IsFiniteSet(S) /\ \A r \in S : CostNumbers(r)
    BY StoreTokened DEF NumbersInv, Tokened
  <1>2. PICK f : /\ \A r \in S : f[r] = r.tokens * Rate(r.model)
                 /\ Whole(f, S) /\ Exact(S) = SumOn(f, S) /\ Exact(S) \in Nat
    BY <1>1, ExactWhole
  <1>3. PICK l : l = [r \in S |-> r.llm]
    OBVIOUS
  <1>4. Numbers(l, S) /\ Numbers(f, S) /\ \A r \in S : l[r] = r.llm
    BY <1>1, <1>2, <1>3 DEF Numbers, Whole, CostNumbers
  <1>5. LlmCost(S) = SumOn(l, S)
    BY <1>1, <1>4, LlmIs
  <1>6. PICK n : /\ \A r \in S : n[r] = Scale
                 /\ Numbers(n, S) /\ SumOn(n, S) = Scale * Cardinality(S)
    BY <1>1, ScaleIs, Units
  <1>7. ASSUME NEW r \in S
        PROVE  l[r] - f[r] <= n[r] /\ f[r] - l[r] <= n[r]
    <2>1. r.event \in Events
      BY DEF TypeInv, TableTypes, EventRow
    <2>2. r.model \in DOMAIN Catalogue
      <3>1. PICK c : c = Sent[r.event]
        OBVIOUS
      <3>2. c.parts = <<>> /\ c.model \in DOMAIN Catalogue
        BY <3>1 DEF CataloguePriced
      <3>3. Priced(c).model = c.model
        BY <3>2 DEF Priced
      <3>4. QED
        BY <3>1, <3>2, <3>3 DEF StoredAsPriced
    <2>3. Within(r.llm, r.tokens * Catalogue[r.model], Scale)
      BY <2>2, StoredLikeShown
    <2>4. QED
      BY <1>2, <1>4, <1>6, <2>2, <2>3, RateIs DEF Within
  <1>8. /\ SumOn(l, S) - SumOn(f, S) <= SumOn(n, S) /\ SumOn(f, S) - SumOn(l, S) <= SumOn(n, S)
        /\ SumOn(l, S) \in Int
    BY <1>1, <1>4, <1>6, <1>7, SumNear
  <1>9. QED
    BY <1>2, <1>5, <1>6, <1>8 DEF Near, Within

\* A line of the insights page: its stored costs add up, and are the catalogue's.
LEMMA InsightsLineAgrees ==
  ASSUME LedgerAssumption, TypeInv, NumbersInv, EnforcedInv, NEW S \in SUBSET store,
         NEW line, line = InsightLine(S)
  PROVE  /\ Within(line.total, line.llm + line.infra + line.external,
                   Scale * (2 * line.events + 200))
         /\ line.total = Cents(TotalCost(S))
         /\ \A m : /\ S # {}
                   /\ \A r \in S : /\ r.model = m /\ r.model \notin edited
                                    /\ CataloguePriced(Sent[r.event])
                   => Within(line.llm, line.cost, Scale * (line.events + 51))
  <1>1. /\ line.total = Cents(TotalCost(S)) /\ line.llm = Cents(LlmCost(S))
        /\ line.infra = Cents(InfraCost(S)) /\ line.external = Cents(ExternalCost(S))
        /\ line.events = Cardinality(S) /\ line.cost = Shown(S)
    BY DEF InsightLine
  <1>2. Tokened(S) /\ IsFiniteSet(S) /\ Cardinality(S) \in Nat
    BY StoreTokened, FS_CardinalityType DEF Tokened
  <1>3. PICK u \in Nat : u = Scale * Cardinality(S)
    BY <1>2, UnitsGrow
  <1>4. PICK t \in Int, l \in Int, i \in Int, x \in Int :
               t = TotalCost(S) /\ l = LlmCost(S) /\ i = InfraCost(S) /\ x = ExternalCost(S)
    BY StoredSplit DEF EnforcedInv
  <1>5. PICK ct \in Int, cl \in Int, ci \in Int, cx \in Int :
               ct = Cents(t) /\ cl = Cents(l) /\ ci = Cents(i) /\ cx = Cents(x)
    BY CentsNear
  <1>6. /\ Within(ct, t, 50 * Scale) /\ Within(cl, l, 50 * Scale)
        /\ Within(ci, i, 50 * Scale) /\ Within(cx, x, 50 * Scale)
    BY <1>5, CentsNear
  <1>7. Within(t, l + i + x, 2 * u)
    BY <1>3, <1>4, StoredSplit DEF EnforcedInv
  <1>8. Within(line.total, line.llm + line.infra + line.external,
               Scale * (2 * line.events + 200))
    <2>1. PICK k \in Nat : k = Scale
      BY ScaleIs
    <2>5. /\ ct - t <= 50 * k /\ t - ct <= 50 * k /\ cl - l <= 50 * k /\ l - cl <= 50 * k
          /\ ci - i <= 50 * k /\ i - ci <= 50 * k /\ cx - x <= 50 * k /\ x - cx <= 50 * k
          /\ t - (l + i + x) <= 2 * u /\ l + i + x - t <= 2 * u
      BY <1>6, <1>7, <2>1 DEF Within
    <2>6. Within(ct, cl + ci + cx, 2 * u + 200 * k)
      BY <2>5 DEF Within
    <2>2. \A a, b \in Nat : a * (2 * b + 200) = 2 * (a * b) + 200 * a
      OBVIOUS
    <2>3. Scale * (2 * Cardinality(S) + 200) = 2 * u + 200 * Scale
      BY <1>2, <1>3, <2>2, ScaleIs
    <2>4. QED
      BY <1>1, <1>4, <1>5, <2>1, <2>3, <2>6
  <1>9. ASSUME NEW m, S # {},
               \A r \in S : /\ r.model = m /\ r.model \notin edited
                            /\ CataloguePriced(Sent[r.event])
        PROVE  Within(line.llm, line.cost, Scale * (line.events + 51))
    <2>1. Within(l, Exact(S), u) /\ Exact(S) \in Nat
      <3>1. Near(l, S)
        BY <1>4, <1>9, StoredLlmNear DEF EnforcedInv
      <3>2. QED
        BY <1>2, <1>3, <3>1, ExactWhole DEF Near
    <2>2. Shown(S) = CalculateTokenCost(m, Tokens(S))
      <3>1. {r.model : r \in S} = {m} /\ {r \in S : r.model = m} = S /\ IsFiniteSet({m})
        <4>1. \A r \in S : r.model = m
          BY <1>9
        <4>2. IsFiniteSet({m})
          BY FS_Singleton
        <4>3. QED
          BY <1>9, <4>1, <4>2
      <3>2. PICK c : c = [n \in {m} |-> CalculateTokenCost(n, Tokens({r \in S : r.model = n}))]
        OBVIOUS
      <3>3. \A n \in {m} : c[n] = CalculateTokenCost(n, Tokens({r \in S : r.model = n}))
        BY <3>2
      <3>4. Shown(S) = SumOn(c, {m})
        BY <3>1, <3>3, ShownIs
      <3>5. c[m] = CalculateTokenCost(m, Tokens(S)) /\ c[m] \in Int
        <4>1. CalculateTokenCost(m, Tokens(S)) \in Int
          BY <1>2, <1>9, OneModelCost
        <4>2. c[m] = CalculateTokenCost(m, Tokens(S))
          BY <3>1, <3>3
        <4>3. QED
          BY <4>1, <4>2
      <3>6. SumOn(c, {m}) = c[m] + SumOn(c, {m} \ {m}) /\ {m} \ {m} = {}
        BY <3>1, <3>5, NumberTake DEF Numbers
      <3>7. SumOn(c, {m} \ {m}) = 0
        BY <3>6, SumEmpty
      <3>8. QED
        BY <3>4, <3>5, <3>6, <3>7
    <2>3. PICK shown \in Int : shown = Shown(S)
      BY <1>2, ShownNear
    <2>4. 2 * shown - 2 * Exact(S) <= Scale /\ 2 * Exact(S) - 2 * shown <= Scale
      BY <1>2, <1>9, <2>2, <2>3, OneModelCost
    <2>5. Within(cl, shown, u + 51 * Scale)
      BY <1>6, <2>1, <2>4, ScaleIs DEF Within
    <2>6. \A a, b \in Nat : a * (b + 51) = a * b + 51 * a
      OBVIOUS
    <2>7. Scale * (Cardinality(S) + 51) = u + 51 * Scale
      BY <1>2, <1>3, <2>6, ScaleIs
    <2>8. QED
      BY <1>1, <1>4, <1>5, <2>3, <2>5, <2>7
  <1>10. QED
    BY <1>1, <1>8, <1>9

LEMMA InsightsViews ==
  ASSUME LedgerAssumption, TypeInv, NumbersInv, EnforcedInv, NEW o
  PROVE  InsightsAgree(o)
  <1>1. PICK S : S = Named(Given(store, o, None))
    OBVIOUS
  <1>2. PICK key : key = [r \in S |-> <<r.model, r.provider>>]
    OBVIOUS
  <1>3. PICK lines : lines = InsightsToolCosts(o)
    OBVIOUS
  <1>4. /\ lines = [k \in KeysOf(key, S) |-> InsightLine(WithKey(key, S, k))]
        /\ OldInsightsToolCosts(o) =
             [k \in KeysOf(key, S) |->
                [events |-> Cardinality(WithKey(key, S, k)),
                 tokens |-> Tokens(WithKey(key, S, k)),
                 cost |-> Cents(TotalCost(WithKey(key, S, k)))]]
    BY <1>1, <1>2, <1>3, InsightsToolCostsIs
  <1>5. SUFFICES
          ASSUME NEW k \in KeysOf(key, S)
          PROVE  /\ Within(lines[k].total, lines[k].llm + lines[k].infra + lines[k].external,
                           Scale * (2 * lines[k].events + 200))
                 /\ lines[k].total = OldInsightsToolCosts(o)[k].cost
                 /\ (\A r \in {x \in Given(store, o, None) : ModelProvider(x) = k} :
                       CataloguePriced(Sent[r.event]) /\ r.model \notin edited)
                      => Within(lines[k].llm, lines[k].cost, Scale * (lines[k].events + 51))
    BY <1>3, <1>4 DEF InsightsAgree
  <1>6. PICK P : P = WithKey(key, S, k)
    OBVIOUS
  <1>7. /\ P \in SUBSET store /\ P # {} /\ P \in SUBSET Given(store, o, None)
        /\ \A r \in P : r.model = k[1] /\ ModelProvider(r) = k
    BY <1>1, <1>2, <1>5, <1>6 DEF WithKey, KeysOf, Named, Given, ModelProvider
  <1>8. lines[k] = InsightLine(P) /\ OldInsightsToolCosts(o)[k].cost = Cents(TotalCost(P))
    BY <1>4, <1>5, <1>6
  <1>9. PICK line : line = InsightLine(P)
    OBVIOUS
  <1>10. /\ Within(line.total, line.llm + line.infra + line.external,
                   Scale * (2 * line.events + 200))
         /\ line.total = Cents(TotalCost(P))
         /\ \A m : /\ P # {}
                   /\ \A r \in P : /\ r.model = m /\ r.model \notin edited
                                    /\ CataloguePriced(Sent[r.event])
                   => Within(line.llm, line.cost, Scale * (line.events + 51))
    BY <1>7, <1>9, InsightsLineAgrees
  <1>11. ASSUME \A r \in {x \in Given(store, o, None) : ModelProvider(x) = k} :
                  CataloguePriced(Sent[r.event]) /\ r.model \notin edited
         PROVE  Within(line.llm, line.cost, Scale * (line.events + 51))
    <2>1. \A r \in P : /\ r.model = k[1] /\ r.model \notin edited
                       /\ CataloguePriced(Sent[r.event])
      BY <1>7, <1>11
    <2>2. P # {}
      BY <1>7
    <2>3. QED
      BY <1>10, <2>1, <2>2
  <1>12. QED
    BY <1>8, <1>9, <1>10, <1>11

\* However the cost of a scope is cut - by model, tool, provider, execution or service
\* type, on the cost pages, the super-admin pages or in a project's trace - the parts add
\* up to what its tokens cost, a micro-dollar an event apart at most, no event is lost by
\* a grouping, a trace whose models have one rate costs what they cost apart, and what the
\* insights page takes from the stored costs agrees with itself, with the older page and,
\* for events priced from the catalogue, with the price beside it; for any catalogue and
\* whatever was edited or deleted.
THEOREM CostViewsAddUp == Spec => []CostViewsAgree
  <1>1. Init => TypeInv
    BY TypeInit, LedgerAssumption
  <1>2. Init => NumbersInv /\ EnforcedInv
    BY DEF Init, NumbersInv, EnforcedInv, StoredAsPriced, SplitInv
  <1>3. TypeInv /\ [Next]_vars => TypeInv'
    BY TypeStep, LedgerAssumption
  <1>4. TypeInv /\ NumbersInv /\ [Next]_vars => NumbersInv'
    BY NumbersStep, LedgerAssumption
  <1>5. TypeInv /\ NumbersInv /\ EnforcedInv /\ [Next]_vars => EnforcedInv'
    BY EnforcedStep, LedgerAssumption
  <1>6. ASSUME TypeInv, NumbersInv, EnforcedInv
        PROVE  CostViewsAgree
    <2>1. TracePartsAgree
      BY <1>6, TracePartsSame, LedgerAssumption DEF EnforcedInv
    <2>2. Near(CostTotals.all.cost, store)
      <3>1. CostTotals.all.cost = Shown(store)
        BY DEF CostTotals, Line
      <3>2. QED
        BY <1>6, <3>1, StoreTokened, ShownNear
    <2>3. \A o \in Orgs \cup {None} : InsightsAgree(o)
      BY <1>6, InsightsViews, LedgerAssumption
    <2>4. QED
      BY <1>6, <2>1, <2>2, <2>3, ScopeViews, AdminViews DEF CostViewsAgree
  <1>7. QED
    BY <1>1, <1>2, <1>3, <1>4, <1>5, <1>6, PTL DEF Spec

-----------------------------------------------------------------------------
(* What the summary costs *)

LEMMA ExactRowsIs ==
  ASSUME NEW S, IsFiniteSet(S),
         NEW f, \A r \in S : f[r] = r.tokens * Rate(r.tool)
  PROVE  ExactRows(S) = SumOn(f, S)
  <1> DEFINE Cost(r) == r.tokens * Rate(r.tool)
             h == [r \in S |-> Cost(r)]
             E(g) == g = [s \in SUBSET S |-> IF s = {} THEN 0
                                             ELSE Cost(Pick(s)) + g[s \ {Pick(s)}]]
  <1>1. ExactRows(S) = (CHOOSE g : E(g))[S]
    BY DEF ExactRows, Total, MapThenSumSet, MapThenFoldSet, Pick
  <1>2. \A g : E(g) <=> SumEq(h, S, g)
    <2> TAKE g
    <2>1. \A s \in SUBSET S : s # {} => Pick(s) \in S
      BY DEF Pick
    <2>2. \A s \in SUBSET S : (IF s = {} THEN 0 ELSE Cost(Pick(s)) + g[s \ {Pick(s)}])
                             = (IF s = {} THEN 0 ELSE h[Pick(s)] + g[s \ {Pick(s)}])
      BY <2>1
    <2>3. [s \in SUBSET S |-> IF s = {} THEN 0 ELSE Cost(Pick(s)) + g[s \ {Pick(s)}]] =
          [s \in SUBSET S |-> IF s = {} THEN 0 ELSE h[Pick(s)] + g[s \ {Pick(s)}]]
      BY <2>2
    <2>4. QED
      BY <2>3 DEF SumEq
  <1>3. (CHOOSE g : E(g)) = (CHOOSE g : SumEq(h, S, g))
    <2> HIDE DEF E
    <2>1. QED
      BY <1>2
  <1>4. SumOn(h, S) = SumOn(f, S)
    <2>1. \A r \in S : h[r] = f[r]
      OBVIOUS
    <2> HIDE DEF h
    <2>2. QED
      BY <2>1, SumSame
  <1>5. QED
    BY <1>1, <1>3, <1>4 DEF SumOn

LEMMA ExactRowsAdds ==
  ASSUME NEW T, Tokened(T), NEW x, x.tokens \in Nat, x \notin T
  PROVE  /\ ExactRows(T) \in Nat
         /\ ExactRows(T \cup {x}) = ExactRows(T) + x.tokens * Rate(x.tool)
  <1> DEFINE f == [s \in T \cup {x} |-> s.tokens * Rate(s.tool)]
  <1>1. IsFiniteSet(T) /\ IsFiniteSet(T \cup {x})
    BY FS_AddElement DEF Tokened
  <1>2. /\ \A s \in T : f[s] = s.tokens * Rate(s.tool)
        /\ \A s \in T \cup {x} : f[s] = s.tokens * Rate(s.tool)
        /\ Whole(f, T) /\ Whole(f, T \cup {x}) /\ f[x] = x.tokens * Rate(x.tool)
    BY RateIs DEF Whole, Tokened
  <1> HIDE DEF f
  <1>3. ExactRows(T) = SumOn(f, T) /\ ExactRows(T \cup {x}) = SumOn(f, T \cup {x})
    BY <1>1, <1>2, ExactRowsIs
  <1>4. SumOn(f, T) \in Nat /\ f[x] \in Nat
    BY <1>1, <1>2, SumWhole DEF Whole
  <1>5. SumOn(f, T \cup {x}) = f[x] + SumOn(f, T)
    BY <1>1, <1>2, SumAdd
  <1>6. QED
    BY <1>2, <1>3, <1>4, <1>5

LEMMA ExactAdds ==
  ASSUME NEW T, Tokened(T), NEW x, x.tokens \in Nat, x \notin T
  PROVE  /\ Exact(T) \in Nat
         /\ Exact(T \cup {x}) = Exact(T) + x.tokens * Rate(x.model)
  <1> DEFINE f == [s \in T \cup {x} |-> s.tokens * Rate(s.model)]
  <1>1. IsFiniteSet(T) /\ IsFiniteSet(T \cup {x})
    BY FS_AddElement DEF Tokened
  <1>2. /\ \A s \in T : f[s] = s.tokens * Rate(s.model)
        /\ \A s \in T \cup {x} : f[s] = s.tokens * Rate(s.model)
        /\ Whole(f, T) /\ Whole(f, T \cup {x}) /\ f[x] = x.tokens * Rate(x.model)
    BY RateIs DEF Whole, Tokened
  <1> HIDE DEF f
  <1>3. Exact(T) = SumOn(f, T) /\ Exact(T \cup {x}) = SumOn(f, T \cup {x})
    BY <1>1, <1>2, ExactIs
  <1>4. SumOn(f, T) \in Nat /\ f[x] \in Nat
    BY <1>1, <1>2, SumWhole DEF Whole
  <1>5. SumOn(f, T \cup {x}) = f[x] + SumOn(f, T)
    BY <1>1, <1>2, SumAdd
  <1>6. QED
    BY <1>2, <1>3, <1>4, <1>5

LEMMA CostNone == ExactRows({}) = 0 /\ Exact({}) = 0
  <1> DEFINE f == [s \in {} |-> 0]
  <1>1. /\ \A s \in {} : f[s] = s.tokens * Rate(s.tool)
        /\ \A s \in {} : f[s] = s.tokens * Rate(s.model)
    OBVIOUS
  <1> HIDE DEF f
  <1>2. QED
    BY <1>1, ExactRowsIs, ExactIs, SumEmpty, FS_EmptySet

LEMMA DailyTokened ==
  ASSUME TypeInv, NEW o, NEW p, NEW d
  PROVE  Tokened(DailyOf(o, p, d)) /\ Tokened(Either(o, p, d))
  <1>1. Tokened(DailyOf(o, p, d))
    BY DailyTyped DEF SummaryRowOf, Tokened
  <1>2. Either(o, p, d) \in SUBSET store
    BY DEF Either
  <1>3. QED
    BY <1>1, <1>2, StoreTokened

\* A name given to what has none costs nothing either.
LEMMA NoNameRate ==
  ASSUME LedgerAssumption, NEW m
  PROVE  Rate(ToolName(m)) = Rate(m)
  BY PricingAssumption DEF PricingAssumption, LedgerAssumption, ToolName, Rate,
     NormalizeModelName

\* A rebuild makes one line of many of one tool, which costs what they cost.
LEMMA RebuiltCosts ==
  ASSUME LedgerAssumption, TypeInv, NEW o, NEW p
  PROVE  ExactRows(In(Rebuilt(RowsOfToday), o, p)) = Exact(In(OfToday, o, p))
  <1> DEFINE S == RowsOfToday
             T == In(S, o, p)
             M == In(Rebuilt(S), o, p)
             R == In(OfToday, o, p)
             f == [s \in S |-> s.tokens * Rate(s.tool)]
             t == [s \in S |-> s.tokens]
             g == [s \in M |-> s.tokens * Rate(s.tool)]
             h == [r \in R |-> r.tokens * Rate(r.model)]
  <1>1. /\ IsFiniteSet(S) /\ \A s \in S : s.tokens \in Nat /\ s.day = today
    BY RowsOfTodayTyped DEF TypeInv
  <1>2. /\ IsFiniteSet(M) /\ M = Made(S, T) /\ T \in SUBSET S
        /\ \A q \in T : Group(S, q) \subseteq T /\ IsFiniteSet(Group(S, q))
    BY RebuiltFinite
  <1>3. ExactRows(M) = SumOn(g, M)
    <2>1. \A s \in M : g[s] = s.tokens * Rate(s.tool)
      OBVIOUS
    <2> HIDE DEF g, M
    <2>2. QED
      BY <1>2, <2>1, ExactRowsIs
  <1>4. SumOn(g, Made(S, T)) = SumOn(f, T)
    <2>1. Whole(f, S) /\ Whole(t, S)
      BY <1>1, RateIs DEF Whole
    <2>2. ASSUME NEW q \in T
          PROVE  g[Summed(S, q)] = SumOn(f, Group(S, q))
      <3>1. Summed(S, q) \in M
        BY <1>2 DEF Made
      <3>2. PICK k \in Nat : k = Rate(q.tool)
        BY RateIs
      <3>3. Summed(S, q).tool = q.tool /\ Summed(S, q).tokens = Tokens(Group(S, q))
        BY DEF Summed, GroupRow
      <3>4. PICK G : G = Group(S, q)
        OBVIOUS
      <3>5. IsFiniteSet(G) /\ G \in SUBSET S /\ \A s \in G : s.tool = q.tool
        BY <1>2, <3>4 DEF Group
      <3>6. g[Summed(S, q)] = Tokens(G) * Rate(q.tool)
        BY <3>1, <3>3, <3>4
      <3>7. ASSUME NEW s \in G
            PROVE  f[s] = t[s] * k /\ t[s] = s.tokens
        <4>1. s \in S /\ s.tool = q.tool /\ s.tokens \in Nat
          BY <1>1, <3>5
        <4>2. f[s] = s.tokens * Rate(q.tool) /\ t[s] = s.tokens
          BY <4>1
        <4> HIDE DEF f, t, S, T, M
        <4>3. QED
          BY <3>2, <4>1, <4>2
      <3> HIDE DEF f, g, t, S, T, M
      <3>8. Whole(t, G)
        BY <2>1, <3>5 DEF Whole
      <3>9. Tokens(G) = SumOn(t, G) /\ SumOn(t, G) \in Nat
        BY <3>5, <3>7, <3>8, TokensIs, SumWhole
      <3>10. SumOn(f, G) = SumOn(t, G) * k
        BY <3>2, <3>5, <3>7, <3>8, SumScaled
      <3>11. QED
        BY <3>2, <3>4, <3>6, <3>9, <3>10
    <2> HIDE DEF f, g, t, S, T, M
    <2>3. QED
      BY <1>1, <1>2, <2>1, <2>2, RebuiltSums
  <1>5. SumOn(f, T) = SumOn(h, R)
    <2>1. Whole(h, R)
      BY RateIs DEF Whole, In, OfToday, TypeInv, TableTypes, EventRow
    <2>2. ASSUME NEW r \in R
          PROVE  f[AsRow(r)] = h[r]
      <3>1. r \in OfToday /\ EventRow(r)
        BY DEF In, OfToday, TypeInv, TableTypes
      <3>2. AsRow(r) \in S /\ AsRow(r).tool = ToolName(r.model) /\ AsRow(r).tokens = r.tokens
        BY <3>1, AsRowIs DEF RowsOfToday
      <3>3. Rate(ToolName(r.model)) = Rate(r.model)
        BY NoNameRate
      <3>4. QED
        BY <3>2, <3>3
    <2> HIDE DEF f, h
    <2>3. QED
      BY <2>1, <2>2, OneRowEach
  <1>6. Exact(R) = SumOn(h, R)
    <2>1. \A r \in R : h[r] = r.tokens * Rate(r.model)
      OBVIOUS
    <2>2. IsFiniteSet(R)
      BY RowsOfTodayTyped, FS_Subset DEF TypeInv, In
    <2> HIDE DEF h, R
    <2>3. QED
      BY <2>1, <2>2, ExactIs
  <1> HIDE DEF S, T, R, M, f, g, h, t
  <1>7. QED
    BY <1>2, <1>3, <1>4, <1>5, <1>6 DEF S, R, M

CostWithin(o, p, d) == ExactRows(DailyOf(o, p, d)) <= Exact(Either(o, p, d))
CostInv == \A d \in Days \ dirty : \A o, p : CostWithin(o, p, d)

LEMMA ExactMonotone ==
  ASSUME NEW S, Tokened(S), NEW T \in SUBSET S
  PROVE  Tokened(T) /\ Exact(T) \in Nat /\ Exact(S) \in Nat /\ Exact(T) <= Exact(S)
  <1> DEFINE f == [r \in S |-> r.tokens * Rate(r.model)]
  <1>1. Tokened(T) /\ IsFiniteSet(S) /\ IsFiniteSet(T)
    BY FS_Subset DEF Tokened
  <1>2. /\ Whole(f, S) /\ \A r \in S : f[r] = r.tokens * Rate(r.model)
        /\ \A r \in T : f[r] = r.tokens * Rate(r.model)
    BY RateIs DEF Whole, Tokened
  <1> HIDE DEF f
  <1>3. Exact(S) = SumOn(f, S) /\ Exact(T) = SumOn(f, T)
    BY <1>1, <1>2, ExactIs
  <1>4. QED
    BY <1>1, <1>2, <1>3, SumMonotone

LEMMA RowsExactWhole ==
  ASSUME NEW S, Tokened(S)
  PROVE  ExactRows(S) \in Nat
  <1> DEFINE f == [s \in S |-> s.tokens * Rate(s.tool)]
  <1>1. /\ IsFiniteSet(S) /\ Whole(f, S)
        /\ \A s \in S : f[s] = s.tokens * Rate(s.tool)
    BY RateIs DEF Whole, Tokened
  <1> HIDE DEF f
  <1>2. QED
    BY <1>1, ExactRowsIs, SumWhole

LEMMA RebuildCostWithin ==
  ASSUME LedgerAssumption, TypeInv, RebuildDaily, NEW o, NEW p, NEW d, d \notin dirty',
         d \notin dirty => CostWithin(o, p, d)
  PROVE  CostWithin(o, p, d)'
  <1>1. /\ UNCHANGED store /\ dirty' = dirty \ {today}
        /\ IF d = today THEN DailyOf(o, p, d)' = In(Rebuilt(RowsOfToday), o, p)
                        ELSE DailyOf(o, p, d)' = DailyOf(o, p, d)
    BY RebuildShape
  <1>2. Either(o, p, d)' = Either(o, p, d)
    BY <1>1 DEF Either
  <1>3. CASE d # today
    BY <1>1, <1>2, <1>3 DEF CostWithin
  <1>4. CASE d = today
    <2>1. ExactRows(DailyOf(o, p, d)') = Exact(In(OfToday, o, p))
      BY <1>1, <1>4, RebuiltCosts
    <2>2. Exact(In(OfToday, o, p)) <= Exact(Either(o, p, d))
      BY <1>4, TodayWithin, DailyTokened, ExactMonotone
    <2>3. QED
      BY <1>2, <2>1, <2>2 DEF CostWithin
  <1>5. QED
    BY <1>3, <1>4

LEMMA ShapeCosts ==
  ASSUME TypeInv, NEW r, r.tokens \in Nat, NEW o, NEW p, NEW d, NEW new, NEW changed, NEW K,
         Shape(r, o, p, d, new, changed, K)
  PROVE  ExactRows(DailyOf(o, p, d)')
           = ExactRows(DailyOf(o, p, d)) + r.tokens * Rate(r.model)
  <1>1. PICK D : D = DailyOf(o, p, d)
    OBVIOUS
  <1>2. Tokened(D) /\ \A s \in D : s.tokens \in Nat
    BY <1>1, DailyTokened DEF Tokened
  <1>3. /\ DailyOf(o, p, d)' = K \cup {changed} /\ changed \notin K /\ K \in SUBSET D
        /\ new.tokens = r.tokens /\ new.tool = r.model /\ changed.tokens \in Nat
        /\ changed.tool = r.model
    BY <1>1 DEF Shape, SummaryRowOf, SameKey
  <1>4. Tokened(K)
    BY <1>2, <1>3, FS_Subset DEF Tokened
  <1>5. PICK c \in Nat : c = r.tokens * Rate(r.model)
    BY RateIs
  <1>6. /\ ExactRows(K) \in Nat
        /\ ExactRows(K \cup {changed})
             = ExactRows(K) + changed.tokens * Rate(changed.tool)
    BY <1>3, <1>4, ExactRowsAdds
  <1>7. CASE K = D /\ changed = new
    BY <1>1, <1>3, <1>6, <1>7
  <1>8. ASSUME NEW s \in D, K = D \ {s}, GrownFrom(s, new, changed)
        PROVE  ExactRows(DailyOf(o, p, d)') = ExactRows(D) + c
    <2>1. s.tokens \in Nat /\ changed.tokens = s.tokens + r.tokens /\ s.tool = r.model
      BY <1>2, <1>3, <1>8 DEF GrownFrom, SameKey
    <2>2. D = K \cup {s} /\ s \notin K
      BY <1>8
    <2>3. ExactRows(D) = ExactRows(K) + s.tokens * Rate(r.model)
      BY <1>4, <2>1, <2>2, ExactRowsAdds
    <2>4. changed.tokens * Rate(changed.tool)
            = s.tokens * Rate(r.model) + c
      <3>1. changed.tokens * Rate(changed.tool) = (s.tokens + r.tokens) * Rate(r.model)
        BY <1>3, <2>1
      <3>2. \A a, b, k \in Nat : (a + b) * k = a * k + b * k
        OBVIOUS
      <3>3. QED
        BY <1>5, <2>1, <3>1, <3>2, RateIs
    <2>5. s.tokens * Rate(r.model) \in Nat
      BY <2>1, RateIs
    <2>6. QED
      BY <1>3, <1>5, <1>6, <2>3, <2>4, <2>5
  <1>9. QED
    BY <1>1, <1>5, <1>7, <1>8 DEF Shape

LEMMA IngestCostWithin ==
  ASSUME LedgerAssumption, TypeInv, NEW e \in Events, Ingest(e),
         NEW o, NEW p, NEW d, CostWithin(o, p, d)
  PROVE  CostWithin(o, p, d)'
  <1>1. PICK r : r = Columns(e)
    OBVIOUS
  <1>2. PICK E, D : E = Either(o, p, d) /\ D = DailyOf(o, p, d)
    OBVIOUS
  <1>3. Tokened(E) /\ Tokened(D) /\ r \notin E /\ r.tokens \in Nat
    BY <1>1, <1>2, DailyTokened, IngestEvents
  <1>4. PICK c \in Nat : c = r.tokens * Rate(r.model)
    BY <1>3, RateIs
  <1>5. Exact(E) \in Nat /\ Exact(E \cup {r}) = Exact(E) + c
    BY <1>3, <1>4, ExactAdds
  <1>6. ExactRows(D) \in Nat
    BY <1>3, RowsExactWhole
  <1>7. ExactRows(D) <= Exact(E)
    BY <1>2 DEF CostWithin
  <1>8. CASE ~Mine(r, o, p, d)
    <2>1. DailyOf(o, p, d)' = D
      BY <1>1, <1>2, <1>8, IngestShape
    <2>2. Either(o, p, d)' \in {E, E \cup {r}}
      BY <1>1, <1>2, <1>8, IngestEvents
    <2>3. ExactRows(D) <= Exact(E) /\ ExactRows(D) <= Exact(E \cup {r})
      BY <1>5, <1>6, <1>7
    <2>4. ExactRows(D) <= Exact(Either(o, p, d)')
      BY <2>2, <2>3, Zenon
    <2>5. QED
      BY <2>1, <2>4 DEF CostWithin
  <1>9. CASE Mine(r, o, p, d)
    <2>1. Either(o, p, d)' = E \cup {r}
      BY <1>1, <1>2, <1>9, IngestEvents
    <2>2. ExactRows(DailyOf(o, p, d)') = ExactRows(D) + c
      BY <1>1, <1>2, <1>3, <1>4, <1>9, IngestShape, ShapeCosts
    <2>3. ExactRows(DailyOf(o, p, d)') <= Exact(Either(o, p, d)')
      BY <1>5, <1>6, <1>7, <2>1, <2>2
    <2>4. QED
      BY <2>3 DEF CostWithin
  <1>10. QED
    BY <1>8, <1>9

LEMMA CostStep ==
  ASSUME LedgerAssumption, TypeInv, CostInv, [Next]_vars
  PROVE  CostInv'
  <1> SUFFICES ASSUME NEW d \in Days, d \notin dirty', NEW o, NEW p
               PROVE  CostWithin(o, p, d)'
    BY DEF CostInv, Days
  <1>1. d \notin dirty => CostWithin(o, p, d)
    BY DEF CostInv
  <1>2. CASE d \notin dirty /\ Same(o, p, d)
    BY <1>1, <1>2 DEF Same, CostWithin
  <1>3. CASE Emptied(o, p, d)
    BY <1>3, CostNone DEF Emptied, CostWithin
  <1>4. ASSUME NEW e \in Events, Ingest(e), d \notin dirty
        PROVE  CostWithin(o, p, d)'
    BY <1>1, <1>4, IngestCostWithin
  <1>5. CASE RebuildDaily
    BY <1>1, <1>5, RebuildCostWithin
  <1>6. QED
    BY <1>2, <1>3, <1>4, <1>5, CleanSteps

-----------------------------------------------------------------------------
(* What a page over the summary shows, and what its tokens cost *)

LEMMA ShownRowsIs ==
  ASSUME NEW S, NEW D, D = {s.tool : s \in S}, IsFiniteSet(D),
         NEW f, \A m \in D : f[m] = CalculateTokenCost(m, Tokens({s \in S : s.tool = m}))
  PROVE  ShownRows(S) = SumOn(f, D)
  <1> DEFINE Cost(m) == CalculateTokenCost(m, Tokens({s \in S : s.tool = m}))
             h == [m \in D |-> Cost(m)]
             E(g) == g = [t \in SUBSET D |-> IF t = {} THEN 0
                                             ELSE Cost(Pick(t)) + g[t \ {Pick(t)}]]
  <1>1. ShownRows(S) = (CHOOSE g : E(g))[D]
    BY DEF ShownRows, Total, MapThenSumSet, MapThenFoldSet, Pick
  <1>2. \A g : E(g) <=> SumEq(h, D, g)
    <2> TAKE g
    <2>1. \A t \in SUBSET D : t # {} => Pick(t) \in D
      BY DEF Pick
    <2>2. \A t \in SUBSET D : (IF t = {} THEN 0 ELSE Cost(Pick(t)) + g[t \ {Pick(t)}])
                             = (IF t = {} THEN 0 ELSE h[Pick(t)] + g[t \ {Pick(t)}])
      BY <2>1
    <2>3. [t \in SUBSET D |-> IF t = {} THEN 0 ELSE Cost(Pick(t)) + g[t \ {Pick(t)}]] =
          [t \in SUBSET D |-> IF t = {} THEN 0 ELSE h[Pick(t)] + g[t \ {Pick(t)}]]
      BY <2>2
    <2>4. QED
      BY <2>3 DEF SumEq
  <1>3. (CHOOSE g : E(g)) = (CHOOSE g : SumEq(h, D, g))
    <2> HIDE DEF E
    <2>1. QED
      BY <1>2
  <1>4. SumOn(h, D) = SumOn(f, D)
    <2>1. \A m \in D : h[m] = f[m]
      OBVIOUS
    <2> HIDE DEF h
    <2>2. QED
      BY <2>1, SumSame
  <1>5. QED
    BY <1>1, <1>3, <1>4 DEF SumOn

LEMMA ShownEachRowIs ==
  ASSUME NEW S, IsFiniteSet(S),
         NEW f, \A r \in S : f[r] = CalculateTokenCost(r.tool, r.tokens)
  PROVE  ShownEachRow(S) = SumOn(f, S)
  <1> DEFINE Cost(r) == CalculateTokenCost(r.tool, r.tokens)
             h == [r \in S |-> Cost(r)]
             E(g) == g = [s \in SUBSET S |-> IF s = {} THEN 0
                                             ELSE Cost(Pick(s)) + g[s \ {Pick(s)}]]
  <1>1. ShownEachRow(S) = (CHOOSE g : E(g))[S]
    BY DEF ShownEachRow, Total, MapThenSumSet, MapThenFoldSet, Pick
  <1>2. \A g : E(g) <=> SumEq(h, S, g)
    <2> TAKE g
    <2>1. \A s \in SUBSET S : s # {} => Pick(s) \in S
      BY DEF Pick
    <2>2. \A s \in SUBSET S : (IF s = {} THEN 0 ELSE Cost(Pick(s)) + g[s \ {Pick(s)}])
                             = (IF s = {} THEN 0 ELSE h[Pick(s)] + g[s \ {Pick(s)}])
      BY <2>1
    <2>3. [s \in SUBSET S |-> IF s = {} THEN 0 ELSE Cost(Pick(s)) + g[s \ {Pick(s)}]] =
          [s \in SUBSET S |-> IF s = {} THEN 0 ELSE h[Pick(s)] + g[s \ {Pick(s)}]]
      BY <2>2
    <2>4. QED
      BY <2>3 DEF SumEq
  <1>3. (CHOOSE g : E(g)) = (CHOOSE g : SumEq(h, S, g))
    <2> HIDE DEF E
    <2>1. QED
      BY <1>2
  <1>4. SumOn(h, S) = SumOn(f, S)
    <2>1. \A r \in S : h[r] = f[r]
      OBVIOUS
    <2> HIDE DEF h
    <2>2. QED
      BY <2>1, SumSame
  <1>5. QED
    BY <1>1, <1>3, <1>4 DEF SumOn

LEMMA ExactRowsWhole ==
  ASSUME NEW S, Tokened(S)
  PROVE  \E f : /\ \A r \in S : f[r] = r.tokens * Rate(r.tool)
                /\ Whole(f, S) /\ ExactRows(S) = SumOn(f, S) /\ ExactRows(S) \in Nat
                /\ \A T \in SUBSET S :
                     Tokened(T) /\ ExactRows(T) = SumOn(f, T) /\ ExactRows(T) \in Nat
  <1> DEFINE f == [r \in S |-> r.tokens * Rate(r.tool)]
  <1>1. \A r \in S : r.tokens * Rate(r.tool) \in Nat
    BY RateIs DEF Tokened
  <1>2. \A r \in S : f[r] = r.tokens * Rate(r.tool) /\ f[r] \in Nat
    BY <1>1
  <1> HIDE DEF f
  <1>3. ASSUME NEW T \in SUBSET S
        PROVE  Tokened(T) /\ ExactRows(T) = SumOn(f, T) /\ ExactRows(T) \in Nat
    <2>1. Tokened(T) /\ Whole(f, T) /\ \A r \in T : f[r] = r.tokens * Rate(r.tool)
      BY <1>2, FS_Subset DEF Tokened, Whole
    <2>2. QED
      BY <2>1, ExactRowsIs, SumWhole DEF Tokened
  <1>4. Whole(f, S)
    BY <1>2 DEF Whole
  <1>5. QED
    BY <1>2, <1>3, <1>4

\* The rows of one tool, priced together: one rounding.
LEMMA OneToolCost ==
  ASSUME NEW S, Tokened(S), NEW m, \A r \in S : r.tool = m
  PROVE  /\ CalculateTokenCost(m, Tokens(S)) \in Int /\ ExactRows(S) \in Nat
         /\ 2 * CalculateTokenCost(m, Tokens(S)) - 2 * ExactRows(S) <= Scale
         /\ 2 * ExactRows(S) - 2 * CalculateTokenCost(m, Tokens(S)) <= Scale
  <1>1. PICK f : /\ \A r \in S : f[r] = r.tokens * Rate(r.tool)
                 /\ ExactRows(S) = SumOn(f, S) /\ ExactRows(S) \in Nat
    BY ExactRowsWhole
  <1>2. PICK h : h = [r \in S |-> r.tokens]
    OBVIOUS
  <1>3. IsFiniteSet(S) /\ Whole(h, S) /\ \A r \in S : h[r] = r.tokens /\ f[r] = h[r] * Rate(m)
    BY <1>1, <1>2 DEF Whole, Tokened
  <1>4. Tokens(S) = SumOn(h, S) /\ Tokens(S) \in Nat
    BY <1>3, TokensIs, SumWhole
  <1>5. ExactRows(S) = Tokens(S) * Rate(m)
    BY <1>1, <1>3, <1>4, RateIs, SumScaled
  <1>6. QED
    BY <1>1, <1>4, <1>5, CostNear

\* A page's cost of some rows is near what their tokens cost, however it rounds.
LEMMA ShownRowsNear ==
  ASSUME NEW S, Tokened(S)
  PROVE  ShownRows(S) \in Int /\ NearRows(ShownRows(S), S)
  <1>1. PICK f : /\ Whole(f, S) /\ ExactRows(S) = SumOn(f, S) /\ ExactRows(S) \in Nat
                 /\ \A T \in SUBSET S :
                     Tokened(T) /\ ExactRows(T) = SumOn(f, T) /\ ExactRows(T) \in Nat
    BY ExactRowsWhole
  <1>2. PICK key : key = [r \in S |-> r.tool]
    OBVIOUS
  <1>3. PICK D : D = {r.tool : r \in S}
    OBVIOUS
  <1>4. /\ D = KeysOf(key, S) /\ \A m : {r \in S : r.tool = m} = WithKey(key, S, m)
        /\ \A m : WithKey(key, S, m) \in SUBSET S /\ \A r \in WithKey(key, S, m) : r.tool = m
        /\ \A m \in D : WithKey(key, S, m) # {}
    BY <1>2, <1>3 DEF KeysOf, WithKey
  <1>5. IsFiniteSet(S) /\ IsFiniteSet(D)
    BY <1>4, ImageFinite DEF Tokened, KeysOf
  <1>6. PICK c : c = [m \in D |-> CalculateTokenCost(m, Tokens({r \in S : r.tool = m}))]
    OBVIOUS
  <1>7. \A m \in D : c[m] = CalculateTokenCost(m, Tokens({r \in S : r.tool = m}))
    BY <1>6
  <1>8. ShownRows(S) = SumOn(c, D)
    BY <1>3, <1>5, <1>7, ShownRowsIs
  <1>9. ASSUME NEW m \in D
        PROVE  /\ c[m] \in Int
               /\ c[m] - SumOn(f, WithKey(key, S, m)) <= Scale * Cardinality(WithKey(key, S, m))
               /\ SumOn(f, WithKey(key, S, m)) - c[m] <= Scale * Cardinality(WithKey(key, S, m))
    <2>1. PICK P : P = WithKey(key, S, m)
      OBVIOUS
    <2>2. P \in SUBSET S /\ P # {} /\ \A r \in P : r.tool = m
      BY <1>4, <2>1
    <2>3. Tokened(P) /\ ExactRows(P) = SumOn(f, P)
      BY <1>1, <2>2
    <2>4. c[m] = CalculateTokenCost(m, Tokens(P))
      BY <1>4, <1>7, <2>1
    <2>5. /\ c[m] \in Int /\ ExactRows(P) \in Nat
          /\ 2 * c[m] - 2 * ExactRows(P) <= Scale /\ 2 * ExactRows(P) - 2 * c[m] <= Scale
      BY <2>2, <2>3, <2>4, OneToolCost
    <2>6. Scale <= Scale * Cardinality(P) /\ Scale * Cardinality(P) \in Nat
      BY <1>5, <2>2, UnitsGrow
    <2>7. /\ c[m] - ExactRows(P) <= Scale * Cardinality(P)
          /\ ExactRows(P) - c[m] <= Scale * Cardinality(P)
      BY <2>5, <2>6, ScaleIs
    <2>8. QED
      BY <2>1, <2>3, <2>5, <2>7
  <1>10. Numbers(f, S)
    BY <1>1 DEF Whole, Numbers
  <1>11. /\ SumOn(c, D) \in Int
         /\ SumOn(c, D) - SumOn(f, S) <= Scale * Cardinality(S)
         /\ SumOn(f, S) - SumOn(c, D) <= Scale * Cardinality(S)
    <2>1. Scale \in Nat
      BY ScaleIs
    <2>2. \A m \in KeysOf(key, S) :
            /\ c[m] \in Int
            /\ c[m] - SumOn(f, WithKey(key, S, m)) <= Scale * Cardinality(WithKey(key, S, m))
            /\ SumOn(f, WithKey(key, S, m)) - c[m] <= Scale * Cardinality(WithKey(key, S, m))
      BY <1>4, <1>9
    <2>3. QED
      BY <1>4, <1>5, <1>10, <2>1, <2>2, NearGroups
  <1>12. QED
    BY <1>1, <1>8, <1>11 DEF NearRows, Within

LEMMA ShownEachRowNear ==
  ASSUME NEW S, Tokened(S)
  PROVE  ShownEachRow(S) \in Int /\ NearRows(ShownEachRow(S), S)
  <1>1. PICK f : /\ \A r \in S : f[r] = r.tokens * Rate(r.tool)
                 /\ Whole(f, S) /\ ExactRows(S) = SumOn(f, S) /\ ExactRows(S) \in Nat
    BY ExactRowsWhole
  <1>2. PICK c : c = [r \in S |-> CalculateTokenCost(r.tool, r.tokens)]
    OBVIOUS
  <1>3. IsFiniteSet(S) /\ \A r \in S : c[r] = CalculateTokenCost(r.tool, r.tokens)
    BY <1>2 DEF Tokened
  <1>4. ShownEachRow(S) = SumOn(c, S)
    BY <1>3, ShownEachRowIs
  <1>5. PICK n : /\ \A r \in S : n[r] = Scale
                 /\ Numbers(n, S) /\ SumOn(n, S) = Scale * Cardinality(S)
    BY <1>3, ScaleIs, Units
  <1>6. ASSUME NEW r \in S
        PROVE  c[r] \in Int /\ c[r] - f[r] <= n[r] /\ f[r] - c[r] <= n[r]
    <2>1. /\ c[r] \in Int /\ f[r] \in Nat
          /\ 2 * c[r] - 2 * f[r] <= Scale /\ 2 * f[r] - 2 * c[r] <= Scale
      BY <1>1, <1>3, CostNear DEF Tokened
    <2>2. QED
      BY <1>5, <2>1, ScaleIs
  <1>7. Numbers(c, S) /\ Numbers(f, S)
    BY <1>1, <1>6 DEF Numbers, Whole
  <1>8. /\ SumOn(c, S) - SumOn(f, S) <= SumOn(n, S) /\ SumOn(f, S) - SumOn(c, S) <= SumOn(n, S)
        /\ SumOn(c, S) \in Int
    BY <1>3, <1>5, <1>6, <1>7, SumNear
  <1>9. QED
    BY <1>1, <1>4, <1>5, <1>8 DEF NearRows, Within

-----------------------------------------------------------------------------
(* What an organisation's summary shows, and its events *)

LEMMA SumCovered ==
  ASSUME NEW A, NEW B, IsFiniteSet(A), IsFiniteSet(B), NEW S \in SUBSET (A \cup B),
         NEW f, Whole(f, A \cup B)
  PROVE  SumOn(f, S) <= SumOn(f, A) + SumOn(f, B)
  <1>1. /\ IsFiniteSet(A \cup B) /\ IsFiniteSet(B \ A) /\ A \cap (B \ A) = {}
        /\ A \cup (B \ A) = A \cup B /\ B \ A \in SUBSET B
    BY FS_Union, FS_Subset
  <1>2. Whole(f, A) /\ Whole(f, B)
    BY DEF Whole
  <1>3. SumOn(f, A \cup B) = SumOn(f, A) + SumOn(f, B \ A)
    BY <1>1, SumUnion
  <1>4. SumOn(f, B \ A) \in Nat /\ SumOn(f, B) \in Nat /\ SumOn(f, B \ A) <= SumOn(f, B)
    BY <1>1, <1>2, SumMonotone
  <1>5. SumOn(f, S) \in Nat /\ SumOn(f, S) <= SumOn(f, A \cup B)
    BY <1>1, SumMonotone
  <1>6. SumOn(f, A) \in Nat
    BY <1>2, SumWhole
  <1>7. QED
    BY <1>3, <1>4, <1>5, <1>6

\* Where each key's rows are at most the events that have it, under one key or under
\* another that only some events have, all rows are at most all events and those again.
LEMMA TwiceBound ==
  ASSUME NEW D, NEW E, IsFiniteSet(D), IsFiniteSet(E), NEW W \in SUBSET E,
         NEW f, NEW a, Whole(f, D), Whole(a, E), NEW kd, NEW kc, NEW kw,
         \A v \in KeysOf(kd, D) :
           SumOn(f, WithKey(kd, D, v)) <= SumOn(a, WithKey(kc, E, v)) + SumOn(a, WithKey(kw, W, v))
  PROVE  SumOn(f, D) <= SumOn(a, E) + SumOn(a, W)
  <1> DEFINE V == KeysOf(kd, D)
             g == [v \in V |-> SumOn(f, WithKey(kd, D, v))]
             c == [v \in V |-> SumOn(a, WithKey(kc, E, v))]
             w == [v \in V |-> SumOn(a, WithKey(kw, W, v))]
  <1>1. IsFiniteSet(V) /\ IsFiniteSet(W) /\ Whole(a, W)
    BY ImageFinite, FS_Subset DEF KeysOf, Whole
  <1>2. /\ \A v : WithKey(kd, D, v) \in SUBSET D /\ WithKey(kc, E, v) \in SUBSET E
                  /\ WithKey(kw, W, v) \in SUBSET W
        /\ WithKeys(kc, E, V) \in SUBSET E /\ WithKeys(kw, W, V) \in SUBSET W
    BY DEF WithKey, WithKeys
  <1>3. /\ \A v \in V : g[v] = SumOn(f, WithKey(kd, D, v))
        /\ \A v \in V : c[v] = SumOn(a, WithKey(kc, E, v))
        /\ \A v \in V : w[v] = SumOn(a, WithKey(kw, W, v))
    OBVIOUS
  <1>4. \A v \in V : g[v] <= c[v] + w[v]
    OBVIOUS
  <1> HIDE DEF V, g, c, w
  <1>5. Whole(g, V) /\ Whole(c, V) /\ Whole(w, V)
    BY <1>1, <1>2, <1>3, SumMonotone DEF Whole
  <1>6. SumOn(g, V) <= SumOn(c, V) + SumOn(w, V)
    BY <1>1, <1>4, <1>5, SumBounded
  <1>7. SumOn(g, V) = SumOn(f, D)
    BY <1>3, SumGroups DEF V
  <1>8. SumOn(c, V) = SumOn(a, WithKeys(kc, E, V)) /\ SumOn(w, V) = SumOn(a, WithKeys(kw, W, V))
    BY <1>1, <1>3, SumFibres
  <1>9. /\ SumOn(c, V) \in Nat /\ SumOn(a, E) \in Nat /\ SumOn(c, V) <= SumOn(a, E)
        /\ SumOn(w, V) \in Nat /\ SumOn(a, W) \in Nat /\ SumOn(w, V) <= SumOn(a, W)
    BY <1>1, <1>2, <1>8, SumMonotone
  <1>10. SumOn(f, D) \in Nat
    BY SumWhole
  <1>11. QED
    BY <1>6, <1>7, <1>9, <1>10

RowsOfOrg(o) == {s \in daily : s.org = o}
EventsOfOrg(o) == {r \in store : r.org = o}

LEMMA OrgIs ==
  ASSUME LedgerAssumption, TypeInv, NEW o \in Orgs
  PROVE  /\ Given(store, o, None) = EventsOfOrg(o) /\ Given(daily, o, None) = RowsOfOrg(o)
         /\ Scope(From(0), o, None) = RowsOfOrg(o)
         /\ Tokened(RowsOfOrg(o)) /\ Tokened(EventsOfOrg(o))
         /\ Skewed(EventsOfOrg(o)) \in SUBSET EventsOfOrg(o)
         /\ \A s \in RowsOfOrg(o) : s.events \in Nat /\ s.day \in Days
  <1>1. o # None
    BY DEF LedgerAssumption
  <1>2. /\ IsFiniteSet(RowsOfOrg(o)) /\ IsFiniteSet(EventsOfOrg(o))
        /\ \A s \in RowsOfOrg(o) : s.events \in Nat /\ s.tokens \in Nat /\ s.day \in Days
        /\ \A r \in EventsOfOrg(o) : r.tokens \in Nat
    BY FS_Subset DEF TypeInv, TableTypes, RowsOfOrg, EventsOfOrg, EventRow, SummaryRowOf
  <1>3. \A s \in daily : s.day >= 0
    BY DEF TypeInv, TableTypes, SummaryRowOf
  <1>4. QED
    BY <1>1, <1>2, <1>3 DEF Given, Scope, From, RowsOfOrg, EventsOfOrg, Tokened, Skewed

\* An event is among those of the day it was created, or dated on two.
LEMMA EitherCovered ==
  ASSUME NEW o, NEW p, NEW d
  PROVE  Either(o, p, d) \subseteq
           {r \in EventsOfOrg(o) : <<r.project, r.created>> = <<p, d>>}
             \cup {r \in Skewed(EventsOfOrg(o)) : <<r.project, r.completed>> = <<p, d>>}
  BY DEF Either, EventsOfOrg, Skewed

LEMMA OrgBound ==
  ASSUME LedgerAssumption, TypeInv, NEW o \in Orgs, NEW f, NEW a,
         Whole(f, RowsOfOrg(o)), Whole(a, EventsOfOrg(o)),
         \A d \in Days : \A p : SumOn(f, DailyOf(o, p, d)) <= SumOn(a, Either(o, p, d))
  PROVE  SumOn(f, RowsOfOrg(o)) <= SumOn(a, EventsOfOrg(o)) + SumOn(a, Skewed(EventsOfOrg(o)))
  <1> DEFINE D == RowsOfOrg(o)
             E == EventsOfOrg(o)
             W == Skewed(E)
             kd == [s \in D |-> <<s.project, s.day>>]
             kc == [r \in E |-> <<r.project, r.created>>]
             kw == [r \in W |-> <<r.project, r.completed>>]
  <1>1. IsFiniteSet(D) /\ IsFiniteSet(E) /\ W \in SUBSET E /\ \A s \in D : s.day \in Days
    BY OrgIs DEF Tokened
  <1>2. ASSUME NEW v \in KeysOf(kd, D)
        PROVE  SumOn(f, WithKey(kd, D, v))
                 <= SumOn(a, WithKey(kc, E, v)) + SumOn(a, WithKey(kw, W, v))
    <2>1. PICK s \in D : v = <<s.project, s.day>>
      BY DEF KeysOf
    <2>2. PICK p, d : p = s.project /\ d = s.day
      OBVIOUS
    <2>3. v = <<p, d>> /\ d \in Days
      BY <1>1, <2>1, <2>2
    <2>4. WithKey(kd, D, v) = DailyOf(o, p, d)
      BY <2>3 DEF WithKey, DailyOf, RowsOfOrg
    <2>5. PICK A, B : A = WithKey(kc, E, v) /\ B = WithKey(kw, W, v)
      OBVIOUS
    <2>6. /\ A = {r \in E : <<r.project, r.created>> = <<p, d>>}
          /\ B = {r \in W : <<r.project, r.completed>> = <<p, d>>}
      BY <2>3, <2>5 DEF WithKey
    <2>7. Either(o, p, d) \in SUBSET (A \cup B)
      BY <2>6, EitherCovered
    <2>8. A \in SUBSET E /\ B \in SUBSET E
      BY <1>1, <2>6
    <2> HIDE DEF D, E, W, kd, kc, kw
    <2>9. IsFiniteSet(A) /\ IsFiniteSet(B) /\ Whole(a, A \cup B)
      BY <1>1, <2>8, FS_Subset DEF Whole, E
    <2>10. /\ SumOn(a, Either(o, p, d)) <= SumOn(a, A) + SumOn(a, B)
           /\ SumOn(a, Either(o, p, d)) \in Nat /\ SumOn(a, A) \in Nat /\ SumOn(a, B) \in Nat
      <3>1. IsFiniteSet(A \cup B)
        BY <2>9, FS_Union
      <3>2. QED
        BY <2>7, <2>9, <3>1, SumCovered, SumMonotone
    <2>11. SumOn(f, DailyOf(o, p, d)) <= SumOn(a, Either(o, p, d))
      BY <2>3
    <2>12. SumOn(f, DailyOf(o, p, d)) \in Nat
      <3>1. WithKey(kd, D, v) \in SUBSET D
        BY DEF WithKey
      <3>2. QED
        BY <1>1, <2>4, <3>1, SumMonotone DEF D
    <2>13. QED
      BY <2>4, <2>5, <2>10, <2>11, <2>12
  <1> HIDE DEF D, E, W, kd, kc, kw
  <1>3. SumOn(f, D) <= SumOn(a, E) + SumOn(a, W)
    BY <1>1, <1>2, TwiceBound DEF D, E
  <1>4. QED
    BY <1>3 DEF D, E, W

\* Nothing waiting for a rebuild, an organisation's summary shows no event and no cost
\* that its events do not, but for what is dated on two days.
LEMMA OrgWithin ==
  ASSUME LedgerAssumption, TypeInv, CountInv, CostInv, dirty = {}, NEW o \in Orgs
  PROVE  LET E == EventsOfOrg(o)
         IN  /\ ExactRows(RowsOfOrg(o)) <= Exact(E) + Exact(Skewed(E))
             /\ Count(RowsOfOrg(o)) <= Cardinality(E) + Cardinality(Skewed(E))
  <1> DEFINE D == RowsOfOrg(o)
             E == EventsOfOrg(o)
             W == Skewed(E)
             f == [s \in D |-> s.tokens * Rate(s.tool)]
             a == [r \in E |-> r.tokens * Rate(r.model)]
             n == [s \in D |-> s.events]
             ones == [r \in E |-> 1]
  <1>1. Tokened(D) /\ Tokened(E) /\ W \in SUBSET E /\ \A s \in D : s.events \in Nat
    BY OrgIs
  <1>2. Whole(f, D) /\ Whole(a, E) /\ Whole(n, D) /\ Whole(ones, E)
    BY <1>1, RateIs DEF Whole, Tokened
  <1>3. /\ \A s \in D : f[s] = s.tokens * Rate(s.tool) /\ n[s] = s.events
        /\ \A r \in E : a[r] = r.tokens * Rate(r.model) /\ ones[r] = 1
    OBVIOUS
  <1>4. /\ \A p, d : DailyOf(o, p, d) \in SUBSET D
        /\ \A p, d : Either(o, p, d) \in SUBSET E
    BY DEF DailyOf, RowsOfOrg, Either, EventsOfOrg
  <1> HIDE DEF D, E, W, f, a, n, ones
  <1>5. \A T \in SUBSET D : ExactRows(T) = SumOn(f, T) /\ Count(T) = SumOn(n, T)
    <2> SUFFICES ASSUME NEW T \in SUBSET D
                 PROVE  ExactRows(T) = SumOn(f, T) /\ Count(T) = SumOn(n, T)
      OBVIOUS
    <2>1. IsFiniteSet(T) /\ \A s \in T : f[s] = s.tokens * Rate(s.tool)
                                         /\ n[s] = s.events
      BY <1>1, <1>3, FS_Subset DEF Tokened
    <2>2. QED
      BY <2>1, ExactRowsIs, CountIs
  <1>6. \A T \in SUBSET E : Exact(T) = SumOn(a, T) /\ Cardinality(T) = SumOn(ones, T)
    <2> SUFFICES ASSUME NEW T \in SUBSET E
                 PROVE  Exact(T) = SumOn(a, T) /\ Cardinality(T) = SumOn(ones, T)
      OBVIOUS
    <2>1. IsFiniteSet(T) /\ \A r \in T : a[r] = r.tokens * Rate(r.model)
                                         /\ ones[r] = 1
      BY <1>1, <1>3, FS_Subset DEF Tokened
    <2>2. QED
      BY <2>1, ExactIs, SumOnes
  <1>7. ASSUME NEW d \in Days, NEW p
        PROVE  /\ SumOn(f, DailyOf(o, p, d)) <= SumOn(a, Either(o, p, d))
               /\ SumOn(n, DailyOf(o, p, d)) <= SumOn(ones, Either(o, p, d))
    <2>1. CostWithin(o, p, d) /\ CountedWithin(o, p, d)
      BY DEF CostInv, CountInv
    <2>2. QED
      BY <1>4, <1>5, <1>6, <2>1 DEF CostWithin, CountedWithin
  <1>8. SumOn(f, D) <= SumOn(a, E) + SumOn(a, W)
    BY <1>2, <1>7, OrgBound DEF D, E, W
  <1>9. SumOn(n, D) <= SumOn(ones, E) + SumOn(ones, W)
    BY <1>2, <1>7, OrgBound DEF D, E, W
  <1>10. ExactRows(D) <= Exact(E) + Exact(W) /\ Count(D) <= Cardinality(E) + Cardinality(W)
    BY <1>1, <1>5, <1>6, <1>8, <1>9
  <1>11. QED
    BY <1>10 DEF D, E, W

LEMMA RowsExactMonotone ==
  ASSUME NEW S, Tokened(S), NEW T \in SUBSET S
  PROVE  ExactRows(T) \in Nat /\ ExactRows(S) \in Nat /\ ExactRows(T) <= ExactRows(S)
  <1> DEFINE f == [s \in S |-> s.tokens * Rate(s.tool)]
  <1>1. IsFiniteSet(S) /\ IsFiniteSet(T)
    BY FS_Subset DEF Tokened
  <1>2. /\ Whole(f, S) /\ \A s \in S : f[s] = s.tokens * Rate(s.tool)
        /\ \A s \in T : f[s] = s.tokens * Rate(s.tool)
    BY RateIs DEF Whole, Tokened
  <1> HIDE DEF f
  <1>3. ExactRows(S) = SumOn(f, S) /\ ExactRows(T) = SumOn(f, T)
    BY <1>1, <1>2, ExactRowsIs
  <1>4. QED
    BY <1>1, <1>2, <1>3, SumMonotone

LEMMA OverviewWithin ==
  ASSUME LedgerAssumption, TypeInv, CountInv, CostInv
  PROVE  OverviewWithinEvents
  <1> SUFFICES ASSUME dirty = {}, NEW o \in orgs
               PROVE  LET overview == GovernanceOverview(o, 0).line
                          events == Given(store, o, None)
                          rows == Cardinality(Given(daily, o, None))
                      IN  /\ overview.events <= Cardinality(events) + Cardinality(Skewed(events))
                          /\ overview.cost
                               <= Exact(events) + Exact(Skewed(events)) + Scale * rows
    BY DEF OverviewWithinEvents
  <1>1. o \in Orgs
    BY DEF TypeInv, NameTypes
  <1>2. PICK D, E : D = RowsOfOrg(o) /\ E = EventsOfOrg(o)
    OBVIOUS
  <1>3. /\ Scope(From(0), o, None) = D /\ Given(store, o, None) = E
        /\ Given(daily, o, None) = D /\ Tokened(D) /\ Tokened(E) /\ Skewed(E) \in SUBSET E
    BY <1>1, <1>2, OrgIs
  <1>4. GovernanceOverview(o, 0).line.events = Count(D)
        /\ GovernanceOverview(o, 0).line.cost = ShownEachRow(D)
    BY <1>3 DEF GovernanceOverview, DayLine
  <1>5. /\ ExactRows(D) <= Exact(E) + Exact(Skewed(E))
        /\ Count(D) <= Cardinality(E) + Cardinality(Skewed(E))
    BY <1>1, <1>2, OrgWithin
  <1>6. PICK x \in Int, y \in Nat : x = ShownEachRow(D) /\ y = ExactRows(D)
    BY <1>3, ShownEachRowNear, RowsExactMonotone
  <1>7. PICK u \in Nat : u = Scale * Cardinality(D)
    BY <1>3, UnitsGrow DEF Tokened
  <1>8. x - y <= u
    BY <1>3, <1>6, <1>7, ShownEachRowNear DEF NearRows, Within
  <1>9. Exact(E) \in Nat /\ Exact(Skewed(E)) \in Nat
    BY <1>3, ExactMonotone
  <1>10. x <= Exact(E) + Exact(Skewed(E)) + u
    BY <1>5, <1>6, <1>8, <1>9
  <1>11. QED
    BY <1>3, <1>4, <1>5, <1>6, <1>7, <1>10

\* A share in tenths of a percent: from 999.5 on it is a thousand, and below 989.5 less
\* than 990.
LEMMA TenthsNear ==
  ASSUME NEW x \in Int, NEW limit \in Nat \ {0}
  PROVE  /\ Tenths(x, limit) \in Int
         /\ Tenths(x, limit) >= 1000 => 2000 * x >= 1999 * limit
         /\ Tenths(x, limit) <= 989 => 2000 * x <= 1979 * limit
  <1>1. PICK t \in Int : t = Tenths(x, limit)
    BY HalfEvenNear DEF Tenths
  <1>2. 1000 * x \in Int
    OBVIOUS
  <1>3. 2 * (limit * t) - 2000 * x <= limit /\ 2000 * x - 2 * (limit * t) <= limit
    <2>1. /\ 2 * (limit * t) - 2 * (1000 * x) <= limit
          /\ 2 * (1000 * x) - 2 * (limit * t) <= limit
      BY <1>1, <1>2, HalfEvenNear DEF Tenths
    <2>2. limit * t \in Int
      OBVIOUS
    <2>3. QED
      BY <2>1, <2>2
  <1>4. ASSUME t >= 1000 PROVE limit * t >= 1000 * limit
    <2>1. PICK d \in Nat : d = t - 1000
      BY <1>4
    <2>2. t = 1000 + d /\ limit * d \in Nat
      BY <2>1
    <2>3. limit * (1000 + d) = 1000 * limit + limit * d
      OBVIOUS
    <2>4. QED
      BY <2>2, <2>3
  <1>5. ASSUME t <= 989 PROVE limit * t <= 989 * limit
    <2>1. PICK d \in Nat : d = 989 - t
      BY <1>5
    <2>2. t = 989 - d /\ limit * d \in Nat
      BY <2>1
    <2>3. limit * (989 - d) = 989 * limit - limit * d
      OBVIOUS
    <2>4. QED
      BY <2>2, <2>3
  <1>6. limit * t \in Int
    OBVIOUS
  <1>7. QED
    BY <1>1, <1>3, <1>4, <1>5, <1>6

\* What the notification goes by is at least what the spend-cap page goes by, but for the
\* roundings.
LEMMA NotifiedSpent ==
  ASSUME LedgerAssumption, ReportsAssumption, TypeInv, CountInv, CostInv, dirty = {},
         NEW b \in Budgets, b.project = None, Skewed(Given(store, b.org, None)) = {},
         NEW slack, slack = Scale * (Cardinality(BudgetRows(b))
                                       + Cardinality(Given(store, b.org, None)) + 50)
  PROVE  /\ ShownRows(BudgetRows(b)) \in Int /\ Shown(Named(Given(store, b.org, None))) \in Int
         /\ slack - 50 * Scale \in Nat
         /\ ShownRows(BudgetRows(b)) - (slack - 50 * Scale)
              <= Shown(Named(Given(store, b.org, None)))
  <1>1. b.org \in Orgs
    BY DEF ReportsAssumption
  <1>2. PICK E, D, B : E = EventsOfOrg(b.org) /\ D = RowsOfOrg(b.org) /\ B = BudgetRows(b)
    OBVIOUS
  <1>3. /\ Given(store, b.org, None) = E /\ Given(daily, b.org, None) = D
        /\ Tokened(D) /\ Tokened(E)
    BY <1>1, <1>2, OrgIs
  <1>4. B \in SUBSET D
    BY <1>2, <1>3 DEF BudgetRows
  <1>5. Tokened(B) /\ ExactRows(B) \in Nat /\ ExactRows(D) \in Nat /\ ExactRows(B) <= ExactRows(D)
    BY <1>3, <1>4, FS_Subset, RowsExactMonotone DEF Tokened
  <1>6. Exact({}) = 0 /\ Exact(E) \in Nat
    BY <1>3, CostNone, ExactMonotone
  <1>7. ExactRows(D) <= Exact(E)
    <2>1. Skewed(E) = {}
      BY <1>3
    <2>2. ExactRows(D) <= Exact(E) + Exact({})
      BY <1>1, <1>2, <2>1, OrgWithin
    <2>3. QED
      BY <1>6, <2>2
  <1>8. PICK x \in Int, y \in Int : x = ShownRows(B) /\ y = Shown(Named(E))
    BY <1>3, <1>5, NamedCost, ShownRowsNear, ShownNear
  <1>9. PICK u \in Nat, v \in Nat : u = Scale * Cardinality(B) /\ v = Scale * Cardinality(E)
    BY <1>3, <1>5, UnitsGrow DEF Tokened
  <1>10. x - ExactRows(B) <= u
    BY <1>5, <1>8, <1>9, ShownRowsNear DEF NearRows, Within
  <1>11. Exact(E) - y <= v
    <2>1. Near(y, Named(E))
      BY <1>3, <1>8, NamedCost, ShownNear
    <2>2. Near(y, E)
      BY <1>3, <1>8, <2>1, NamedNear
    <2>3. QED
      BY <1>9, <2>2 DEF Near, Within
  <1>12. x - (u + v) <= y
    BY <1>5, <1>6, <1>7, <1>10, <1>11
  <1>13. slack = u + v + 50 * Scale
    <2>1. \A s, m, n \in Nat : s * (m + n + 50) = s * m + s * n + 50 * s
      OBVIOUS
    <2>2. Cardinality(B) \in Nat /\ Cardinality(E) \in Nat
      BY <1>3, <1>5, FS_CardinalityType DEF Tokened
    <2>3. QED
      BY <1>2, <1>3, <1>9, <2>1, <2>2, ScaleIs
  <1>14. slack - 50 * Scale = u + v
    BY <1>13, ScaleIs
  <1>15. QED
    BY <1>2, <1>3, <1>8, <1>12, <1>14

LEMMA ExceededNotified ==
  ASSUME LedgerAssumption, ReportsAssumption, TypeInv, CountInv, CostInv
  PROVE  ExceededIsNotified
  <1> SUFFICES ASSUME dirty = {}, NEW b \in Budgets, b.project = None,
                      Skewed(Given(store, b.org, None)) = {},
                      NEW slack, slack = Scale * (Cardinality(BudgetRows(b))
                                                    + Cardinality(Given(store, b.org, None)) + 50)
               PROVE  /\ SpendCapStatus(b).spent >= b.limit + slack
                           => BudgetNotification(b) = "exceeded"
                      /\ (/\ SpendCapStatus(b).status = "exceeded"
                          /\ b.threshold <= 99 /\ 1000 * slack <= 9 * b.limit)
                           => BudgetNotification(b) # "none"
    BY DEF ExceededIsNotified
  <1>1. PICK limit \in Nat \ {0} : limit = b.limit
    BY DEF ReportsAssumption
  <1>2. b.threshold \in Nat
    BY DEF ReportsAssumption
  <1>3. PICK x \in Int, y \in Int, w \in Nat :
               /\ x = ShownRows(BudgetRows(b)) /\ y = Shown(Named(Given(store, b.org, None)))
               /\ w = slack - 50 * Scale
    BY NotifiedSpent
  <1>4. x - w <= y
    BY <1>3, NotifiedSpent
  <1>5. slack = w + 50 * Scale /\ slack \in Nat
    <2>1. slack \in Int
      <3>1. slack - 50 * Scale \in Nat
        BY <1>3
      <3>2. IsFiniteSet(BudgetRows(b)) /\ IsFiniteSet(Given(store, b.org, None))
        BY FS_Subset DEF TypeInv, TableTypes, BudgetRows, Given
      <3>3. QED
        BY <3>2, FS_CardinalityType, ScaleIs
    <2>2. QED
      BY <1>3, <2>1, ScaleIs
  <1>6. BudgetNotification(b) = Notification(y, b)
    BY <1>3 DEF BudgetNotification
  <1>7. ASSUME SpendCapStatus(b).spent >= b.limit + slack
        PROVE  BudgetNotification(b) = "exceeded"
    <2>1. SpendCapStatus(b).spent = Cents(x)
      BY <1>3 DEF SpendCapStatus
    <2>2. PICK c \in Int : c = Cents(x)
      BY CentsNear
    <2>3. c - x <= 50 * Scale
      BY <2>2, CentsNear DEF Within
    <2>4. y >= limit
      BY <1>1, <1>4, <1>5, <1>7, <2>1, <2>2, <2>3, ScaleIs
    <2>5. QED
      BY <1>1, <1>6, <2>4 DEF Notification
  <1>8. ASSUME SpendCapStatus(b).status = "exceeded", b.threshold <= 99,
               1000 * slack <= 9 * b.limit
        PROVE  BudgetNotification(b) # "none"
    <2>1. SUFFICES ASSUME BudgetNotification(b) = "none" PROVE FALSE
      OBVIOUS
    <2>2. PICK t \in Int, v \in Int : t = Tenths(x, limit) /\ v = Tenths(y, limit)
      <3>1. Tenths(x, limit) \in Int
        BY TenthsNear
      <3>2. Tenths(y, limit) \in Int
        BY TenthsNear
      <3>3. QED
        BY <3>1, <3>2
    <2>3. Status(t, b) = "exceeded"
      BY <1>1, <1>3, <1>8, <2>2 DEF SpendCapStatus
    <2>4. t >= 1000
      BY <2>3 DEF Status
    <2>5. 2000 * x >= 1999 * limit
      BY <2>2, <2>4, TenthsNear
    <2>6. ~(v >= 10 * b.threshold)
      BY <1>1, <1>6, <2>1, <2>2 DEF Notification
    <2>7. v <= 989
      BY <1>2, <1>8, <2>6
    <2>8. 2000 * y <= 1979 * limit
      BY <2>2, <2>7, TenthsNear
    <2>9. w <= slack /\ 1000 * slack <= 9 * limit
      BY <1>1, <1>5, <1>8, ScaleIs
    <2>10. QED
      BY <1>4, <1>5, <2>5, <2>8, <2>9
  <1>9. QED
    BY <1>7, <1>8

LEMMA WithinInit ==
  ASSUME Init
  PROVE  CountInv /\ CostInv
  <1> SUFFICES ASSUME NEW o, NEW p, NEW d
               PROVE  CountedWithin(o, p, d) /\ CostWithin(o, p, d)
    BY DEF CountInv, CostInv
  <1>1. Both(o, p, d) = {} /\ Either(o, p, d) = {} /\ DailyOf(o, p, d) = {}
    BY DEF Init, Both, Either, DailyOf
  <1>2. QED
    BY <1>1, CountNone, CostNone, FS_EmptySet DEF CountedWithin, CostWithin

\* With no edit waiting for a rebuild and no event dated on two days, a budget of an
\* organisation that the spend-cap page shows spent beyond its limit by more than the
\* roundings is exceeded in the notifications; and one it calls exceeded, which it does
\* from 99.95 % on, is at least approached there, unless its limit is so small that the
\* roundings make up a hundredth of it: the summary never shows a cost that the events do
\* not.
THEOREM ExceededBudgetsAreNotified == Spec => []ExceededIsNotified
  <1>1. Init => TypeInv
    BY TypeInit, LedgerAssumption
  <1>2. Init => CountInv /\ CostInv
    BY WithinInit
  <1>3. TypeInv /\ [Next]_vars => TypeInv'
    BY TypeStep, LedgerAssumption
  <1>4. TypeInv /\ CountInv /\ CostInv /\ [Next]_vars => CountInv' /\ CostInv'
    BY CountStep, CostStep, LedgerAssumption
  <1>5. TypeInv /\ CountInv /\ CostInv => ExceededIsNotified
    BY ExceededNotified, LedgerAssumption, ReportsAssumption
  <1>6. QED
    BY <1>1, <1>2, <1>3, <1>4, <1>5, PTL DEF Spec

-----------------------------------------------------------------------------
(* The two services over one database *)

LEMMA EventsSame ==
  ASSUME NEW a, NEW b, NEW D, IsFiniteSet(D), D = DOMAIN a, D = DOMAIN b,
         \A k \in D : a[k].events = b[k].events
  PROVE  SumEvents(a) = SumEvents(b)
  <1>1. PICK f : f = [k \in D |-> a[k].events]
    OBVIOUS
  <1>2. /\ \A k \in D : f[k] = a[k].events
        /\ \A k \in D : f[k] = b[k].events
    BY <1>1
  <1>3. SumEvents(a) = SumOn(f, D) /\ SumEvents(b) = SumOn(f, D)
    BY <1>2, SumEventsIs
  <1>4. QED
    BY <1>3

\* Two pages that cut the same events the same way have the same lines of events.
SameLines(a, b, S, key) ==
  /\ DOMAIN a = KeysOf(key, S) /\ DOMAIN b = KeysOf(key, S)
  /\ \A k \in KeysOf(key, S) : a[k].events = b[k].events

LEMMA LinesSame ==
  ASSUME NEW a, NEW b, NEW S, IsFiniteSet(S), NEW key, SameLines(a, b, S, key)
  PROVE  SumEvents(a) = SumEvents(b)
  <1>1. IsFiniteSet(KeysOf(key, S))
    BY ImageFinite DEF KeysOf
  <1>2. QED
    BY <1>1, EventsSame DEF SameLines

LEMMA ToolLines ==
  ASSUME NEW o, NEW p, NEW S, S = Named(Given(store, o, p)),
         Scope(store, o, p) = Given(store, o, p)
  PROVE  SameLines(CostByTool(o, p), OldCostByTool(o, p), S, [r \in S |-> r.model])
  <1> DEFINE key == [r \in S |-> r.model]
  <1>1. {r.model : r \in S} = KeysOf(key, S)
    BY DEF KeysOf
  <1> HIDE DEF key
  <1>2. SameLines(CostByTool(o, p), OldCostByTool(o, p), S, key)
    BY <1>1 DEF CostByTool, OldCostByTool, By, Line, Tool, SameLines
  <1>3. QED
    BY <1>2 DEF key

LEMMA ModelLines ==
  ASSUME NEW o, NEW p, NEW S, S = Named(Given(store, o, p)),
         Scope(store, o, p) = Given(store, o, p)
  PROVE  SameLines(CostByModel(o, p), OldCostByModel(o, p), S,
                   [r \in S |-> <<r.model, r.provider>>])
  <1> DEFINE key == [r \in S |-> <<r.model, r.provider>>]
  <1>1. {<<r.model, r.provider>> : r \in S} = KeysOf(key, S)
    BY DEF KeysOf
  <1> HIDE DEF key
  <1>2. SameLines(CostByModel(o, p), OldCostByModel(o, p), S, key)
    BY <1>1 DEF CostByModel, OldCostByModel, By, Line, ModelProvider, SameLines
  <1>3. QED
    BY <1>2 DEF key

LEMMA ProviderLines ==
  ASSUME NEW o, NEW p, NEW S, S = Given(store, o, p), Scope(store, o, p) = S
  PROVE  SameLines(CostByProvider(o, p), OldCostByProvider(o, p), S, [r \in S |-> r.provider])
  <1> DEFINE key == [r \in S |-> r.provider]
  <1>1. {r.provider : r \in S} = KeysOf(key, S)
    BY DEF KeysOf
  <1> HIDE DEF key
  <1>2. SameLines(CostByProvider(o, p), OldCostByProvider(o, p), S, key)
    BY <1>1 DEF CostByProvider, OldCostByProvider, By, Line, Provider, SameLines
  <1>3. QED
    BY <1>2 DEF key

LEMMA AdminLines ==
  ASSUME NEW o, NEW S, S = Given(store, o, None)
  PROVE  SameLines(AdminAggregate(o), OldAdminAggregate(o), S, [r \in S |-> <<r.org, r.model>>])
  <1> DEFINE key == [r \in S |-> <<r.org, r.model>>]
  <1>1. {<<r.org, r.model>> : r \in S} = KeysOf(key, S)
    BY DEF KeysOf
  <1> HIDE DEF key
  <1>2. SameLines(AdminAggregate(o), OldAdminAggregate(o), S, key)
    BY <1>1 DEF AdminAggregate, OldAdminAggregate, By, Line, SameLines
  <1>3. QED
    BY <1>2 DEF key

LEMMA InsightLines ==
  ASSUME NEW o, NEW S, S = Named(Given(store, o, None))
  PROVE  SameLines(InsightsToolCosts(o), OldInsightsToolCosts(o), S,
                   [r \in S |-> <<r.model, r.provider>>])
  <1>1. PICK key : key = [r \in S |-> <<r.model, r.provider>>]
    OBVIOUS
  <1>2. /\ InsightsToolCosts(o) = [k \in KeysOf(key, S) |-> InsightLine(WithKey(key, S, k))]
        /\ OldInsightsToolCosts(o) =
             [k \in KeysOf(key, S) |->
                [events |-> Cardinality(WithKey(key, S, k)),
                 tokens |-> Tokens(WithKey(key, S, k)),
                 cost |-> Cents(TotalCost(WithKey(key, S, k)))]]
    BY <1>1, InsightsToolCostsIs
  <1>3. \A T : InsightLine(T).events = Cardinality(T)
    BY DEF InsightLine
  <1>4. SameLines(InsightsToolCosts(o), OldInsightsToolCosts(o), S, key)
    BY <1>2, <1>3 DEF SameLines
  <1>5. QED
    BY <1>1, <1>4

ControlRows(o, p) ==
  {r \in Decorated(Given(store, o, p)) : r.org \in orgs /\ r.project \in DOMAIN projects}

LEMMA ControlLines ==
  ASSUME NEW o, NEW p, NEW S, S = ControlRows(o, p)
  PROVE  SameLines(ControlCostBreakdown(o, p), OldControlCostBreakdown(o, p), S,
                   [r \in S |-> <<r.org, r.project, r.model, r.provider>>])
  <1> DEFINE key == [r \in S |-> <<r.org, r.project, r.model, r.provider>>]
  <1>1. {<<r.org, r.project, r.model, r.provider>> : r \in S} = KeysOf(key, S)
    BY DEF KeysOf
  <1> HIDE DEF key
  <1>2. SameLines(ControlCostBreakdown(o, p), OldControlCostBreakdown(o, p), S, key)
    BY <1>1 DEF ControlCostBreakdown, OldControlCostBreakdown, By, Line, SameLines, ControlRows
  <1>3. QED
    BY <1>2 DEF key

LEMMA RegisteredSame ==
  ASSUME TypeInv, NEW o
  PROVE  SumEvents(RegisteredTools(o)) = SumEvents(OldRegisteredTools(o))
  <1>1. PICK S : S = Named(Given(store, o, None))
    OBVIOUS
  <1> DEFINE key == [r \in S |-> r.model]
             names == DOMAIN ToolPrice \cup {r.model : r \in S}
  <1>2. names = DOMAIN ToolPrice \cup KeysOf(key, S)
    BY DEF KeysOf
  <1>3. IsFiniteSet(S)
    BY <1>1, ScopesOfStore, StoreTokened DEF Tokened
  <1>4. /\ DOMAIN RegisteredTools(o) = names /\ DOMAIN OldRegisteredTools(o) = names
        /\ \A t \in names : RegisteredTools(o)[t].events = OldRegisteredTools(o)[t].events
    BY <1>1 DEF RegisteredTools, OldRegisteredTools, Line
  <1> HIDE DEF key, names
  <1>5. IsFiniteSet(KeysOf(key, S))
    BY <1>3, ImageFinite DEF KeysOf
  <1>6. IsFiniteSet(names)
    BY <1>2, <1>5, PricingAssumption, FS_Union DEF PricingAssumption
  <1>7. QED
    BY <1>4, <1>6, EventsSame

\* The same groups with the same events, for an organisation that exists.
LEMMA EventPagesSame ==
  ASSUME LedgerAssumption, TypeInv, NEW o \in orgs, NEW p
  PROVE  /\ SumEvents(CostByTool(o, p)) = SumEvents(OldCostByTool(o, p))
         /\ SumEvents(CostByModel(o, p)) = SumEvents(OldCostByModel(o, p))
         /\ SumEvents(CostByProvider(o, p)) = SumEvents(OldCostByProvider(o, p))
         /\ SumEvents(AdminAggregate(o)) = SumEvents(OldAdminAggregate(o))
         /\ SumEvents(InsightsToolCosts(o)) = SumEvents(OldInsightsToolCosts(o))
         /\ SumEvents(RegisteredTools(o)) = SumEvents(OldRegisteredTools(o))
         /\ SumEvents(ControlCostBreakdown(o, p)) = SumEvents(OldControlCostBreakdown(o, p))
  <1>1. o # None /\ Scope(store, o, p) = Given(store, o, p)
    BY ScopesOfStore DEF LedgerAssumption, TypeInv, NameTypes
  <1>2. PICK S, N, A, M, C : /\ S = Given(store, o, p) /\ N = Named(Given(store, o, p))
                             /\ A = Given(store, o, None) /\ M = Named(Given(store, o, None))
                             /\ C = ControlRows(o, p)
    OBVIOUS
  <1>3. C \in SUBSET store
    BY <1>2, ScopesOfStore DEF ControlRows, Decorated
  <1>4. IsFiniteSet(S) /\ IsFiniteSet(N) /\ IsFiniteSet(A) /\ IsFiniteSet(M) /\ IsFiniteSet(C)
    BY <1>2, <1>3, ScopesOfStore, StoreTokened DEF Tokened
  <1>5. SumEvents(CostByTool(o, p)) = SumEvents(OldCostByTool(o, p))
    BY <1>1, <1>2, <1>4, ToolLines, LinesSame
  <1>6. SumEvents(CostByModel(o, p)) = SumEvents(OldCostByModel(o, p))
    BY <1>1, <1>2, <1>4, ModelLines, LinesSame
  <1>7. SumEvents(CostByProvider(o, p)) = SumEvents(OldCostByProvider(o, p))
    BY <1>1, <1>2, <1>4, ProviderLines, LinesSame
  <1>8. SumEvents(AdminAggregate(o)) = SumEvents(OldAdminAggregate(o))
    BY <1>2, <1>4, AdminLines, LinesSame
  <1>9. SumEvents(InsightsToolCosts(o)) = SumEvents(OldInsightsToolCosts(o))
    BY <1>2, <1>4, InsightLines, LinesSame
  <1>10. SumEvents(ControlCostBreakdown(o, p)) = SumEvents(OldControlCostBreakdown(o, p))
    BY <1>2, <1>4, ControlLines, LinesSame
  <1>11. QED
    BY <1>5, <1>6, <1>7, <1>8, <1>9, <1>10, RegisteredSame

\* However stored costs are cut, they add up to all of them.
LEMMA StoredCut ==
  ASSUME NEW S, IsFiniteSet(S), \A r \in S : CostNumbers(r), NEW key,
         NEW report, DOMAIN report = KeysOf(key, S),
         \A k \in KeysOf(key, S) : report[k].cost = Stored(WithKey(key, S, k))
  PROVE  Sum(report) = Stored(S)
  <1> DEFINE D == KeysOf(key, S)
             f == [r \in S |-> r.total]
             g == [k \in D |-> report[k].cost]
  <1>1. /\ Numbers(f, S) /\ \A r \in S : f[r] = r.total
        /\ \A k \in D : g[k] = report[k].cost
    BY DEF Numbers, CostNumbers
  <1>2. /\ IsFiniteSet(D)
        /\ \A k : WithKey(key, S, k) \in SUBSET S /\ IsFiniteSet(WithKey(key, S, k))
    BY ImageFinite, FS_Subset DEF KeysOf, WithKey
  <1> HIDE DEF f, g
  <1>3. ASSUME NEW k \in D
        PROVE  g[k] = SumOn(f, WithKey(key, S, k))
    <2>1. \A r \in WithKey(key, S, k) : f[r] = r.total
      BY <1>1, <1>2
    <2>2. Stored(WithKey(key, S, k)) = SumOn(f, WithKey(key, S, k))
      BY <1>2, <2>1, TotalIs DEF Stored
    <2>3. QED
      BY <1>1, <2>2
  <1>4. SumOn(g, D) = SumOn(f, S)
    BY <1>1, <1>3, NumberGroups
  <1>5. Sum(report) = SumOn(g, D)
    BY <1>1, <1>2, SumIs
  <1>6. Stored(S) = SumOn(f, S)
    BY <1>1, TotalIs DEF Stored
  <1>7. QED
    BY <1>4, <1>5, <1>6

LEMMA ToolUsageAddsUp ==
  ASSUME TypeInv, NumbersInv
  PROVE  Sum(ToolUsage) = OldCostTotals.all.cost
  <1> DEFINE key == [r \in store |-> r.model]
  <1>1. /\ \A k : {r \in store : r.model = k} = WithKey(key, store, k)
        /\ {r.model : r \in store} = KeysOf(key, store)
    BY DEF WithKey, KeysOf
  <1> HIDE DEF key
  <1>2. /\ DOMAIN ToolUsage = KeysOf(key, store)
        /\ \A k \in KeysOf(key, store) : ToolUsage[k].cost = Stored(WithKey(key, store, k))
    BY <1>1 DEF ToolUsage, By, Line, Tool
  <1>3. IsFiniteSet(store) /\ \A r \in store : CostNumbers(r)
    BY DEF TypeInv, TableTypes, NumbersInv
  <1>4. Sum(ToolUsage) = Stored(store)
    BY <1>2, <1>3, StoredCut
  <1>5. OldCostTotals.all.cost = Stored(store)
    BY DEF OldCostTotals, Line
  <1>6. QED
    BY <1>4, <1>5

\* What belongs to no organisation that exists is what a page over all leaves out.
LEMMA HiddenEvents ==
  ASSUME TypeInv, NEW p
  PROVE  OldCostBreakdownSummary(None, p).events =
           CostBreakdownSummary(None, p).events
             + Cardinality({r \in Given(store, None, p) : r.org \notin orgs})
  <1>0. PICK G, S : G = Given(store, None, p) /\ S = Scope(store, None, p)
    OBVIOUS
  <1>1. PICK H : H = {r \in G : r.org \notin orgs}
    OBVIOUS
  <1>2. S = {r \in G : r.org \in orgs}
    BY <1>0 DEF Scope
  <1>3. IsFiniteSet(S) /\ IsFiniteSet(H) /\ S \cup H = G /\ S \cap H = {}
    BY <1>0, <1>1, <1>2, ScopesOfStore, StoreTokened, FS_Subset DEF Tokened
  <1>4. Cardinality(G) = Cardinality(S) + Cardinality(H)
    <2>1. Cardinality(S) \in Nat /\ Cardinality(H) \in Nat /\ Cardinality(S \cap H) = 0
      BY <1>3, FS_CardinalityType, FS_EmptySet
    <2>2. Cardinality(S \cup H) = Cardinality(S) + Cardinality(H) - Cardinality(S \cap H)
      BY <1>3, FS_Union
    <2>3. QED
      BY <1>3, <2>1, <2>2
  <1>5. OldCostBreakdownSummary(None, p).events = Cardinality(G)
    BY <1>0 DEF OldCostBreakdownSummary, Line
  <1>6. CostBreakdownSummary(None, p).events = Cardinality(S)
    BY <1>0 DEF CostBreakdownSummary
  <1>7. QED
    BY <1>0, <1>1, <1>4, <1>5, <1>6

LEMMA ProjectPages ==
  ASSUME TypeInv, NEW o, NEW q \in DOMAIN OldCostByProject(o)
  PROVE  OldCostByProject(o)[q].events <= CostByProject(o)[q].events
  <1>1. PICK G : G = Given(store, None, q)
    OBVIOUS
  <1>2. IsFiniteSet(G) /\ Decorated(G) \in SUBSET G
    BY <1>1, ScopesOfStore, StoreTokened DEF Tokened, Decorated
  <1>3. Cardinality(Decorated(G)) <= Cardinality(G)
    BY <1>2, FS_Subset
  <1>4. OldCostByProject(o)[q].events = Cardinality(Decorated(G))
    BY <1>1 DEF OldCostByProject, Line
  <1>5. CostByProject(o)[q].events = Cardinality(G)
    <2>1. CostByProject(o)[q] = [Line(G, Shown) EXCEPT !.cost = Shown(Given(store, o, q))]
      BY <1>1 DEF OldCostByProject, CostByProject
    <2>2. PICK line : line = Line(G, Shown)
      OBVIOUS
    <2>3. line.events = Cardinality(G) /\ DOMAIN line = {"events", "tokens", "cost"}
      BY <2>2 DEF Line
    <2>4. QED
      BY <2>1, <2>2, <2>3
  <1>6. QED
    BY <1>3, <1>4, <1>5

LEMMA ServicesSame ==
  ASSUME LedgerAssumption, TypeInv, StoredAsPriced, NumbersInv
  PROVE  ServicesAgree
  <1>1. ASSUME NEW p \in Projects \cup {None}, NEW o \in orgs
        PROVE  /\ QuotaStatus(o, p).month.tokens = OldQuotaStatus(o, p).tokens
               /\ CostByOrg[o].events = OldCostByOrg[o].events
               /\ ListLogs(o, None) = OldListLogs(o, None)
    <2>1. o # None
      BY DEF LedgerAssumption, TypeInv, NameTypes
    <2>2. QuotaStatus(o, p).month.tokens = OldQuotaStatus(o, p).tokens
      BY DEF QuotaStatus, OldQuotaStatus, DayLine
    <2>3. CostByOrg[o].events = OldCostByOrg[o].events
      BY DEF CostByOrg, OldCostByOrg, Line
    <2>4. ListLogs(o, None) = OldListLogs(o, None)
      BY <2>1, ScopesOfStore DEF ListLogs, OldListLogs
    <2>5. QED
      BY <2>2, <2>3, <2>4
  <1>2. ASSUME NEW p \in Projects \cup {None}, NEW o \in orgs, NEW S, S = Given(store, o, p),
               \A r \in S : CataloguePriced(Sent[r.event]) /\ r.model \notin edited
        PROVE  Within(Sum(CostByTool(o, p)), LlmCost(Named(S)),
                      2 * Scale * Cardinality(Named(S)))
    <2>1. o # None /\ Scope(store, o, p) = S
      BY <1>2, ScopesOfStore DEF LedgerAssumption, TypeInv, NameTypes
    <2>2. PICK N : N = Named(S)
      OBVIOUS
    <2>3. N \in SUBSET store /\ N \in SUBSET S /\ Tokened(N)
      BY <1>2, <2>2, ScopesOfStore, StoreTokened DEF Named
    <2>4. PICK key : key = [r \in N |-> r.model]
      OBVIOUS
    <2>5. CostByTool(o, p) = Cut(N, key)
      BY <2>1, <2>2, <2>4, CostByToolCut
    <2>6. Sum(CostByTool(o, p)) \in Int /\ Near(Sum(CostByTool(o, p)), N)
      BY <2>3, <2>5, CutNear, CutAddsUp
    <2>7. LlmCost(N) \in Int /\ Near(LlmCost(N), N)
      BY <1>2, <2>3, StoredLlmNear
    <2>8. Exact(N) \in Nat
      BY <2>3, ExactWhole
    <2>9. PICK a \in Int, b \in Int, x \in Nat, c \in Nat :
            /\ a = Sum(CostByTool(o, p)) /\ b = LlmCost(N) /\ x = Exact(N)
            /\ c = Cardinality(N)
      BY <2>3, <2>6, <2>7, <2>8, FS_CardinalityType DEF Tokened
    <2>10. /\ a - x <= Scale * c /\ x - a <= Scale * c
           /\ b - x <= Scale * c /\ x - b <= Scale * c
      BY <2>6, <2>7, <2>9 DEF Near, Within
    <2>11. Scale * c \in Nat /\ 2 * Scale * c = 2 * (Scale * c)
      BY ScaleIs
    <2>12. Within(a, b, 2 * Scale * c)
      BY <2>10, <2>11 DEF Within
    <2>13. QED
      BY <2>2, <2>9, <2>12
  <1>3. QED
    BY <1>1, <1>2, EventPagesSame, ProjectPages, ToolUsageAddsUp, HiddenEvents DEF ServicesAgree

\* The two services over one database report the same groups and events of an organisation
\* that exists, differ over all by what belongs to none, and agree on token costs, but for the
\* roundings of both, where every event is priced from the catalogue and unedited.
THEOREM BothServicesAgree == Spec => []ServicesAgree
  <1>1. Init => TypeInv
    BY TypeInit, LedgerAssumption
  <1>2. Init => EnforcedInv /\ NumbersInv
    BY DEF Init, EnforcedInv, StoredAsPriced, SplitInv, NumbersInv
  <1>3. TypeInv /\ [Next]_vars => TypeInv'
    BY TypeStep, LedgerAssumption
  <1>4. TypeInv /\ NumbersInv /\ EnforcedInv /\ [Next]_vars => EnforcedInv'
    BY EnforcedStep, LedgerAssumption
  <1>5. TypeInv /\ NumbersInv /\ [Next]_vars => NumbersInv'
    BY NumbersStep, LedgerAssumption
  <1>6. TypeInv /\ EnforcedInv /\ NumbersInv => ServicesAgree
    BY ServicesSame, LedgerAssumption DEF EnforcedInv
  <1>7. QED
    BY <1>1, <1>2, <1>3, <1>4, <1>5, <1>6, PTL DEF Spec

-----------------------------------------------------------------------------
(* The pages over the summary *)

Dated(S) == IsFiniteSet(S) /\ \A s \in S : s.events \in Nat /\ s.tokens \in Nat

LEMMA DatedParts ==
  ASSUME NEW S, Dated(S), NEW T \in SUBSET S
  PROVE  /\ Dated(T) /\ Tokened(T) /\ Count(T) \in Nat /\ ExactRows(T) \in Nat
         /\ Count(S) = Count(T) + Count(S \ T)
         /\ ExactRows(S) = ExactRows(T) + ExactRows(S \ T)
  <1>1. Tokened(S)
    BY DEF Dated, Tokened
  <1>2. PICK n : n = [s \in S |-> s.events]
    OBVIOUS
  <1>3. PICK f : /\ Whole(f, S) /\ ExactRows(S) = SumOn(f, S)
                 /\ \A R \in SUBSET S : ExactRows(R) = SumOn(f, R)
    BY <1>1, ExactRowsWhole
  <1>4. /\ IsFiniteSet(S) /\ IsFiniteSet(T) /\ IsFiniteSet(S \ T) /\ S \ T \in SUBSET S
        /\ Dated(T) /\ Tokened(T)
    BY FS_Subset DEF Dated, Tokened
  <1>5. Whole(n, S) /\ \A s \in S : n[s] = s.events
    BY <1>2 DEF Whole, Dated
  <1>6. \A R \in SUBSET S : IsFiniteSet(R) => Count(R) = SumOn(n, R)
    BY <1>5, CountIs
  <1>7. /\ SumOn(n, S) = SumOn(n, T) + SumOn(n, S \ T) /\ SumOn(n, T) \in Nat
        /\ SumOn(f, S) = SumOn(f, T) + SumOn(f, S \ T) /\ SumOn(f, T) \in Nat
    BY <1>3, <1>4, <1>5, SumSplit
  <1>8. QED
    BY <1>3, <1>4, <1>6, <1>7

\* However the rows of the summary are cut, the lines add up to all of them.
EventLines(report, S, key) ==
  /\ DOMAIN report = KeysOf(key, S)
  /\ \A k \in KeysOf(key, S) : report[k].events = Count(WithKey(key, S, k))
CostLines(report, S, key) ==
  /\ DOMAIN report = KeysOf(key, S)
  /\ \A k \in KeysOf(key, S) :
       report[k].cost \in Int /\ NearRows(report[k].cost, WithKey(key, S, k))

LEMMA EventsCut ==
  ASSUME NEW S, Dated(S), NEW key, NEW report, EventLines(report, S, key)
  PROVE  SumEvents(report) = Count(S)
  <1>1. PICK D : D = KeysOf(key, S)
    OBVIOUS
  <1>2. PICK n, g : n = [s \in S |-> s.events] /\ g = [k \in D |-> report[k].events]
    OBVIOUS
  <1>3. /\ Whole(n, S) /\ \A s \in S : n[s] = s.events
        /\ \A k \in D : g[k] = report[k].events
    BY <1>2 DEF Whole, Dated
  <1>4. /\ IsFiniteSet(S) /\ IsFiniteSet(D)
        /\ \A k : WithKey(key, S, k) \in SUBSET S /\ IsFiniteSet(WithKey(key, S, k))
    BY <1>1, ImageFinite, FS_Subset DEF KeysOf, WithKey, Dated
  <1>5. \A R \in SUBSET S : IsFiniteSet(R) => Count(R) = SumOn(n, R)
    BY <1>3, CountIs
  <1>6. \A k \in D : g[k] = SumOn(n, WithKey(key, S, k))
    BY <1>1, <1>3, <1>4, <1>5 DEF EventLines
  <1>7. SumOn(g, D) = SumOn(n, S)
    BY <1>1, <1>3, <1>4, <1>6, SumGroups
  <1>8. SumEvents(report) = SumOn(g, D)
    BY <1>1, <1>3, <1>4, SumEventsIs DEF EventLines
  <1>9. QED
    BY <1>4, <1>5, <1>7, <1>8

LEMMA RowsCut ==
  ASSUME NEW S, Dated(S), NEW key, NEW report, CostLines(report, S, key)
  PROVE  NearRows(Sum(report), S)
  <1>1. Tokened(S)
    BY DEF Dated, Tokened
  <1>2. PICK f : /\ Whole(f, S) /\ ExactRows(S) = SumOn(f, S) /\ ExactRows(S) \in Nat
                 /\ \A T \in SUBSET S : ExactRows(T) = SumOn(f, T) /\ ExactRows(T) \in Nat
    BY <1>1, ExactRowsWhole
  <1>3. PICK D : D = KeysOf(key, S)
    OBVIOUS
  <1>4. PICK c : c = [k \in D |-> report[k].cost]
    OBVIOUS
  <1>5. \A k : WithKey(key, S, k) \in SUBSET S
    BY DEF WithKey
  <1>6. \A k \in D : c[k] = report[k].cost
    BY <1>4
  <1>7. \A k \in KeysOf(key, S) :
          /\ c[k] \in Int
          /\ c[k] - SumOn(f, WithKey(key, S, k)) <= Scale * Cardinality(WithKey(key, S, k))
          /\ SumOn(f, WithKey(key, S, k)) - c[k] <= Scale * Cardinality(WithKey(key, S, k))
    BY <1>2, <1>3, <1>5, <1>6 DEF CostLines, NearRows, Within
  <1>8. IsFiniteSet(S) /\ Numbers(f, S) /\ Scale \in Nat
    BY <1>1, <1>2, ScaleIs DEF Numbers, Whole, Tokened
  <1>9. /\ SumOn(c, KeysOf(key, S)) - SumOn(f, S) <= Scale * Cardinality(S)
        /\ SumOn(f, S) - SumOn(c, KeysOf(key, S)) <= Scale * Cardinality(S)
    BY <1>7, <1>8, NearGroups
  <1>10. IsFiniteSet(D) /\ D = DOMAIN report
    BY <1>3, <1>8, ImageFinite DEF KeysOf, CostLines
  <1>11. Sum(report) = SumOn(c, D)
    BY <1>6, <1>10, SumIs
  <1>12. QED
    BY <1>2, <1>3, <1>9, <1>11 DEF NearRows, Within

\* Each line is what its rows' tokens cost, but for the roundings.
LEMMA LinesNear ==
  ASSUME NEW S, Dated(S), NEW key, NEW report, DOMAIN report = KeysOf(key, S),
         \A k \in KeysOf(key, S) : report[k].cost = ShownRows(WithKey(key, S, k))
  PROVE  CostLines(report, S, key)
  <1>1. \A k : Tokened(WithKey(key, S, k))
    BY FS_Subset DEF WithKey, Dated, Tokened
  <1>2. \A k : /\ ShownRows(WithKey(key, S, k)) \in Int
               /\ NearRows(ShownRows(WithKey(key, S, k)), WithKey(key, S, k))
    BY <1>1, ShownRowsNear
  <1>3. QED
    BY <1>2 DEF CostLines

LEMMA ByDayTool ==
  ASSUME NEW S, Dated(S)
  PROVE  /\ SumEvents(DayBy(S, DayTool, ShownRows)) = Count(S)
         /\ NearRows(Sum(DayBy(S, DayTool, ShownRows)), S)
         /\ SumEvents(DayBy(S, DayTool, Stored)) = Count(S)
  <1> DEFINE key == [s \in S |-> <<s.day, s.tool>>]
  <1>1. /\ \A k : {s \in S : <<s.day, s.tool>> = k} = WithKey(key, S, k)
        /\ {<<s.day, s.tool>> : s \in S} = KeysOf(key, S)
    BY DEF WithKey, KeysOf
  <1> HIDE DEF key
  <1>2. PICK a, b : a = DayBy(S, DayTool, ShownRows) /\ b = DayBy(S, DayTool, Stored)
    OBVIOUS
  <1>3. EventLines(a, S, key) /\ EventLines(b, S, key)
    BY <1>1, <1>2 DEF DayBy, DayLine, DayTool, EventLines
  <1>4. CostLines(a, S, key)
    <2>1. /\ DOMAIN a = KeysOf(key, S)
          /\ \A k \in KeysOf(key, S) : a[k].cost = ShownRows(WithKey(key, S, k))
      BY <1>1, <1>2 DEF DayBy, DayLine, DayTool
    <2>2. QED
      BY <2>1, LinesNear
  <1>5. SumEvents(a) = Count(S) /\ SumEvents(b) = Count(S)
    BY <1>3, EventsCut
  <1>6. NearRows(Sum(a), S)
    BY <1>4, RowsCut
  <1>7. QED
    BY <1>2, <1>5, <1>6

LEMMA ByDay ==
  ASSUME NEW S, Dated(S)
  PROVE  /\ SumEvents(DayBy(S, Day, ShownRows)) = Count(S)
         /\ NearRows(Sum(DayBy(S, Day, ShownRows)), S)
         /\ SumEvents(DayBy(S, Day, Stored)) = Count(S)
  <1> DEFINE key == [s \in S |-> s.day]
  <1>1. /\ \A k : {s \in S : s.day = k} = WithKey(key, S, k)
        /\ {s.day : s \in S} = KeysOf(key, S)
    BY DEF WithKey, KeysOf
  <1> HIDE DEF key
  <1>2. PICK a, b : a = DayBy(S, Day, ShownRows) /\ b = DayBy(S, Day, Stored)
    OBVIOUS
  <1>3. EventLines(a, S, key) /\ EventLines(b, S, key)
    BY <1>1, <1>2 DEF DayBy, DayLine, Day, EventLines
  <1>4. CostLines(a, S, key)
    <2>1. /\ DOMAIN a = KeysOf(key, S)
          /\ \A k \in KeysOf(key, S) : a[k].cost = ShownRows(WithKey(key, S, k))
      BY <1>1, <1>2 DEF DayBy, DayLine, Day
    <2>2. QED
      BY <2>1, LinesNear
  <1>5. SumEvents(a) = Count(S) /\ SumEvents(b) = Count(S)
    BY <1>3, EventsCut
  <1>6. NearRows(Sum(a), S)
    BY <1>4, RowsCut
  <1>7. QED
    BY <1>2, <1>5, <1>6

LEMMA StoredByDayTool ==
  ASSUME NEW S, IsFiniteSet(S), \A s \in S : CostNumbers(s)
  PROVE  Sum(DayBy(S, DayTool, Stored)) = Stored(S)
  <1> DEFINE key == [s \in S |-> <<s.day, s.tool>>]
  <1>1. /\ \A k : {s \in S : <<s.day, s.tool>> = k} = WithKey(key, S, k)
        /\ {<<s.day, s.tool>> : s \in S} = KeysOf(key, S)
    BY DEF WithKey, KeysOf
  <1> HIDE DEF key
  <1>2. PICK report : report = DayBy(S, DayTool, Stored)
    OBVIOUS
  <1>3. /\ DOMAIN report = KeysOf(key, S)
        /\ \A k \in KeysOf(key, S) : report[k].cost = Stored(WithKey(key, S, k))
    BY <1>1, <1>2 DEF DayBy, DayLine, DayTool
  <1>4. QED
    BY <1>2, <1>3, StoredCut

\* The pages of single rows: no two rows with one key make one.
PagesOf(R) == {BuildDailyResponse(s) : s \in R}
PageCost(P) == Total(P, LAMBDA x : x.cost)

LEMMA PageCostIs ==
  ASSUME NEW S, IsFiniteSet(S), NEW f, \A r \in S : f[r] = r.cost
  PROVE  PageCost(S) = SumOn(f, S)
  <1> DEFINE h == [r \in S |-> r.cost]
             E(g) == g = [s \in SUBSET S |-> IF s = {} THEN 0
                                             ELSE Pick(s).cost + g[s \ {Pick(s)}]]
  <1>1. PageCost(S) = (CHOOSE g : E(g))[S]
    BY DEF PageCost, Total, MapThenSumSet, MapThenFoldSet, Pick
  <1>2. \A g : E(g) <=> SumEq(h, S, g)
    <2> TAKE g
    <2>1. \A s \in SUBSET S : s # {} => Pick(s) \in S
      BY DEF Pick
    <2>2. \A s \in SUBSET S : (IF s = {} THEN 0 ELSE Pick(s).cost + g[s \ {Pick(s)}])
                             = (IF s = {} THEN 0 ELSE h[Pick(s)] + g[s \ {Pick(s)}])
      BY <2>1
    <2>3. [s \in SUBSET S |-> IF s = {} THEN 0 ELSE Pick(s).cost + g[s \ {Pick(s)}]] =
          [s \in SUBSET S |-> IF s = {} THEN 0 ELSE h[Pick(s)] + g[s \ {Pick(s)}]]
      BY <2>2
    <2>4. QED
      BY <2>3 DEF SumEq
  <1>3. (CHOOSE g : E(g)) = (CHOOSE g : SumEq(h, S, g))
    <2> HIDE DEF E
    <2>1. QED
      BY <1>2
  <1>4. SumOn(h, S) = SumOn(f, S)
    <2>1. \A r \in S : h[r] = f[r]
      OBVIOUS
    <2> HIDE DEF h
    <2>2. QED
      BY <2>1, SumSame
  <1>5. QED
    BY <1>1, <1>3, <1>4 DEF SumOn

LEMMA PagesAddUp ==
  ASSUME NEW R, Dated(R), \A s, t \in R : SameKey(s, t) => s = t
  PROVE  Count(PagesOf(R)) = Count(R) /\ PageCost(PagesOf(R)) = ShownEachRow(R)
  <1>1. PICK P : P = PagesOf(R)
    OBVIOUS
  <1> DEFINE k == [s \in R |-> BuildDailyResponse(s)]
             n == [s \in R |-> s.events]
             f == [s \in R |-> CalculateTokenCost(s.tool, s.tokens)]
             pn == [x \in P |-> x.events]
             pc == [x \in P |-> x.cost]
  <1>2. P = KeysOf(k, R)
    BY <1>1 DEF PagesOf, KeysOf
  <1>3. /\ Whole(n, R) /\ Numbers(f, R)
        /\ \A s \in R : n[s] = s.events /\ f[s] = CalculateTokenCost(s.tool, s.tokens)
        /\ \A x \in P : pn[x] = x.events /\ pc[x] = x.cost
    BY CostNear DEF Whole, Numbers, Dated
  <1>4. ASSUME NEW s \in R
        PROVE  /\ k[s] \in P /\ k[s].events = n[s] /\ k[s].cost = f[s]
               /\ WithKey(k, R, k[s]) = {s}
    <2>1. k[s] \in P
      BY <1>2 DEF KeysOf
    <2>2. k[s].events = n[s] /\ k[s].cost = f[s]
      BY DEF BuildDailyResponse
    <2>3. ASSUME NEW t \in R, k[t] = k[s]
          PROVE  t = s
      <3>1. \A x \in R : /\ k[x].org = x.org /\ k[x].project = x.project
                         /\ k[x].tool = x.tool /\ k[x].day = x.day
        BY DEF BuildDailyResponse
      <3>2. SameKey(t, s)
        BY <2>3, <3>1 DEF SameKey
      <3>3. QED
        BY <3>2
    <2> HIDE DEF k
    <2>4. WithKey(k, R, k[s]) = {s}
      BY <2>3 DEF WithKey
    <2>5. QED
      BY <2>1, <2>2, <2>4
  <1> HIDE DEF k, n, f, pn, pc
  <1>5. ASSUME NEW v \in KeysOf(k, R)
        PROVE  pn[v] = SumOn(n, WithKey(k, R, v)) /\ pc[v] = SumOn(f, WithKey(k, R, v))
    <2>1. PICK s \in R : v = k[s]
      BY DEF KeysOf
    <2>2. n[s] \in Int /\ f[s] \in Int
      BY <1>3 DEF Whole, Numbers
    <2>3. SumOn(n, {s}) = n[s]
      BY <2>2, SumOne
    <2>4. SumOn(f, {s}) = f[s]
      BY <2>2, SumOne
    <2>5. QED
      BY <1>3, <1>4, <2>1, <2>3, <2>4
  <1>6. IsFiniteSet(R) /\ IsFiniteSet(P)
    BY <1>2, ImageFinite DEF KeysOf, Dated
  <1>7. SumOn(pn, P) = SumOn(n, R) /\ SumOn(pc, P) = SumOn(f, R)
    BY <1>2, <1>3, <1>5, <1>6, SumGroups, NumberGroups
  <1>8. Count(P) = SumOn(pn, P) /\ PageCost(P) = SumOn(pc, P)
    BY <1>3, <1>6, CountIs, PageCostIs
  <1>9. Count(R) = SumOn(n, R) /\ ShownEachRow(R) = SumOn(f, R)
    BY <1>3, <1>6, CountIs, ShownEachRowIs
  <1>10. QED
    BY <1>1, <1>7, <1>8, <1>9

LEMMA RowsDated ==
  ASSUME TypeInv
  PROVE  /\ \A S \in SUBSET daily : Dated(S) /\ \A s, t \in S : SameKey(s, t) => s = t
         /\ \A S \in SUBSET monthly : Dated(S) /\ \A s, t \in S : SameKey(s, t) => s = t
         /\ \A s \in daily : s.day \in Days
  BY FS_Subset DEF TypeInv, TableTypes, UniqueRows, SummaryRowOf, Dated

\* The spend-cap page and the quota endpoint differ by what is dated after today.
LEMMA CapIsQuota ==
  ASSUME LedgerAssumption, ReportsAssumption, TypeInv
  PROVE  SpendCapIsQuotaAndFuture
  <1> SUFFICES ASSUME NEW b \in Budgets, ~b.daily
               PROVE  Within(SpendCapStatus(b).spent,
                             QuotaStatus(b.org, b.project).month.cost
                               + ExactRows({s \in BudgetRows(b) : s.day > today}),
                             Scale * (2 * Cardinality(BudgetRows(b)) + 100))
    BY DEF SpendCapIsQuotaAndFuture
  <1>1. PICK G, B : G = Given(daily, b.org, b.project) /\ B = BudgetRows(b)
    OBVIOUS
  <1>2. PICK F : F = {s \in B : s.day > today}
    OBVIOUS
  <1>3. PICK Q : Q = {s \in QuotaRows(b.org, b.project, 0) : MonthOf[s.day] = MonthOf[today]}
    OBVIOUS
  <1>4. B = {s \in G : MonthOf[s.day] >= MonthOf[today]}
    BY <1>1 DEF BudgetRows
  <1>5. Q = {s \in G : s.day >= 0 /\ s.day <= today /\ MonthOf[s.day] = MonthOf[today]}
    BY <1>1, <1>3 DEF QuotaRows
  <1>6. ASSUME NEW s \in G
        PROVE  /\ s.day \in Nat /\ today \in Nat /\ MonthOf[s.day] \in Nat /\ MonthOf[today] \in Nat
               /\ s.day <= today => MonthOf[s.day] <= MonthOf[today]
               /\ s.day > today => MonthOf[s.day] >= MonthOf[today]
    <2>1. s \in daily
      BY <1>1 DEF Given
    <2>2. LastDay \in Nat /\ s.day \in 0..LastDay + 1 /\ today \in 0..LastDay + 1
      BY <2>1 DEF TypeInv, TableTypes, Days, LedgerAssumption
    <2>3. s.day \in Nat /\ today \in Nat
      BY <2>2
    <2>4. MonthOf[s.day] \in Nat /\ MonthOf[today] \in Nat
      BY <2>2 DEF LedgerAssumption
    <2>5. s.day <= today => MonthOf[s.day] <= MonthOf[today]
      BY <2>2 DEF LedgerAssumption
    <2>6. s.day > today => MonthOf[today] <= MonthOf[s.day]
      BY <2>2, <2>3 DEF LedgerAssumption
    <2>7. QED
      BY <2>3, <2>4, <2>5, <2>6
  <1>7. F = B \ Q
    <2>1. F = {s \in G : MonthOf[s.day] >= MonthOf[today] /\ s.day > today}
      BY <1>2, <1>4
    <2>2. B \ Q = {s \in G : /\ MonthOf[s.day] >= MonthOf[today]
                             /\ ~(s.day >= 0 /\ s.day <= today /\ MonthOf[s.day] = MonthOf[today])}
      BY <1>4, <1>5
    <2>3. ASSUME NEW s \in G
          PROVE  (MonthOf[s.day] >= MonthOf[today] /\ s.day > today) <=>
                   /\ MonthOf[s.day] >= MonthOf[today]
                   /\ ~(s.day >= 0 /\ s.day <= today /\ MonthOf[s.day] = MonthOf[today])
      <3>1. PICK x, y, a, c : x = s.day /\ y = today /\ a = MonthOf[s.day] /\ c = MonthOf[today]
        OBVIOUS
      <3>2. x \in Nat /\ y \in Nat /\ a \in Nat /\ c \in Nat /\ (x <= y => a <= c)
        BY <1>6, <3>1
      <3>3. (a >= c /\ x > y) <=> (a >= c /\ ~(x >= 0 /\ x <= y /\ a = c))
        BY <3>2
      <3>4. QED
        BY <3>1, <3>3
    <2>4. QED
      BY <2>1, <2>2, <2>3
  <1>8. Q \in SUBSET B
    <2>1. ASSUME NEW s \in Q
          PROVE  s \in B
      <3>1. s \in G /\ MonthOf[s.day] = MonthOf[today]
        BY <1>5
      <3>2. MonthOf[s.day] >= MonthOf[today]
        BY <1>6, <3>1
      <3>3. QED
        BY <1>4, <3>1, <3>2
    <2>2. QED
      BY <2>1
  <1>9. Dated(B)
    BY <1>1, <1>4, RowsDated DEF Given
  <1>10. /\ ExactRows(B) = ExactRows(Q) + ExactRows(F) /\ ExactRows(Q) \in Nat
         /\ Tokened(B) /\ Tokened(Q) /\ F \in SUBSET B /\ IsFiniteSet(B)
    BY <1>7, <1>8, <1>9, DatedParts DEF Dated, Tokened
  <1>11. ExactRows(B) \in Nat /\ ExactRows(F) \in Nat
    BY <1>9, <1>10, DatedParts
  <1>12. ShownRows(B) \in Int /\ NearRows(ShownRows(B), B)
    BY <1>10, ShownRowsNear
  <1>13. ShownRows(Q) \in Int /\ NearRows(ShownRows(Q), Q)
    BY <1>10, ShownRowsNear
  <1>14. PICK x \in Int, y \in Int : x = ShownRows(B) /\ y = ShownRows(Q)
    BY <1>12, <1>13
  <1>15. Cents(x) \in Int /\ Within(Cents(x), x, 50 * Scale)
    BY CentsNear
  <1>16. Cents(y) \in Int /\ Within(Cents(y), y, 50 * Scale)
    BY CentsNear
  <1>17. PICK v \in Int, w \in Int : v = Cents(x) /\ w = Cents(y)
    BY <1>15, <1>16
  <1>18. /\ Cardinality(Q) \in Nat /\ Cardinality(B) \in Nat
         /\ Scale * Cardinality(Q) \in Nat /\ Scale * Cardinality(B) \in Nat
         /\ Scale * Cardinality(Q) <= Scale * Cardinality(B)
    BY <1>8, <1>10, UnitsGrow
  <1>19. PICK c \in Nat, cq \in Nat, cb \in Nat :
           /\ c = Cardinality(B) /\ cq = Scale * Cardinality(Q) /\ cb = Scale * Cardinality(B)
    BY <1>18
  <1>20. PICK eb \in Nat, eq \in Nat, ef \in Nat :
           eb = ExactRows(B) /\ eq = ExactRows(Q) /\ ef = ExactRows(F)
    BY <1>10, <1>11
  <1>21. /\ x - eb <= cb /\ eb - x <= cb /\ y - eq <= cq /\ eq - y <= cq
         /\ v - x <= 50 * Scale /\ x - v <= 50 * Scale /\ w - y <= 50 * Scale
         /\ y - w <= 50 * Scale
    BY <1>12, <1>13, <1>14, <1>15, <1>16, <1>17, <1>19, <1>20 DEF NearRows, Within
  <1>22. eb = eq + ef /\ cq <= cb
    BY <1>10, <1>18, <1>19, <1>20
  <1>23. Scale * (2 * c + 100) = 2 * cb + 100 * Scale
    <2>1. \A m, n \in Nat : m * (2 * n + 100) = 2 * (m * n) + 100 * m
      OBVIOUS
    <2>2. Scale \in Nat /\ cb = Scale * c
      BY <1>19, ScaleIs
    <2>3. Scale * (2 * c + 100) = 2 * (Scale * c) + 100 * Scale
      BY <2>1, <2>2
    <2>4. QED
      BY <2>2, <2>3
  <1>24. v - (w + ef) <= 2 * cb + 100 * Scale /\ (w + ef) - v <= 2 * cb + 100 * Scale
    BY <1>21, <1>22, ScaleIs
  <1>25. Within(v, w + ef, Scale * (2 * c + 100))
    BY <1>23, <1>24 DEF Within
  <1>26. SpendCapStatus(b).spent = v
    BY <1>1, <1>14, <1>17 DEF SpendCapStatus
  <1>27. QuotaStatus(b.org, b.project).month.cost = w
    BY <1>3, <1>14, <1>17 DEF QuotaStatus, DayLine
  <1>28. QED
    BY <1>1, <1>2, <1>19, <1>20, <1>25, <1>26, <1>27

\* Over all organisations the summary pages hide the rows of those that do not exist.
LEMMA HiddenRows ==
  ASSUME LedgerAssumption, TypeInv, NEW o, o \in Orgs \cup {None}, NEW T, NEW p
  PROVE  /\ Scope(T, o, p) \in SUBSET Given(T, o, p)
         /\ Given(T, o, p) \ Scope(T, o, p)
              = {s \in Given(T, o, p) : o = None /\ s.org \notin orgs}
  BY DEF Scope

LEMMA DayViews ==
  ASSUME LedgerAssumption, TypeInv, NumbersInv, NEW o, o \in Orgs \cup {None}, NEW d \in Nat
  PROVE  DaysAgree(o, d)
  <1>1. PICK G, R : G = Given(From(d), o, None) /\ R = Scope(From(d), o, None)
    OBVIOUS
  <1>2. PICK H : H = {s \in G : o = None /\ s.org \notin orgs}
    OBVIOUS
  <1>3. R \in SUBSET G /\ G \ R = H /\ G \ H = R /\ G \in SUBSET daily
    <2>1. R \in SUBSET G /\ G \ R = H
      BY <1>1, <1>2, HiddenRows
    <2>2. QED
      BY <1>1, <2>1 DEF Given, From
  <1>4. Dated(G) /\ Dated(R) /\ \A s, t \in R : SameKey(s, t) => s = t
    BY <1>3, RowsDated
  <1>5. Count(G) = Count(R) + Count(H) /\ Tokened(R)
    BY <1>3, <1>4, DatedParts
  <1>6. {s \in daily : s.day \in d..LastDay + 1} = From(d)
    <2>1. LastDay \in Nat
      BY DEF LedgerAssumption
    <2>2. \A s \in daily : s.day \in 0..LastDay + 1
      BY RowsDated DEF Days
    <2>3. \A s \in daily : s.day \in d..LastDay + 1 <=> s.day >= d
      BY <2>1, <2>2
    <2>4. QED
      BY <2>3 DEF From
  <1>7. PICK P : P = PagesOf(R)
    OBVIOUS
  <1>8. /\ DailySummary(d, LastDay + 1, o, None) = P /\ Count(P) = Count(R)
        /\ NearRows(Total(P, LAMBDA x : x.cost), R)
    <2>1. DailySummary(d, LastDay + 1, o, None) = P
      BY <1>1, <1>6, <1>7 DEF DailySummary, PagesOf
    <2>2. Count(P) = Count(R) /\ PageCost(P) = ShownEachRow(R)
      BY <1>4, <1>7, PagesAddUp
    <2>3. PageCost(P) = Total(P, LAMBDA x : x.cost)
      BY DEF PageCost
    <2>4. NearRows(ShownEachRow(R), R)
      BY <1>5, ShownEachRowNear
    <2>5. QED
      BY <2>1, <2>2, <2>3, <2>4
  <1>9. PICK overview : overview = GovernanceOverview(o, d).line
    OBVIOUS
  <1>10. overview.events = Count(R) /\ NearRows(overview.cost, R)
    <2>1. overview.events = Count(R) /\ overview.cost = ShownEachRow(R)
      BY <1>1, <1>9 DEF GovernanceOverview, DayLine
    <2>2. QED
      BY <1>5, <2>1, ShownEachRowNear
  <1>11. NearRows(Sum(UsageTrends(o, d)), R) /\ SumEvents(UsageTrends(o, d)) = Count(R)
    BY <1>1, <1>4, ByDay DEF UsageTrends
  <1>12. NearRows(Sum(CostDaily(d, o, None)), G) /\ SumEvents(CostDaily(d, o, None)) = Count(G)
    BY <1>1, <1>4, ByDayTool DEF CostDaily
  <1>13. SumEvents(OldUsageTrends(o, d)) = Count(G)
    BY <1>1, <1>4, ByDay DEF OldUsageTrends
  <1>14. SumEvents(OldCostDaily(d, o, None)) = Count(G)
    BY <1>1, <1>4, ByDayTool DEF OldCostDaily
  <1>15. OldDailySummary(d, LastDay + 1, o, None) = G
    <2>1. G = {s \in Given(daily, o, None) : s.day >= d}
      BY <1>1 DEF Given, From
    <2>2. OldDailySummary(d, LastDay + 1, o, None)
            = {s \in Given(daily, o, None) : s.day \in d..LastDay + 1}
      BY DEF OldDailySummary
    <2>3. \A s \in daily : s.day \in d..LastDay + 1 <=> s.day >= d
      BY <1>6 DEF From
    <2>4. QED
      BY <2>1, <2>2, <2>3 DEF Given
  <1>16. /\ OldGovernanceOverview(o, d).events = Count(G)
         /\ OldGovernanceOverview(o, d).cost = Stored(G)
    BY <1>1 DEF OldGovernanceOverview, DayLine
  <1>17. Sum(OldCostPerToolDaily(d, o, None)) = Stored(G)
    <2>1. IsFiniteSet(G) /\ \A s \in G : CostNumbers(s)
      BY <1>3, <1>4 DEF Dated, NumbersInv
    <2>2. OldCostPerToolDaily(d, o, None) = DayBy(G, DayTool, Stored)
      BY <1>1 DEF OldCostPerToolDaily, OldCostDaily
    <2>3. QED
      BY <2>1, <2>2, StoredByDayTool
  <1>18. QED
    BY <1>1, <1>2, <1>3, <1>5, <1>8, <1>9, <1>10, <1>11, <1>12, <1>13, <1>14, <1>15, <1>16, <1>17
       DEF DaysAgree

LEMMA MonthViews ==
  ASSUME LedgerAssumption, TypeInv, NEW o, o \in Orgs \cup {None}, NEW p
  PROVE  MonthsAgree(o, p)
  <1>1. PICK G, R : G = Given(monthly, o, p) /\ R = Scope(monthly, o, p)
    OBVIOUS
  <1>2. PICK H : H = {x \in G : o = None /\ x.org \notin orgs}
    OBVIOUS
  <1>3. R \in SUBSET G /\ G \ R = H
    BY <1>1, <1>2, HiddenRows
  <1>4. G \in SUBSET monthly /\ R \in SUBSET monthly
    BY <1>1, <1>3 DEF Given
  <1>5. Dated(G) /\ Dated(R) /\ \A s, t \in R : SameKey(s, t) => s = t
    BY <1>4, RowsDated
  <1>6. Count(G) = Count(R) + Count(H)
    BY <1>3, <1>5, DatedParts
  <1>7. MonthlySummary(o, p) = PagesOf(R)
    BY <1>1 DEF MonthlySummary, BuildMonthlyResponse, PagesOf
  <1>8. Count(PagesOf(R)) = Count(R)
    BY <1>5, PagesAddUp
  <1>9. SumEvents(CostMonthly(o, p)) = Count(G) /\ NearRows(Sum(CostMonthly(o, p)), G)
    BY <1>1, <1>5, ByDayTool DEF CostMonthly
  <1>10. SumEvents(OldCostMonthly(o, p)) = Count(G)
    BY <1>1, <1>5, ByDayTool DEF OldCostMonthly
  <1>11. OldMonthlySummary(o, p) = G
    BY <1>1 DEF OldMonthlySummary
  <1>12. QED
    BY <1>1, <1>2, <1>6, <1>7, <1>8, <1>9, <1>10, <1>11 DEF MonthsAgree

LEMMA TotalsViews ==
  ASSUME LedgerAssumption, TypeInv
  PROVE  TotalsAgree
  <1>1. PICK T : T = {s \in daily : s.day = today}
    OBVIOUS
  <1>2. PICK R : R = Scope(T, None, None)
    OBVIOUS
  <1>3. R = {s \in T : s.org \in orgs} /\ T \in SUBSET daily /\ R \in SUBSET daily
    BY <1>1, <1>2 DEF Scope, Given
  <1>4. Tokened(T) /\ Tokened(R)
    BY <1>3, RowsDated DEF Dated, Tokened
  <1>5. NearRows(ShownRows(T), T)
    BY <1>4, ShownRowsNear
  <1>6. CostTotals.today.cost = ShownRows(T) /\ CostTotals.today.events = Count(T)
    BY <1>1 DEF CostTotals, DayLine
  <1>7. TodaySummary.cost = ShownEachRow(R) /\ NearRows(ShownEachRow(R), R)
    <2>1. TodaySummary.cost = ShownEachRow(R)
      BY <1>1, <1>2 DEF TodaySummary, DayLine
    <2>2. NearRows(ShownEachRow(R), R)
      BY <1>4, ShownEachRowNear
    <2>3. QED
      BY <2>1, <2>2
  <1>8. OldTodaySummary.events = Count(T)
    BY <1>1 DEF OldTodaySummary, DayLine
  <1>9. CostTotals.month.events = OldCostTotals.month.events
    BY DEF CostTotals, OldCostTotals, DayLine
  <1>10. QED
    BY <1>1, <1>3, <1>5, <1>6, <1>7, <1>8, <1>9 DEF TotalsAgree

LEMMA SummaryViews ==
  ASSUME LedgerAssumption, ReportsAssumption, TypeInv, CountInv, CostInv, NumbersInv
  PROVE  SummaryViewsAgree
  <1>1. today \in Nat
    BY DEF TypeInv, TableTypes
  <1>2. \A s \in Scopes : s[1] \in Orgs \cup {None}
    BY DEF Scopes
  <1>3. SpendCapIsQuotaAndFuture /\ OverviewWithinEvents
    BY CapIsQuota, OverviewWithin
  <1>4. \A o \in Orgs \cup {None}, d \in {0, today} : DaysAgree(o, d)
    BY <1>1, DayViews
  <1>5. \A s \in Scopes : MonthsAgree(s[1], s[2])
    BY <1>2, MonthViews
  <1>6. QED
    BY <1>3, <1>4, <1>5, TotalsViews DEF SummaryViewsAgree

\* The pages over the summary agree, in both services: days, trends, rows and headlines of a
\* scope add up to the same events and, but for the roundings, the same costs,
\* pages over all organisations differ by the rows of those that do not exist, spend caps and
\* quotas by what is dated after today, and an overview shows nothing that the events do not.
THEOREM SummaryPagesAgree == Spec => []SummaryViewsAgree
  <1>1. Init => TypeInv
    BY TypeInit, LedgerAssumption
  <1>2. Init => CountInv /\ CostInv /\ NumbersInv
    BY WithinInit DEF Init, NumbersInv
  <1>3. TypeInv /\ [Next]_vars => TypeInv'
    BY TypeStep, LedgerAssumption
  <1>4. TypeInv /\ CountInv /\ CostInv /\ NumbersInv /\ [Next]_vars
          => CountInv' /\ CostInv' /\ NumbersInv'
    BY CountStep, CostStep, NumbersStep, LedgerAssumption
  <1>5. TypeInv /\ CountInv /\ CostInv /\ NumbersInv => SummaryViewsAgree
    BY SummaryViews, LedgerAssumption, ReportsAssumption
  <1>6. QED
    BY <1>1, <1>2, <1>3, <1>4, <1>5, PTL DEF Spec
=============================================================================
