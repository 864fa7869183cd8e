---------------------------- MODULE Alerts_proofs ----------------------------
(***************************************************************************)
(* The theorems of the alert engine.  Of BudgetAlerts, for any requests,   *)
(* events, budgets and limits: stored budget alerts are true of the        *)
(* committed spend, a request stores an alert of a kind once for a budget, *)
(* limit or rule, and a request nobody commits across leaves every tier of *)
(* every budget alerted.  Of AnomalyAlerts, for any scanners, kinds, limit *)
(* and window: the duplicates of a day are bounded.                        *)
(***************************************************************************)
EXTENDS BudgetAlerts, AnomalyAlerts, Sums, FiniteSetTheorems, FunctionTheorems,
        SequenceTheorems, WellFoundedInduction, TLAPS

Scopes == {"project", "organisation", "other"}
FlagTypes == {<<f>> : f \in Flags}
QuotaTypes == {<<"token_quota">>}
RuleTypes == {<<"rule", m>> : m \in STRING}
BudgetTypes ==
  {<<"budget", s, t>> : s \in Scopes, t \in Nat}
    \cup {<<"budget_forecast_overrun", s>> : s \in Scopes}
Types == FlagTypes \cup QuotaTypes \cup RuleTypes \cup BudgetTypes
Severities == {"critical", "high"} \cup STRING
Alert == [type : Types, severity : Severities, event : Nat, source : Nat]
StoredAlert == [alert : Alert, status : {"active", "resolved"}, by : Requests, n : Nat]
Working == {"upsert", "evaluate", "create", "commit"}

Shapes ==
  /\ summary \in Spend /\ rowLock \in Requests \cup {NoOne} /\ alerts \subseteq StoredAlert
  /\ pc \in [Requests -> Working \cup {"begin", "created", "error"}]
  /\ pos \in [Requests -> Nat \ {0}] /\ stage \in [Requests -> 1..LastStage + 1]
  /\ row \in [Requests -> Spend \cup {<<>>}] /\ flushed \in [Requests -> Spend \cup {<<>>}]
  /\ due \in [Requests -> Seq(Alert)] /\ added \in [Requests -> Seq(Alert)]
  /\ written \in [Requests -> Nat]
  /\ began \in [Requests -> Nat] /\ undisturbed \in [Requests -> BOOLEAN]
  /\ charged \in [Requests -> Nat] /\ posted \in Nat

\* How far a request has come, and what it then holds.
Progress(r) ==
  /\ pos[r] <= Len(Events[r]) + 1 /\ written[r] <= Len(added[r])
  /\ pc[r] \in {"begin", "upsert", "evaluate", "create"} => pos[r] <= Len(Events[r])
  /\ pc[r] \in {"begin", "upsert", "commit"} => written[r] = Len(added[r])
  /\ pc[r] \in {"evaluate", "create"} => row[r] \in Spend
  /\ pc[r] = "begin" => pos[r] = 1 /\ row[r] = <<>> /\ flushed[r] = <<>>
  /\ pc[r] = "create" => due[r] # <<>> /\ stage[r] > 1
  /\ pc[r] = "commit" => rowLock = r /\ pos[r] > 1
  /\ rowLock = r => flushed[r] \in Spend /\ pc[r] \in Working

TypeInv == Shapes /\ \A r \in Requests : Progress(r)

\* No total a request reads or holds exceeds what the committed events and its own
\* cost; a budget alert was raised from such a total.
Bounded(total, r) == total \in Spend => total.cost <= posted + charged[r]
TrueAlert(a, spent) ==
  a.type[1] = "budget" =>
    /\ a.source \in 1..Len(Budgets) /\ a.type[3] \in Nat
    /\ Crossed(Budgets[a.source], spent, a.type[3])
TrueOf(seq, spent) == \A i \in 1..Len(seq) : TrueAlert(seq[i], spent)
MoneyOf(r) ==
  /\ Bounded(row[r], r) /\ Bounded(flushed[r], r)
  /\ TrueOf(added[r], posted + charged[r])
  /\ pc[r] = "create" => TrueOf(due[r], posted + charged[r])
MoneyInv ==
  /\ summary.cost <= posted
  /\ \A a \in alerts : TrueAlert(a.alert, posted)
  /\ \A r \in Requests : MoneyOf(r)

\* What a stage raises: budgets and limits have stages of their own.
RaisedIn(a, k) ==
  \/ k = 1 /\ a.type \in FlagTypes
  \/ k - 1 \in 1..Len(Budgets) /\ a.type \in BudgetTypes /\ a.source = k - 1
  \/ /\ k - 1 - Len(Budgets) \in 1..Len(RateLimits) /\ a.type \in QuotaTypes
     /\ a.source = k - 1 - Len(Budgets)
  \/ k = LastStage /\ a.type \in RuleTypes

\* Two alerts a request holds are of two kinds, or of one event and two sources: the
\* lookup does not see those not flushed, which earlier stages of the event raised.
Differ(a, b) == a.type = b.type => a.event = b.event /\ a.source # b.source
Unlike(seq) == \A i, j \in 1..Len(seq) : i # j => Differ(seq[i], seq[j])
KindOf(r) ==
  /\ Unlike(added[r])
  /\ pc[r] \in {"evaluate", "create"} =>
       \A i \in written[r] + 1..Len(added[r]) :
         added[r][i].event = pos[r] /\ \E k \in 1..stage[r] - 1 : RaisedIn(added[r][i], k)
  /\ pc[r] = "create" =>
       /\ Unlike(due[r])
       /\ \A i \in 1..Len(due[r]) :
            /\ due[r][i].event = pos[r] /\ RaisedIn(due[r][i], stage[r] - 1)
            /\ \A j \in written[r] + 1..Len(added[r]) : Differ(added[r][j], due[r][i])
KindInv == \A r \in Requests : KindOf(r)

\* Stored alerts are the ones their request added.
StoredInv ==
  /\ \A a \in alerts :
       /\ pc[a.by] = "created" /\ a.n \in 1..Len(added[a.by])
       /\ a.alert = added[a.by][a.n]
  /\ \A a, b \in alerts : a.by = b.by /\ a.n = b.n => a = b

\* A request no other commits across has seen, once past the stage of a budget in
\* its first event, every tier of the budget crossed when it began.
Holds(seq, type) == \E i \in 1..Len(seq) : seq[i].type = type
Stands(type) == \E a \in alerts : a.alert.type = type
Alerted(r, type) ==
  Stands(type) \/ Holds(added[r], type) \/ (pc[r] = "create" /\ Holds(due[r], type))
Tiers(i) == {<<i, t>> : t \in TiersOf(Budgets[i])}
AllTiers == UNION {Tiers(i) : i \in 1..Len(Budgets)}
TypeOf(tier) == <<"budget", Budgets[tier[1]].scope, tier[2]>>
Reached(tier, cost) == Crossed(Budgets[tier[1]], cost, tier[2])
Past(r, tier) == pos[r] > 1 \/ (pc[r] \in {"evaluate", "create"} /\ stage[r] > tier[1] + 1)
Covers(total, r) == total \in Spend => began[r] <= total.cost
NextOf(r) ==
  undisturbed[r] =>
    /\ pc[r] \in Working =>
         /\ summary.cost = began[r]
         /\ Covers(row[r], r) /\ Covers(flushed[r], r)
         /\ \A tier \in AllTiers :
              Past(r, tier) /\ Reached(tier, began[r]) => Alerted(r, TypeOf(tier))
    /\ pc[r] = "created" =>
         \A tier \in AllTiers : Reached(tier, began[r]) => Stands(TypeOf(tier))
NextInv == \A r \in Requests : NextOf(r)

-----------------------------------------------------------------------------
(* Percentages grow with the spend *)

LEMMA Division ==
  ASSUME NEW x \in Nat, NEW w \in Nat \ {0}
  PROVE  /\ x \div w \in Nat /\ x % w \in 0..w - 1
         /\ x = w * (x \div w) + (x % w)
  OBVIOUS

LEMMA QuotientGrows ==
  ASSUME NEW x \in Nat, NEW y \in Nat, NEW w \in Nat \ {0}, x <= y
  PROVE  \/ x \div w < y \div w
         \/ x \div w = y \div w /\ x % w <= y % w
  <1>1. PICK p \in Nat : p = x \div w
    BY Division
  <1>2. PICK q \in Nat : q = y \div w
    BY Division
  <1>3. PICK a \in 0..w - 1 : a = x % w
    BY Division
  <1>4. PICK b \in 0..w - 1 : b = y % w
    BY Division
  <1>5. x = w * p + a /\ y = w * q + b
    BY <1>1, <1>2, <1>3, <1>4, Division
  <1>6. ASSUME p > q PROVE FALSE
    <2>1. PICK d \in Nat : p = q + 1 + d
      BY <1>6
    <2>2. w * p = w * q + w + w * d
      BY <2>1
    <2>3. w * d \in Nat /\ w * q \in Nat
      OBVIOUS
    <2>4. QED
      BY <1>5, <2>2, <2>3
  <1>7. ASSUME p = q PROVE a <= b
    <2>1. PICK c \in Nat : c = w * p /\ c = w * q
      BY <1>7
    <2>2. QED
      BY <1>5, <2>1
  <1>8. QED
    BY <1>1, <1>2, <1>3, <1>4, <1>6, <1>7

LEMMA TenthsGrow ==
  ASSUME NEW x \in Nat, NEW y \in Nat, NEW w \in Nat \ {0}, x <= y
  PROVE  Tenths(x, w) \in Nat /\ Tenths(x, w) <= Tenths(y, w)
  <1>1. 1000 * x \in Nat /\ 1000 * y \in Nat /\ 1000 * x <= 1000 * y
    OBVIOUS
  <1>2. PICK p \in Nat : p = (1000 * x) \div w
    BY <1>1, Division
  <1>3. PICK q \in Nat : q = (1000 * y) \div w
    BY <1>1, Division
  <1>4. PICK a \in 0..w - 1 : a = (1000 * x) % w
    BY <1>1, Division
  <1>5. PICK b \in 0..w - 1 : b = (1000 * y) % w
    BY <1>1, Division
  <1>6. p < q \/ (p = q /\ a <= b)
    <2>1. PICK u \in Nat : u = 1000 * x
      BY <1>1
    <2>2. PICK v \in Nat : v = 1000 * y
      BY <1>1
    <2>3. u \div w < v \div w \/ (u \div w = v \div w /\ u % w <= v % w)
      <3>1. u <= v
        BY <1>1, <2>1, <2>2
      <3>2. QED
        BY <3>1, QuotientGrows, Zenon
    <2>4. p = u \div w /\ q = v \div w /\ a = u % w /\ b = v % w
      BY <1>2, <1>3, <1>4, <1>5, <2>1, <2>2
    <2>5. QED
      BY <2>3, <2>4
  <1>7. Tenths(x, w) = IF 2 * a > w \/ (2 * a = w /\ p % 2 = 1) THEN p + 1 ELSE p
    BY <1>2, <1>4 DEF Tenths
  <1>8. Tenths(y, w) = IF 2 * b > w \/ (2 * b = w /\ q % 2 = 1) THEN q + 1 ELSE q
    BY <1>3, <1>5 DEF Tenths
  <1>9. QED
    BY <1>6, <1>7, <1>8

LEMMA CrossedGrows ==
  ASSUME NEW b \in Budget, NEW x \in Nat, NEW y \in Nat, NEW t \in Nat, x <= y,
         Crossed(b, x, t)
  PROVE  Crossed(b, y, t)
  <1>1. b.limit \in Nat \ {0} /\ b.elsewhere \in Nat
    BY DEF Budget, Crossed
  <1>2. /\ SpentOn(b, x) \in Nat /\ SpentOn(b, y) \in Nat
        /\ SpentOn(b, x) <= SpentOn(b, y)
    BY <1>1 DEF SpentOn
  <1>3. PICK u \in Nat : u = SpentOn(b, x)
    BY <1>2
  <1>4. PICK v \in Nat : v = SpentOn(b, y)
    BY <1>2
  <1>5. Tenths(u, b.limit) \in Nat /\ Tenths(u, b.limit) <= Tenths(v, b.limit)
    BY <1>1, <1>2, <1>3, <1>4, TenthsGrow
  <1>6. Tenths(v, b.limit) \in Nat
    BY <1>1, TenthsGrow
  <1>7. QED
    BY <1>3, <1>4, <1>5, <1>6 DEF Crossed

LEMMA BudgetsAre ==
  /\ Len(Budgets) \in Nat /\ Len(RateLimits) \in Nat
  /\ LastStage \in Nat /\ LastStage = 2 + Len(Budgets) + Len(RateLimits)
  /\ \A i \in 1..Len(Budgets) :
       /\ Budgets[i] \in Budget /\ Budgets[i].scope \in Scopes
       /\ TiersOf(Budgets[i]) \subseteq Nat /\ IsFiniteSet(TiersOf(Budgets[i]))
  <1>1. Budgets \in Seq(Budget) /\ RateLimits \in Seq(Nat) /\ Mid \in Nat
    BY AlertAssumption
  <1>2. Len(Budgets) \in Nat /\ Len(RateLimits) \in Nat
    BY <1>1
  <1>3. ASSUME NEW i \in 1..Len(Budgets)
        PROVE  /\ Budgets[i] \in Budget /\ Budgets[i].scope \in Scopes
               /\ TiersOf(Budgets[i]) \subseteq Nat /\ IsFiniteSet(TiersOf(Budgets[i]))
    <2>1. PICK b \in Budget : b = Budgets[i]
      BY <1>1
    <2>2. TiersOf(b) \subseteq Nat
      BY <1>1 DEF TiersOf, Budget
    <2>3. IsFiniteSet({b.threshold}) /\ IsFiniteSet({Mid}) /\ IsFiniteSet({100})
      BY FS_Singleton
    <2>4. IsFiniteSet(({b.threshold} \cup {Mid}) \cup {100})
      BY <2>3, FS_Union
    <2>5. TiersOf(b) = ({b.threshold} \cup {Mid}) \cup {100}
      BY DEF TiersOf
    <2>6. QED
      BY <2>1, <2>2, <2>4, <2>5 DEF Budget, Scopes
  <1>4. QED
    BY <1>2, <1>3 DEF LastStage

LEMMA TiersAre ==
  ASSUME NEW tier \in AllTiers
  PROVE  /\ tier[1] \in 1..Len(Budgets) /\ tier[2] \in Nat /\ Budgets[tier[1]] \in Budget
         /\ tier[2] \in TiersOf(Budgets[tier[1]])
  BY BudgetsAre DEF AllTiers, Tiers

-----------------------------------------------------------------------------
(* Sorting: by least counterexample on the size of the set *)

Sorted(s, S) ==
  s \in [1..Cardinality(S) -> S] /\ \A i, j \in DOMAIN s : i < j => s[i] < s[j]

LEMMA LeastElement ==
  ASSUME NEW S \in SUBSET Nat, S # {}
  PROVE  \E m \in S : \A x \in S : m <= x
  <1>1. \E m \in S : \A x \in S : ~(<<x, m>> \in OpToRel(<, Nat))
    BY NatLessThanWellFounded, WFMin
  <1>2. PICK m \in S : \A x \in S : ~(x < m)
    BY <1>1 DEF OpToRel
  <1>3. QED
    BY <1>2

LEMMA SortedExists ==
  ASSUME NEW S \in SUBSET Nat, IsFiniteSet(S)
  PROVE  \E s : Sorted(s, S)
  <1> DEFINE Unsorted(n) == \E T \in SUBSET Nat :
               IsFiniteSet(T) /\ Cardinality(T) = n /\ ~ \E s : Sorted(s, T)
             Sizes == {n \in Nat : Unsorted(n)}
  <1>1. Cardinality(S) \in Nat
    BY FS_CardinalityType
  <1>2. ASSUME Sizes # {} PROVE FALSE
    <2>1. PICK n \in Sizes : \A k \in Sizes : n <= k
      <3>1. Sizes \in SUBSET Nat
        OBVIOUS
      <3> HIDE DEF Sizes
      <3>2. QED
        BY <1>2, <3>1, LeastElement
    <2>2. PICK T \in SUBSET Nat :
            IsFiniteSet(T) /\ Cardinality(T) = n /\ ~ \E s : Sorted(s, T)
      BY <2>1
    <2>3. CASE T = {}
      <3>1. Cardinality(T) = 0
        BY <2>3, FS_EmptySet
      <3>2. Sorted(<<>>, T)
        BY <2>3, <3>1 DEF Sorted
      <3>3. QED
        BY <2>2, <3>2
    <2>4. CASE T # {}
      <3>1. PICK m \in T : \A x \in T : m <= x
        BY <2>4, LeastElement
      <3>2. PICK R : R = T \ {m}
        OBVIOUS
      <3>3. IsFiniteSet(R) /\ Cardinality(R) = n - 1 /\ R \in SUBSET Nat
        BY <2>2, <3>1, <3>2, FS_RemoveElement
      <3>4. n - 1 \in Nat
        BY <3>3, FS_CardinalityType
      <3>5. ~Unsorted(n - 1)
        BY <2>1, <3>4
      <3>6. PICK s : Sorted(s, R)
        BY <3>3, <3>5
      <3>7. s \in [1..n - 1 -> R] /\ \A i, j \in 1..n - 1 : i < j => s[i] < s[j]
        BY <3>3, <3>6 DEF Sorted
      <3>8. n \in Nat /\ \A x \in R : x \in T /\ m < x
        BY <2>1, <3>1, <3>2
      <3>9. PICK long : long = [i \in 1..n |-> IF i = 1 THEN m ELSE s[i - 1]]
        OBVIOUS
      <3>10. long \in [1..n -> T]
        BY <3>1, <3>7, <3>8, <3>9
      <3>11. ASSUME NEW i \in 1..n, NEW j \in 1..n, i < j PROVE long[i] < long[j]
        <4>1. j # 1 /\ j - 1 \in 1..n - 1 /\ s[j - 1] \in R /\ long[j] = s[j - 1]
          BY <3>7, <3>8, <3>9, <3>11
        <4>2. CASE i = 1
          BY <3>8, <3>9, <4>1, <4>2
        <4>3. CASE i # 1
          <5>1. i - 1 \in 1..n - 1 /\ i - 1 < j - 1 /\ long[i] = s[i - 1]
            BY <3>8, <3>9, <3>11, <4>3
          <5>2. QED
            BY <3>7, <4>1, <5>1
        <4>4. QED
          BY <4>2, <4>3
      <3>12. Sorted(long, T)
        BY <2>2, <3>10, <3>11 DEF Sorted
      <3>13. QED
        BY <2>2, <3>12
    <2>5. QED
      BY <2>3, <2>4
  <1>3. QED
    BY <1>1, <1>2

\* Every member of the set is somewhere in its enumeration, and nowhere twice.
LEMMA AscendingIs ==
  ASSUME NEW S \in SUBSET Nat, IsFiniteSet(S)
  PROVE  /\ Ascending(S) \in Seq(S)
         /\ Distinct(Ascending(S))
         /\ \A x \in S : \E i \in 1..Len(Ascending(S)) : Ascending(S)[i] = x
  <1>1. PICK n \in Nat : n = Cardinality(S)
    BY FS_CardinalityType
  <1>2. PICK a : a = Ascending(S)
    OBVIOUS
  <1>3. a \in [1..n -> S] /\ \A i, j \in 1..n : i < j => a[i] < a[j]
    <2>1. \E s \in [1..n -> S] : \A i, j \in DOMAIN s : i < j => s[i] < s[j]
      BY <1>1, SortedExists DEF Sorted
    <2>2. a \in [1..n -> S] /\ \A i, j \in DOMAIN a : i < j => a[i] < a[j]
      BY <1>1, <1>2, <2>1 DEF Ascending
    <2>3. QED
      BY <2>2
  <1>4. \A i, j \in 1..n : a[i] = a[j] => i = j
    <2>1. \A i \in 1..n : a[i] \in Nat
      BY <1>3
    <2>2. QED
      BY <1>3, <2>1
  <1>5. IsFiniteSet(1..n) /\ Cardinality(1..n) = n
    BY FS_Interval
  <1>6. a \in Injection(1..n, S)
    BY <1>3, <1>4, Fun_IsInj
  <1>7. a \in Surjection(1..n, S)
    BY <1>1, <1>5, <1>6, FS_Injection
  <1>8. \A x \in S : \E i \in 1..n : a[i] = x
    BY <1>7, Fun_SurjectionProperties
  <1>9. a \in Seq(S) /\ Len(a) = n /\ DOMAIN a = 1..n
    BY <1>3
  <1>10. QED
    BY <1>2, <1>4, <1>8, <1>9 DEF Distinct

-----------------------------------------------------------------------------
(* What a stage finds due *)

\* The kinds of two categories differ, so that stages share none but by two sources.
LEMMA TypesApart ==
  /\ \A x \in FlagTypes : x \notin QuotaTypes \cup RuleTypes \cup BudgetTypes
  /\ \A x \in QuotaTypes : x \notin RuleTypes \cup BudgetTypes
  /\ \A x \in RuleTypes : x \notin BudgetTypes
  /\ \A x \in Types : x[1] = "budget" => x \in BudgetTypes
  /\ \A s, t : <<"budget", s, t>>[1] = "budget" /\ <<"budget", s, t>>[3] = t
  /\ \A s : <<"budget_forecast_overrun", s>>[1] = "budget_forecast_overrun"
  <1>1. \A x \in FlagTypes : x[1] \in Flags
    BY DEF FlagTypes
  <1>2. \A x \in QuotaTypes : x[1] = "token_quota"
    BY DEF QuotaTypes
  <1>3. \A x \in RuleTypes : x[1] = "rule"
    BY DEF RuleTypes
  <1>4. \A x \in BudgetTypes : x[1] = "budget" \/ x[1] = "budget_forecast_overrun"
    BY DEF BudgetTypes
  <1>5. /\ "budget" \notin Flags /\ "budget_forecast_overrun" \notin Flags
        /\ "rule" \notin Flags /\ "token_quota" \notin Flags
    BY DEF Flags
  <1>6. QED
    BY <1>1, <1>2, <1>3, <1>4, <1>5 DEF Types

LEMMA StagesApart ==
  ASSUME NEW a, NEW b, NEW j \in Nat, NEW k \in Nat, j < k, RaisedIn(a, j), RaisedIn(b, k),
         a.type = b.type
  PROVE  a.source # b.source
  <1>1. PICK n \in Nat : n = Len(Budgets)
    BY BudgetsAre
  <1>2. PICK m \in Nat : m = Len(RateLimits) /\ LastStage = 2 + n + m
    BY <1>1, BudgetsAre
  <1>3. CASE a.type \in FlagTypes
    BY <1>1, <1>2, <1>3, TypesApart DEF RaisedIn
  <1>4. CASE a.type \in BudgetTypes
    BY <1>1, <1>2, <1>4, TypesApart DEF RaisedIn
  <1>5. CASE a.type \in QuotaTypes
    BY <1>1, <1>2, <1>5, TypesApart DEF RaisedIn
  <1>6. CASE a.type \in RuleTypes
    BY <1>1, <1>2, <1>6, TypesApart DEF RaisedIn
  <1>7. QED
    BY <1>3, <1>4, <1>5, <1>6 DEF RaisedIn

LEMMA EventIs ==
  ASSUME Shapes, NEW r \in Requests, pos[r] <= Len(Events[r])
  PROVE  Event(r) \in EventShape /\ pos[r] \in 1..Len(Events[r])
  <1>1. Events[r] \in Seq(EventShape)
    BY AlertAssumption
  <1>2. QED
    BY <1>1 DEF Shapes, Event

LEMMA VisibleIs ==
  ASSUME TypeInv, NEW r \in Requests
  PROVE  VisibleRow(r) \in Spend
  BY DEF TypeInv, Shapes, Progress, VisibleRow

\* A list of alerts of stage k of the event of r, none twice, and true.
Fits(seq, r, k) ==
  /\ seq \in Seq(Alert) /\ Unlike(seq)
  /\ \A i \in 1..Len(seq) :
       /\ seq[i].event = pos[r] /\ RaisedIn(seq[i], k)
       /\ TrueAlert(seq[i], VisibleRow(r).cost)

\* An alert of a category other than the budgets' is true of any spend.
LEMMA OthersAreTrue ==
  ASSUME NEW a, a.type \in FlagTypes \cup QuotaTypes \cup RuleTypes, NEW x
  PROVE  TrueAlert(a, x)
  BY TypesApart DEF TrueAlert, Types

LEMMA SecurityIs ==
  ASSUME Shapes, NEW r \in Requests, pos[r] <= Len(Events[r])
  PROVE  Fits(SecurityDue(r), r, 1)
  <1>1. PICK flags : flags = Event(r).flags
    OBVIOUS
  <1>2. flags \in Seq(Flags) /\ pos[r] \in Nat
    BY <1>1, EventIs DEF EventShape, Shapes
  <1>3. Distinct(flags)
    BY <1>1, EventIs, AlertAssumption DEF Event
  <1>4. PICK found : found = SecurityDue(r)
    OBVIOUS
  <1>5. found = [i \in 1..Len(flags) |->
           Raise(r, <<flags[i]>>,
                 IF flags[i] \in {"pii_detected", "misuse_pattern"} THEN "critical" ELSE "high",
                 0)]
    BY <1>1, <1>2, <1>4 DEF SecurityDue
  <1>6. \A i \in 1..Len(flags) : flags[i] \in Flags
    BY <1>2
  <1>7. \A i \in 1..Len(flags) :
          /\ found[i] \in Alert /\ found[i].type = <<flags[i]>> /\ found[i].event = pos[r]
          /\ found[i].type \in FlagTypes
    BY <1>2, <1>5, <1>6 DEF Raise, Alert, Severities, Types, FlagTypes
  <1>8. found \in Seq(Alert) /\ Len(found) = Len(flags)
    BY <1>2, <1>5, <1>7
  <1>9. Unlike(found)
    <2>1. \A i, j \in 1..Len(flags) : <<flags[i]>> = <<flags[j]>> => i = j
      BY <1>2, <1>3 DEF Distinct
    <2>2. QED
      BY <1>7, <1>8, <2>1 DEF Unlike, Differ
  <1>10. QED
    BY <1>4, <1>7, <1>8, <1>9, OthersAreTrue DEF Fits, RaisedIn

LEMMA QuotaIs ==
  ASSUME Shapes, NEW r \in Requests, NEW i \in 1..Len(RateLimits)
  PROVE  Fits(QuotaDue(r, i), r, 1 + Len(Budgets) + i)
  <1>1. PICK k : k = 1 + Len(Budgets) + i
    OBVIOUS
  <1>2. k - 1 - Len(Budgets) = i /\ i \in Nat /\ pos[r] \in Nat
    BY <1>1, BudgetsAre DEF Shapes
  <1>3. PICK found : found = QuotaDue(r, i)
    OBVIOUS
  <1>4. CASE found = <<>>
    BY <1>1, <1>3, <1>4 DEF Fits, Unlike
  <1>5. ASSUME NEW severity \in Severities,
               found = <<Raise(r, <<"token_quota">>, severity, i)>>
        PROVE  Fits(found, r, k)
    <2>1. PICK a : a = Raise(r, <<"token_quota">>, severity, i)
      OBVIOUS
    <2>2. /\ a \in Alert /\ a.type \in QuotaTypes /\ a.event = pos[r] /\ a.source = i
      BY <1>2, <2>1 DEF Raise, Alert, Types, QuotaTypes
    <2>3. RaisedIn(a, k)
      BY <1>2, <2>2 DEF RaisedIn
    <2>4. TrueAlert(a, VisibleRow(r).cost)
      BY <2>2, OthersAreTrue
    <2>5. found = <<a>>
      BY <1>5, <2>1
    <2>6. QED
      BY <2>2, <2>3, <2>4, <2>5 DEF Fits, Unlike
  <1>6. found = <<>> \/ \E severity \in Severities :
                         found = <<Raise(r, <<"token_quota">>, severity, i)>>
    BY <1>3 DEF QuotaDue, Severities
  <1>7. QED
    BY <1>1, <1>3, <1>4, <1>5, <1>6

LEMMA RulesIs ==
  ASSUME Shapes, NEW r \in Requests, pos[r] <= Len(Events[r])
  PROVE  Fits(RulesDue(r), r, LastStage)
  <1>1. PICK rules : rules = Event(r).rules
    OBVIOUS
  <1>2. rules \in Seq([metric : STRING, severity : STRING]) /\ pos[r] \in Nat
    BY <1>1, EventIs DEF EventShape, Shapes
  <1>3. PICK found : found = RulesDue(r)
    OBVIOUS
  <1>4. found = [i \in 1..Len(rules) |->
          Raise(r, <<"rule", rules[i].metric>>, rules[i].severity, i)]
    BY <1>1, <1>2, <1>3 DEF RulesDue
  <1>5. ASSUME NEW i \in 1..Len(rules)
        PROVE  rules[i].metric \in STRING /\ rules[i].severity \in STRING
    <2>1. PICK R : R = [metric : STRING, severity : STRING]
      OBVIOUS
    <2>2. rules \in Seq(R)
      BY <1>2, <2>1
    <2>3. rules[i] \in R
      BY <2>2
    <2>4. QED
      BY <2>1, <2>3
  <1>6. ASSUME NEW i \in 1..Len(rules)
        PROVE  /\ found[i] \in Alert /\ found[i].type \in RuleTypes
               /\ found[i].event = pos[r] /\ found[i].source = i
    <2>1. PICK m \in STRING : m = rules[i].metric
      BY <1>5
    <2>2. PICK severity \in STRING : severity = rules[i].severity
      BY <1>5
    <2>3. found[i] = Raise(r, <<"rule", m>>, severity, i)
      BY <1>4, <2>1, <2>2
    <2>4. <<"rule", m>> \in RuleTypes
      BY DEF RuleTypes
    <2>5. <<"rule", m>> \in Types /\ severity \in Severities /\ i \in Nat
      BY <1>2, <2>4 DEF Types, Severities
    <2>6. QED
      BY <1>2, <2>3, <2>4, <2>5 DEF Raise, Alert
  <1>7. found \in Seq(Alert) /\ Len(found) = Len(rules)
    BY <1>2, <1>4, <1>6
  <1>8. Unlike(found)
    BY <1>6, <1>7 DEF Unlike, Differ
  <1>9. QED
    BY <1>3, <1>6, <1>7, <1>8, OthersAreTrue DEF Fits, RaisedIn

\* In the stage of a budget the tiers the visible total crosses are due.
LEMMA BudgetIs ==
  ASSUME TypeInv, NEW r \in Requests, NEW n \in 1..Len(Budgets)
  PROVE  /\ Fits(BudgetDue(r, n), r, n + 1)
         /\ \A t \in TiersOf(Budgets[n]) :
              Crossed(Budgets[n], VisibleRow(r).cost, t) =>
                Holds(BudgetDue(r, n), <<"budget", Budgets[n].scope, t>>)
  <1>1. PICK b \in Budget : b = Budgets[n] /\ b.scope \in Scopes
    BY BudgetsAre
  <1>2. PICK cost : cost = VisibleRow(r).cost
    OBVIOUS
  <1>3. PICK S : S = {t \in TiersOf(b) : Crossed(b, cost, t)}
    OBVIOUS
  <1>4. S \in SUBSET Nat /\ IsFiniteSet(S)
    BY <1>1, <1>3, BudgetsAre, FS_Subset
  <1>5. PICK crossed : crossed = Ascending(S)
    OBVIOUS
  <1>6. PICK tiers : tiers = [k \in DOMAIN crossed |->
          Raise(r, <<"budget", b.scope, crossed[k]>>,
                IF crossed[k] >= 100 THEN "critical" ELSE "high", n)]
    OBVIOUS
  <1>7. PICK a : a = Raise(r, <<"budget_forecast_overrun", b.scope>>, "high", n)
    OBVIOUS
  <1>8. PICK found : found = BudgetDue(r, n)
    OBVIOUS
  <1>9. found = tiers \o <<a>> \/ found = tiers \o <<>>
    BY <1>1, <1>2, <1>3, <1>5, <1>6, <1>7, <1>8 DEF BudgetDue
  <1>10. /\ crossed \in Seq(S) /\ Distinct(crossed)
         /\ \A t \in S : \E i \in 1..Len(crossed) : crossed[i] = t
    BY <1>4, <1>5, AscendingIs
  <1>11. n \in Nat /\ n + 1 - 1 = n /\ pos[r] \in Nat
    BY BudgetsAre DEF TypeInv, Shapes
  <1>12. \A i \in 1..Len(crossed) : crossed[i] \in S /\ crossed[i] \in Nat
    <2>1. \A i \in 1..Len(crossed) : crossed[i] \in S
      BY <1>10
    <2>2. QED
      BY <1>4, <2>1
  <1>13. \A i \in 1..Len(crossed) :
           /\ tiers[i] \in Alert /\ tiers[i].type = <<"budget", b.scope, crossed[i]>>
           /\ tiers[i].type \in BudgetTypes /\ tiers[i].event = pos[r] /\ tiers[i].source = n
    <2>1. ASSUME NEW i \in 1..Len(crossed)
          PROVE  <<"budget", b.scope, crossed[i]>> \in BudgetTypes
      BY <1>1, <1>12 DEF BudgetTypes
    <2>2. QED
      BY <1>6, <1>10, <1>11, <2>1 DEF Raise, Alert, Severities, Types
  <1>14. /\ a \in Alert /\ a.type = <<"budget_forecast_overrun", b.scope>>
         /\ a.type \in BudgetTypes /\ a.event = pos[r] /\ a.source = n
    <2>1. <<"budget_forecast_overrun", b.scope>> \in BudgetTypes
      BY <1>1 DEF BudgetTypes
    <2>2. QED
      BY <1>7, <1>11, <2>1 DEF Raise, Alert, Severities, Types
  <1>15. tiers \in Seq(Alert) /\ Len(tiers) = Len(crossed) /\ Len(crossed) \in Nat
    <2>1. DOMAIN crossed = 1..Len(crossed) /\ Len(crossed) \in Nat
      BY <1>10
    <2>2. tiers \in [1..Len(crossed) -> Alert]
      BY <1>6, <1>13, <2>1
    <2>3. QED
      BY <2>1, <2>2
  <1>16. /\ found \in Seq(Alert)
         /\ \A i \in 1..Len(crossed) : i \in 1..Len(found) /\ found[i] = tiers[i]
         /\ \A i \in 1..Len(found) :
              i \in 1..Len(crossed) \/ (i = Len(crossed) + 1 /\ found[i] = a)
    <2>1. PICK n1 \in Nat : n1 = Len(crossed) /\ n1 = Len(tiers)
      BY <1>15
    <2>2. CASE found = tiers \o <<>>
      <3>1. found = tiers
        BY <1>15, <2>2
      <3>2. QED
        BY <1>15, <2>1, <3>1
    <2>3. CASE found = tiers \o <<a>>
      <3>1. <<a>> \in Seq(Alert) /\ Len(<<a>>) = 1 /\ <<a>>[1] = a
        BY <1>14
      <3>2. /\ found \in Seq(Alert) /\ Len(found) = n1 + 1 /\ found[n1 + 1] = a
            /\ \A i \in 1..n1 : found[i] = tiers[i]
        BY <1>15, <2>1, <2>3, <3>1
      <3>3. QED
        BY <2>1, <3>2
    <2>4. QED
      BY <1>9, <2>2, <2>3
  <1> HIDE <1>9
  <1>17. Unlike(found)
    <2>1. \A i, j \in 1..Len(crossed) :
            <<"budget", b.scope, crossed[i]>> = <<"budget", b.scope, crossed[j]>> => i = j
      BY <1>10 DEF Distinct
    <2>2. \A i \in 1..Len(crossed) : tiers[i].type # a.type
      BY <1>13, <1>14, TypesApart
    <2>3. QED
      BY <1>13, <1>16, <2>1, <2>2 DEF Unlike, Differ
  <1>18. ASSUME NEW i \in 1..Len(found)
         PROVE  /\ found[i].event = pos[r] /\ RaisedIn(found[i], n + 1)
                /\ TrueAlert(found[i], cost)
    <2>1. found[i].type \in BudgetTypes /\ found[i].event = pos[r] /\ found[i].source = n
      BY <1>13, <1>14, <1>16
    <2>2. CASE i \in 1..Len(crossed)
      <3>1. found[i].type[3] = crossed[i] /\ found[i].type[3] \in Nat
        BY <1>12, <1>13, <1>16, <2>2, TypesApart
      <3>2. Crossed(b, cost, crossed[i])
        BY <1>3, <1>12, <2>2
      <3>3. QED
        BY <1>1, <1>11, <2>1, <3>1, <3>2 DEF RaisedIn, TrueAlert
    <2>3. CASE found[i] = a
      <3>1. found[i].type[1] = "budget_forecast_overrun"
        BY <1>14, <2>3, TypesApart
      <3>2. QED
        BY <1>11, <2>1, <3>1 DEF RaisedIn, TrueAlert
    <2>4. QED
      BY <1>16, <2>2, <2>3
  <1>19. ASSUME NEW t \in TiersOf(b), Crossed(b, cost, t)
         PROVE  Holds(found, <<"budget", b.scope, t>>)
    <2>1. PICK i \in 1..Len(crossed) : crossed[i] = t
      BY <1>3, <1>10, <1>19
    <2>2. QED
      BY <1>13, <1>16, <2>1 DEF Holds
  <1>20. QED
    BY <1>1, <1>2, <1>8, <1>16, <1>17, <1>18, <1>19 DEF Fits

LEMMA DueIs ==
  ASSUME TypeInv, NEW r \in Requests, pos[r] <= Len(Events[r]), stage[r] <= LastStage
  PROVE  /\ Fits(DueIn(r), r, stage[r])
         /\ \A tier \in AllTiers :
              tier[1] + 1 = stage[r] /\ Reached(tier, VisibleRow(r).cost) =>
                Holds(DueIn(r), TypeOf(tier))
  <1>1. Shapes
    BY DEF TypeInv
  <1>2. PICK n \in Nat : n = Len(Budgets)
    BY BudgetsAre
  <1>3. PICK m \in Nat : m = Len(RateLimits) /\ LastStage = 2 + n + m
    BY <1>2, BudgetsAre
  <1>4. PICK k \in Nat : k = stage[r] - 1 /\ stage[r] = k + 1 /\ k <= 1 + n + m
    <2>1. PICK l \in Nat : l = LastStage
      BY <1>3
    <2>2. PICK p \in 1..l + 1 : p = stage[r]
      BY <1>1, <2>1 DEF Shapes
    <2>3. QED
      BY <1>3, <2>1, <2>2
  <1>5. CASE k = 0
    <2>1. DueIn(r) = SecurityDue(r)
      BY <1>4, <1>5 DEF DueIn
    <2>2. QED
      BY <1>1, <1>4, <1>5, <2>1, SecurityIs, TiersAre
  <1>6. CASE k \in 1..n
    <2>1. DueIn(r) = BudgetDue(r, k)
      BY <1>2, <1>4, <1>6 DEF DueIn
    <2>2. Fits(DueIn(r), r, stage[r])
      BY <1>2, <1>4, <1>6, <2>1, BudgetIs
    <2>3. ASSUME NEW tier \in AllTiers, tier[1] + 1 = stage[r], Reached(tier, VisibleRow(r).cost)
          PROVE  Holds(DueIn(r), TypeOf(tier))
      <3>1. tier[1] = k /\ tier[2] \in TiersOf(Budgets[k])
        BY <1>2, <1>4, <2>3, TiersAre
      <3>2. QED
        BY <1>2, <1>6, <2>1, <2>3, <3>1, BudgetIs DEF Reached, TypeOf
    <2>4. QED
      BY <2>2, <2>3
  <1>7. CASE k - n \in 1..m
    <2>1. DueIn(r) = QuotaDue(r, k - n)
      BY <1>2, <1>3, <1>4, <1>7 DEF DueIn
    <2>2. 1 + n + (k - n) = stage[r]
      BY <1>4
    <2>3. Fits(DueIn(r), r, stage[r])
      BY <1>1, <1>2, <1>3, <1>7, <2>1, <2>2, QuotaIs
    <2>4. ASSUME NEW tier \in AllTiers PROVE tier[1] + 1 # stage[r]
      <3>1. tier[1] \in 1..n
        BY <1>2, TiersAre
      <3>2. k > n
        BY <1>7
      <3>3. QED
        BY <1>4, <3>1, <3>2
    <2>5. QED
      BY <2>3, <2>4
  <1>8. CASE k = 1 + n + m
    <2>1. DueIn(r) = RulesDue(r)
      BY <1>2, <1>3, <1>4, <1>8 DEF DueIn
    <2>2. QED
      BY <1>1, <1>2, <1>3, <1>4, <1>8, <2>1, RulesIs, TiersAre
  <1>9. QED
    BY <1>4, <1>5, <1>6, <1>7, <1>8

-----------------------------------------------------------------------------
(* How far a request has come *)

LEMMA TypeInit == Init => TypeInv
  <1> SUFFICES ASSUME Init PROVE TypeInv
    OBVIOUS
  <1>1. InitialSpend \in Spend /\ InitialSpend.cost \in Nat /\ NoOne \notin Requests
    BY AlertAssumption DEF Spend
  <1>2. \A r \in Requests : Events[r] \in Seq(EventShape) /\ Events[r] # <<>>
    BY AlertAssumption
  <1>3. \A r \in Requests : Len(Events[r]) \in Nat \ {0}
    BY <1>2, EmptySeq
  <1>4. Shapes
    BY <1>1, BudgetsAre DEF Init, Shapes, Working
  <1>5. \A r \in Requests : Progress(r)
    BY <1>1, <1>3 DEF Init, Progress
  <1>6. QED
    BY <1>4, <1>5 DEF TypeInv

LEMMA TypeStep ==
  ASSUME TypeInv, [Next]_vars
  PROVE  TypeInv'
  <1> USE DEF TypeInv
  <1>1. LastStage \in Nat /\ NoOne \notin Requests
    BY AlertAssumption, BudgetsAre
  <1>2. \A r \in Requests : Len(Events[r]) \in Nat \ {0}
    <2>1. \A r \in Requests : Events[r] \in Seq(EventShape) /\ Events[r] # <<>>
      BY AlertAssumption
    <2>2. QED
      BY <2>1, EmptySeq
  <1>3. ASSUME NEW r \in Requests, Begin(r) PROVE TypeInv'
    <2>1. Shapes'
      BY <1>3 DEF Begin, Goto, Shapes, Working, Spend
    <2>2. ASSUME NEW q \in Requests PROVE Progress(q)'
      BY <1>3 DEF Begin, Goto, Shapes, Progress, Working
    <2>3. QED
      BY <2>1, <2>2
  <1>4. ASSUME NEW r \in Requests, UpsertDailySummary(r) PROVE TypeInv'
    <2>1. pos[r] <= Len(Events[r])
      BY <1>4 DEF UpsertDailySummary, Progress
    <2>2. Event(r).cost \in Nat /\ Event(r).tokens \in Nat
      BY <2>1, EventIs DEF EventShape
    <2>3. PICK total \in Spend : row' = [row EXCEPT ![r] = total]
      <3>1. PICK base \in Spend :
              row' = [row EXCEPT ![r] = [cost |-> base.cost + Event(r).cost,
                                         tokens |-> base.tokens + Event(r).tokens]]
        BY <1>4 DEF UpsertDailySummary, Shapes
      <3>2. [cost |-> base.cost + Event(r).cost, tokens |-> base.tokens + Event(r).tokens]
              \in Spend
        BY <2>2 DEF Spend
      <3>3. QED
        BY <3>1, <3>2
    <2>4. row' \in [Requests -> Spend \cup {<<>>}] /\ row'[r] \in Spend
      BY <2>3 DEF Shapes
    <2>5. Shapes'
      <3>1. charged' \in [Requests -> Nat] /\ stage' \in [Requests -> 1..LastStage + 1]
        BY <1>1, <1>4, <2>2 DEF UpsertDailySummary, Shapes
      <3>2. pc' \in [Requests -> Working \cup {"begin", "created", "error"}]
        BY <1>4 DEF UpsertDailySummary, Goto, Shapes, Working
      <3>3. QED
        BY <1>4, <2>4, <3>1, <3>2 DEF UpsertDailySummary, Shapes
    <2>6. ASSUME NEW q \in Requests PROVE Progress(q)'
      <3>1. q # r => row'[q] = row[q]
        BY <2>3 DEF Shapes
      <3>2. QED
        BY <1>4, <2>4, <3>1 DEF UpsertDailySummary, Goto, Shapes, Progress, Working
    <2>7. QED
      BY <2>5, <2>6
  <1>5. ASSUME NEW r \in Requests, Evaluate(r) PROVE TypeInv'
    <2>1. DueIn(r) \in Seq(Alert)
      BY <1>5, DueIs DEF Evaluate, Progress, Fits
    <2>2. Shapes'
      <3>1. due' \in [Requests -> Seq(Alert)] /\ stage' \in [Requests -> 1..LastStage + 1]
        <4>1. PICK found \in Seq(Alert) : due' = [due EXCEPT ![r] = found]
          BY <1>5, <2>1 DEF Evaluate
        <4>2. PICK n \in 1..LastStage + 1 : stage' = [stage EXCEPT ![r] = n]
          <5>1. stage[r] \in 1..LastStage
            BY <1>1, <1>5 DEF Evaluate, Shapes
          <5>2. stage[r] + 1 \in 1..LastStage + 1
            BY <1>1, <5>1
          <5>3. stage' = [stage EXCEPT ![r] = stage[r] + 1]
            BY <1>5 DEF Evaluate
          <5>4. QED
            BY <5>2, <5>3
        <4>3. QED
          BY <1>1, <4>1, <4>2 DEF Shapes
      <3>2. pc' \in [Requests -> Working \cup {"begin", "created", "error"}]
        BY <1>5 DEF Evaluate, Goto, Shapes, Working
      <3>3. QED
        BY <1>5, <3>1, <3>2 DEF Evaluate, Shapes, history
    <2>3. ASSUME NEW q \in Requests PROVE Progress(q)'
      <3>1. PICK found : found = DueIn(r)
        OBVIOUS
      <3>2. pc'[q] = "create" => due'[q] # <<>> /\ stage'[q] > 1
        <4>1. /\ due' = [due EXCEPT ![r] = found] /\ stage' = [stage EXCEPT ![r] = @ + 1]
              /\ pc' = [pc EXCEPT ![r] = IF found = <<>> THEN "evaluate" ELSE "create"]
          BY <1>5, <3>1 DEF Evaluate, Goto
        <4>2. stage[r] \in Nat \ {0}
          BY <1>1 DEF Shapes
        <4>3. CASE q = r
          BY <4>1, <4>2, <4>3 DEF Shapes
        <4>4. CASE q # r
          BY <4>1, <4>4 DEF Shapes, Progress
        <4>5. QED
          BY <4>3, <4>4
      <3>3. /\ UNCHANGED <<pos, written, added, row, rowLock, flushed>>
            /\ pc[r] = "evaluate" /\ pc'[r] \in {"evaluate", "create"}
            /\ q # r => pc'[q] = pc[q]
        BY <1>5 DEF Evaluate, Goto, Shapes
      <3>4. QED
        BY <3>2, <3>3 DEF Progress, Working
    <2>4. QED
      BY <2>2, <2>3
  <1>6. ASSUME NEW r \in Requests, CreateAlert(r) PROVE TypeInv'
    <2>1. due[r] \in Seq(Alert) /\ due[r] # <<>>
      BY <1>6 DEF CreateAlert, Shapes, Progress
    <2>2. /\ Head(due[r]) \in Alert /\ Tail(due[r]) \in Seq(Alert)
          /\ Len(due[r]) # 1 => Tail(due[r]) # <<>>
      <3>1. PICK d \in Seq(Alert) : d = due[r] /\ d # <<>>
        BY <2>1
      <3>2. Head(d) \in Alert /\ Tail(d) \in Seq(Alert) /\ Len(Tail(d)) = Len(d) - 1
        BY <3>1, HeadTailProperties
      <3>3. Len(d) # 1 => Len(Tail(d)) # 0
        BY <3>2
      <3>4. QED
        BY <3>1, <3>2, <3>3
    <2>3. PICK a \in Alert : added' = added \/ added' = [added EXCEPT ![r] = Append(@, a)]
      BY <1>6, <2>2 DEF CreateAlert
    <2>4. added' \in [Requests -> Seq(Alert)] /\ \A q \in Requests : Len(added[q]) <= Len(added'[q])
      <3>1. added[r] \in Seq(Alert)
        BY DEF Shapes
      <3>2. Append(added[r], a) \in Seq(Alert) /\ Len(Append(added[r], a)) = Len(added[r]) + 1
        BY <3>1
      <3>3. \A q \in Requests : Len(added[q]) \in Nat
        BY DEF Shapes
      <3>4. CASE added' = added
        BY <3>3, <3>4 DEF Shapes
      <3>5. CASE added' = [added EXCEPT ![r] = Append(@, a)]
        <4>1. PICK long \in Seq(Alert) : long = Append(added[r], a) /\ Len(long) = Len(added[r]) + 1
          BY <3>2
        <4>2. added' = [added EXCEPT ![r] = long]
          BY <3>5, <4>1
        <4>3. QED
          BY <3>3, <4>1, <4>2 DEF Shapes
      <3>6. QED
        BY <2>3, <3>4, <3>5
    <2>5. Shapes'
      BY <1>6, <2>2, <2>4 DEF CreateAlert, Goto, Shapes, Working, history
    <2>6. ASSUME NEW q \in Requests PROVE Progress(q)'
      <3>1. q # r => added'[q] = added[q]
        BY <2>3 DEF Shapes
      <3>2. written'[q] <= Len(added'[q])
        BY <1>6, <2>4 DEF CreateAlert, Shapes, Progress
      <3>3. QED
        BY <1>6, <2>2, <3>1, <3>2 DEF CreateAlert, Goto, Shapes, Progress, Working, history
    <2>7. QED
      BY <2>5, <2>6
  <1>7. ASSUME NEW r \in Requests, FlushSession(r) PROVE TypeInv'
    <2>1. Shapes'
      BY <1>7 DEF FlushSession, Goto, Shapes, Working, history
    <2>2. pos[r] <= Len(Events[r]) /\ row[r] \in Spend
      BY <1>7 DEF FlushSession, Progress
    <2>3. ASSUME NEW q \in Requests PROVE Progress(q)'
      <3>1. CASE q = r
        BY <1>1, <1>2, <1>7, <2>2, <3>1 DEF FlushSession, Goto, Shapes, Progress, Working, history
      <3>2. CASE q # r
        <4>1. /\ pc'[q] = pc[q] /\ pos'[q] = pos[q] /\ flushed'[q] = flushed[q]
              /\ written'[q] = written[q]
              /\ UNCHANGED <<stage, row, due, added>>
              /\ rowLock \in {NoOne, r} /\ rowLock' = r
          BY <1>7, <3>2 DEF FlushSession, Goto, Shapes
        <4>2. pc[q] # "commit"
          BY <1>1, <3>2, <4>1 DEF Progress
        <4>3. QED
          BY <3>2, <4>1, <4>2 DEF Progress
      <3>3. QED
        BY <3>1, <3>2
    <2>4. QED
      BY <2>1, <2>3
  <1>8. ASSUME NEW r \in Requests, CommitRequest(r) PROVE TypeInv'
    <2>1. rowLock = r /\ flushed[r] \in Spend /\ written[r] = Len(added[r])
      BY <1>8 DEF CommitRequest, Progress
    <2>2. Stored(r) \subseteq StoredAlert
      <3>1. \A i \in 1..written[r] : added[r][i] \in Alert
        BY <2>1 DEF Shapes
      <3>2. ASSUME NEW i \in 1..written[r]
            PROVE  [alert |-> added[r][i], status |-> "active", by |-> r, n |-> i] \in StoredAlert
        <4>1. i \in Nat
          OBVIOUS
        <4>2. QED
          BY <3>1, <4>1 DEF StoredAlert
      <3>3. QED
        BY <3>2 DEF Stored
    <2>3. Shapes'
      BY <1>8, <2>1, <2>2 DEF CommitRequest, Goto, Shapes, Working, history
    <2>4. ASSUME NEW q \in Requests PROVE Progress(q)'
      BY <1>1, <1>8, <2>1 DEF CommitRequest, Goto, Shapes, Progress, Working
    <2>5. QED
      BY <2>3, <2>4
  <1>9. ASSUME NEW r \in Requests, FailRequest(r) PROVE TypeInv'
    <2>1. Shapes'
      BY <1>9 DEF FailRequest, Goto, Shapes, Working, history
    <2>2. ASSUME NEW q \in Requests PROVE Progress(q)'
      BY <1>1, <1>9 DEF FailRequest, Goto, Shapes, Progress, Working
    <2>3. QED
      BY <2>1, <2>2
  <1>10. ASSUME NEW a \in alerts, ResolveAlert(a) PROVE TypeInv'
    <2>1. [a EXCEPT !.status = "resolved"] \in StoredAlert
      BY DEF Shapes, StoredAlert
    <2>2. Shapes'
      BY <1>10, <2>1 DEF ResolveAlert, Shapes, session, history
    <2>3. ASSUME NEW q \in Requests PROVE Progress(q)'
      BY <1>10 DEF ResolveAlert, Progress, session, history
    <2>4. QED
      BY <2>2, <2>3
  <1>11. CASE UNCHANGED vars
    BY <1>11 DEF vars, session, history, Shapes, Progress
  <1>12. QED
    BY <1>3, <1>4, <1>5, <1>6, <1>7, <1>8, <1>9, <1>10, <1>11 DEF Next, Serve

LEMMA TypeAlways == Spec => []TypeInv
  <1>1. TypeInv /\ [Next]_vars => TypeInv'
    BY TypeStep
  <1>2. QED
    BY TypeInit, <1>1, PTL DEF Spec

-----------------------------------------------------------------------------
(* Totals never exceed what was spent *)

LEMMA NothingIsNoSpend == <<>> \notin Spend
  <1>1. \A total \in Spend : DOMAIN total = {"cost", "tokens"}
    BY DEF Spend
  <1>2. DOMAIN <<>> = {}
    OBVIOUS
  <1>3. QED
    BY <1>1, <1>2

LEMMA MoneyInit == Init => MoneyInv
  <1> SUFFICES ASSUME Init PROVE MoneyInv
    OBVIOUS
  <1>1. posted = summary.cost /\ summary.cost \in Nat
    BY AlertAssumption DEF Init, Spend
  <1>2. alerts = {}
    BY DEF Init
  <1>3. ASSUME NEW r \in Requests
        PROVE  MoneyOf(r)
    <2>1. row[r] = <<>> /\ flushed[r] = <<>> /\ added[r] = <<>> /\ pc[r] = "begin"
      BY DEF Init
    <2>2. QED
      BY <2>1, NothingIsNoSpend DEF MoneyOf, Bounded, TrueOf
  <1>4. QED
    BY <1>1, <1>2, <1>3 DEF MoneyInv

LEMMA TrueMore ==
  ASSUME NEW a, NEW x \in Nat, NEW y \in Nat, x <= y, TrueAlert(a, x)
  PROVE  TrueAlert(a, y)
  BY BudgetsAre, CrossedGrows DEF TrueAlert

LEMMA TrueOfMore ==
  ASSUME NEW seq, NEW x \in Nat, NEW y \in Nat, x <= y, TrueOf(seq, x)
  PROVE  TrueOf(seq, y)
  BY TrueMore DEF TrueOf

LEMMA MoneyStep ==
  ASSUME TypeInv, MoneyInv, [Next]_vars
  PROVE  MoneyInv'
  <1>1. Shapes /\ \A r \in Requests : Progress(r)
    BY DEF TypeInv
  <1>2. \A r \in Requests : charged[r] \in Nat /\ posted \in Nat /\ posted + charged[r] \in Nat
    BY <1>1 DEF Shapes
  <1>4. summary \in Spend /\ summary.cost \in Nat
    BY <1>1 DEF Shapes, Spend
  <1>5. ASSUME NEW r \in Requests, Begin(r) PROVE MoneyInv'
    <2>1. ASSUME NEW q \in Requests PROVE MoneyOf(q)'
      <3>1. pc'[q] = "create" => pc[q] = "create"
        BY <1>1, <1>5 DEF Begin, Goto, Shapes
      <3>2. QED
        BY <1>5, <3>1 DEF Begin, MoneyInv, MoneyOf, Bounded
    <2>2. QED
      BY <1>5, <2>1 DEF Begin, MoneyInv
  <1>6. ASSUME NEW r \in Requests, UpsertDailySummary(r) PROVE MoneyInv'
    <2>1. PICK c \in Nat : c = Event(r).cost
      BY <1>1, <1>6, EventIs DEF EventShape, UpsertDailySummary, Progress
    <2>2. PICK base : base = IF row[r] = <<>> THEN summary ELSE row[r]
      OBVIOUS
    <2>3. base \in Spend /\ base.cost \in Nat /\ base.cost <= posted + charged[r]
      BY <1>1, <1>2, <1>4, <2>2 DEF Shapes, Spend, MoneyInv, MoneyOf, Bounded
    <2>4. row'[r].cost = base.cost + c
      BY <1>1, <1>6, <2>1, <2>2 DEF UpsertDailySummary, Shapes
    <2>5. charged' = [charged EXCEPT ![r] = charged[r] + c] /\ posted' = posted
      BY <1>6, <2>1 DEF UpsertDailySummary
    <2>6. \A q \in Requests : charged'[q] \in Nat /\ charged[q] <= charged'[q]
      <3>1. charged \in [Requests -> Nat]
        BY <1>1 DEF Shapes
      <3>2. PICK n \in Nat : n = charged[r] + c /\ charged[r] <= n
        BY <1>2
      <3>3. charged' = [charged EXCEPT ![r] = n]
        BY <2>5, <3>2
      <3>4. QED
        BY <3>1, <3>2, <3>3
    <2>7. ASSUME NEW q \in Requests PROVE MoneyOf(q)'
      <3>1. PICK x \in Nat : x = posted + charged[q]
        BY <1>2
      <3>2. PICK y \in Nat : y = posted' + charged'[q]
        BY <1>2, <2>5, <2>6
      <3>3. x <= y
        BY <1>2, <2>5, <2>6, <3>1, <3>2
      <3>4. TrueOf(added[q], y) /\ (pc[q] = "create" => TrueOf(due[q], y))
        BY <3>1, <3>3, TrueOfMore DEF MoneyInv, MoneyOf
      <3>5. row'[q] \in Spend => row'[q].cost <= y
        <4>1. CASE q = r
          <5>1. charged'[r] = charged[r] + c
            BY <1>1, <2>5 DEF Shapes
          <5>2. y = posted + (charged[r] + c) /\ row'[q].cost = base.cost + c
            BY <2>4, <2>5, <3>2, <4>1, <5>1
          <5>3. QED
            BY <1>2, <2>3, <5>2
        <4>2. CASE q # r
          <5>1. row'[q] = row[q]
            BY <1>1, <1>6, <4>2 DEF Shapes, UpsertDailySummary
          <5>2. row[q] \in Spend => row[q].cost \in Nat /\ row[q].cost <= x
            BY <3>1 DEF Spend, MoneyInv, MoneyOf, Bounded
          <5>3. QED
            BY <3>3, <5>1, <5>2
        <4>3. QED
          BY <4>1, <4>2
      <3>6. flushed'[q] \in Spend => flushed'[q].cost <= y
        <4>1. flushed[q] \in Spend => flushed[q].cost \in Nat /\ flushed[q].cost <= x
          BY <3>1 DEF Spend, MoneyInv, MoneyOf, Bounded
        <4>2. QED
          BY <1>6, <3>3, <4>1 DEF UpsertDailySummary
      <3>7. added' = added /\ due' = due /\ (pc'[q] = "create" => pc[q] = "create")
        BY <1>1, <1>6 DEF UpsertDailySummary, Goto, Shapes
      <3>8. QED
        BY <3>2, <3>4, <3>5, <3>6, <3>7 DEF MoneyOf, Bounded
    <2>8. QED
      BY <1>6, <2>7 DEF UpsertDailySummary, MoneyInv
  <1>7. ASSUME NEW r \in Requests, Evaluate(r) PROVE MoneyInv'
    <2>1. PICK found : found = DueIn(r)
      OBVIOUS
    <2>2. TrueOf(found, posted + charged[r])
      <3>1. PICK spent \in Nat : spent = VisibleRow(r).cost
        BY VisibleIs DEF Spend
      <3>2. spent <= posted + charged[r]
        BY <1>1, <1>2, <1>4, <3>1
          DEF VisibleRow, Shapes, Spend, Progress, MoneyInv, MoneyOf, Bounded
      <3>3. TrueOf(found, spent)
        BY <1>1, <1>7, <2>1, <3>1, DueIs DEF Evaluate, Progress, Fits, TrueOf
      <3>4. QED
        BY <1>2, <3>2, <3>3, TrueOfMore
    <2>3. /\ UNCHANGED <<summary, alerts, row, flushed, added, charged, posted>>
          /\ due' = [due EXCEPT ![r] = found]
          /\ \A q \in Requests : q # r => pc'[q] = pc[q]
      BY <1>1, <1>7, <2>1 DEF Evaluate, Goto, Shapes, history
    <2>4. ASSUME NEW q \in Requests PROVE MoneyOf(q)'
      <3>1. pc'[q] = "create" => TrueOf(due'[q], posted + charged[q])
        BY <1>1, <2>2, <2>3 DEF MoneyInv, MoneyOf, Shapes
      <3>2. QED
        BY <2>3, <3>1 DEF MoneyInv, MoneyOf, Bounded
    <2>5. QED
      BY <2>3, <2>4 DEF MoneyInv
  <1>8. ASSUME NEW r \in Requests, CreateAlert(r) PROVE MoneyInv'
    <2>1. /\ UNCHANGED <<summary, alerts, row, flushed, charged, posted>>
          /\ due' = [due EXCEPT ![r] = Tail(@)]
          /\ added' = added \/ added' = [added EXCEPT ![r] = Append(@, Head(due[r]))]
          /\ \A q \in Requests : pc'[q] = "create" => pc[q] = "create"
      BY <1>1, <1>8 DEF CreateAlert, Goto, Shapes, history
    <2>2. PICK d \in Seq(Alert) : d = due[r] /\ d # <<>>
      BY <1>1, <1>8 DEF CreateAlert, Shapes, Progress
    <2>3. PICK x : x = posted + charged[r]
      OBVIOUS
    <2>4. TrueOf(d, x)
      BY <1>8, <2>2, <2>3 DEF CreateAlert, MoneyInv, MoneyOf
    <2>5. PICK seq \in Seq(Alert) : seq = added[r]
      BY <1>1 DEF Shapes
    <2>6. TrueOf(Tail(d), x)
      <3>1. \A i \in 1..Len(Tail(d)) : i + 1 \in 1..Len(d) /\ Tail(d)[i] = d[i + 1]
        BY <2>2, HeadTailProperties
      <3>2. QED
        BY <2>4, <3>1 DEF TrueOf
    <2>7. TrueOf(Append(seq, Head(d)), x)
      <3>1. Head(d) = d[1] /\ 1 \in 1..Len(d)
        BY <2>2
      <3>2. TrueOf(seq, x)
        BY <2>3, <2>5 DEF MoneyInv, MoneyOf
      <3>3. PICK a : a = d[1]
        OBVIOUS
      <3>4. TrueAlert(a, x)
        BY <2>4, <3>1, <3>3 DEF TrueOf
      <3>5. \A i \in 1..Len(Append(seq, a)) :
              Append(seq, a)[i] = a \/ (i \in 1..Len(seq) /\ Append(seq, a)[i] = seq[i])
        BY <2>5
      <3>6. QED
        BY <3>1, <3>2, <3>3, <3>4, <3>5 DEF TrueOf
    <2>8. ASSUME NEW q \in Requests PROVE MoneyOf(q)'
      <3>1. TrueOf(added'[q], posted + charged[q])
        <4>1. added'[q] = added[q] \/ (q = r /\ added'[q] = Append(seq, Head(d)))
          BY <1>1, <2>1, <2>2, <2>5 DEF Shapes
        <4>2. QED
          BY <2>3, <2>7, <4>1 DEF MoneyInv, MoneyOf
      <3>2. pc'[q] = "create" => TrueOf(due'[q], posted + charged[q])
        <4>1. due'[q] = IF q = r THEN Tail(d) ELSE due[q]
          BY <1>1, <2>1, <2>2 DEF Shapes
        <4>2. QED
          BY <2>1, <2>3, <2>6, <4>1 DEF MoneyInv, MoneyOf
      <3>3. QED
        BY <2>1, <3>1, <3>2 DEF MoneyInv, MoneyOf, Bounded
    <2>9. QED
      BY <2>1, <2>8 DEF MoneyInv
  <1>9. ASSUME NEW r \in Requests, FlushSession(r) PROVE MoneyInv'
    <2>1. ASSUME NEW q \in Requests PROVE MoneyOf(q)'
      <3>1. pc'[q] # "create" \/ pc[q] = "create"
        BY <1>1, <1>9 DEF FlushSession, Goto, Shapes
      <3>2. flushed'[q] = IF q = r THEN row[q] ELSE flushed[q]
        BY <1>1, <1>9 DEF FlushSession, Shapes
      <3>3. QED
        BY <1>9, <3>1, <3>2 DEF FlushSession, MoneyInv, MoneyOf, Bounded, history
    <2>2. QED
      BY <1>9, <2>1 DEF FlushSession, MoneyInv, history
  <1>10. ASSUME NEW r \in Requests, CommitRequest(r) PROVE MoneyInv'
    <2>1. PICK x \in Nat : x = posted + charged[r]
      BY <1>2
    <2>2. posted' = x /\ posted <= x /\ charged' = charged
      BY <1>2, <1>10, <2>1 DEF CommitRequest
    <2>3. summary'.cost <= posted'
      <3>1. rowLock = r /\ flushed[r] \in Spend
        BY <1>1, <1>10 DEF CommitRequest, Progress
      <3>2. QED
        BY <1>10, <2>1, <2>2, <3>1 DEF CommitRequest, MoneyInv, MoneyOf, Bounded
    <2>4. ASSUME NEW a \in alerts'
          PROVE  TrueAlert(a.alert, x)
      <3>1. a \in alerts \/ a \in Stored(r)
        BY <1>10 DEF CommitRequest
      <3>2. CASE a \in alerts
        BY <1>2, <2>2, <3>2, TrueMore DEF MoneyInv
      <3>3. CASE a \in Stored(r)
        <4>1. PICK i \in 1..written[r] : a.alert = added[r][i]
          BY <3>3 DEF Stored
        <4>2. i \in 1..Len(added[r])
          BY <1>1, <1>10 DEF CommitRequest, Progress
        <4>3. TrueOf(added[r], x)
          BY <2>1 DEF MoneyInv, MoneyOf
        <4>4. QED
          BY <4>1, <4>2, <4>3 DEF TrueOf
      <3>4. QED
        BY <3>1, <3>2, <3>3
    <2>5. ASSUME NEW q \in Requests PROVE MoneyOf(q)'
      <3>1. PICK u \in Nat : u = posted + charged[q]
        BY <1>2
      <3>2. PICK v \in Nat : v = x + charged[q]
        BY <1>2
      <3>3. u <= v
        BY <1>2, <2>2, <3>1, <3>2
      <3>4. TrueOf(added[q], v) /\ (pc[q] = "create" => TrueOf(due[q], v))
        BY <3>1, <3>3, TrueOfMore DEF MoneyInv, MoneyOf
      <3>5. /\ row[q] \in Spend => row[q].cost \in Nat /\ row[q].cost <= v
            /\ flushed[q] \in Spend => flushed[q].cost \in Nat /\ flushed[q].cost <= v
        BY <3>1, <3>2, <3>3 DEF Spend, MoneyInv, MoneyOf, Bounded
      <3>6. /\ UNCHANGED <<row, flushed, added, due>> /\ posted' + charged'[q] = v
            /\ pc'[q] = "create" => pc[q] = "create"
        BY <1>1, <1>10, <2>2, <3>2 DEF CommitRequest, Goto, Shapes
      <3>7. QED
        BY <3>4, <3>5, <3>6 DEF MoneyOf, Bounded
    <2>6. QED
      BY <2>2, <2>3, <2>4, <2>5 DEF MoneyInv
  <1>11. ASSUME NEW r \in Requests, FailRequest(r) PROVE MoneyInv'
    <2>1. ASSUME NEW q \in Requests PROVE MoneyOf(q)'
      <3>1. pc'[q] = "create" => pc[q] = "create"
        BY <1>1, <1>11 DEF FailRequest, Goto, Shapes
      <3>2. QED
        BY <1>11, <3>1 DEF FailRequest, MoneyInv, MoneyOf, Bounded, history
    <2>2. QED
      BY <1>11, <2>1 DEF FailRequest, MoneyInv, history
  <1>12. ASSUME NEW a \in alerts, ResolveAlert(a) PROVE MoneyInv'
    <2>1. \A b \in alerts' : \E c \in alerts : b.alert = c.alert
      <3>1. [a EXCEPT !.status = "resolved"].alert = a.alert
        BY <1>1 DEF Shapes, StoredAlert
      <3>2. QED
        BY <1>12, <3>1 DEF ResolveAlert
    <2>2. ASSUME NEW q \in Requests PROVE MoneyOf(q)'
      BY <1>12 DEF ResolveAlert, MoneyInv, MoneyOf, Bounded, session, history
    <2>3. QED
      BY <1>12, <2>1, <2>2 DEF ResolveAlert, MoneyInv, session, history
  <1>13. CASE UNCHANGED vars
    BY <1>13 DEF vars, session, history, MoneyInv, MoneyOf, Bounded
  <1>14. QED
    BY <1>5, <1>6, <1>7, <1>8, <1>9, <1>10, <1>11, <1>12, <1>13 DEF Next, Serve

-----------------------------------------------------------------------------
(* One alert of a kind *)

LEMMA KindInit == Init => KindInv
  <1> SUFFICES ASSUME Init, NEW r \in Requests PROVE KindOf(r)
    BY DEF KindInv
  <1>1. added[r] = <<>> /\ pc[r] = "begin"
    BY DEF Init
  <1>2. QED
    BY <1>1 DEF KindOf, Unlike

LEMMA KindStep ==
  ASSUME TypeInv, KindInv, [Next]_vars
  PROVE  KindInv'
  <1>1. Shapes /\ \A r \in Requests : Progress(r)
    BY DEF TypeInv
  <1>2. \A r \in Requests :
          /\ KindOf(r) /\ added[r] \in Seq(Alert) /\ written[r] \in Nat /\ Len(added[r]) \in Nat
          /\ stage[r] \in Nat \ {0}
    BY <1>1, BudgetsAre DEF KindInv, Shapes
  <1>3. ASSUME NEW q \in Requests, added'[q] = added[q],
               pc'[q] \notin {"evaluate", "create"}
        PROVE  KindOf(q)'
    BY <1>2, <1>3 DEF KindOf
  <1>4. ASSUME NEW q \in Requests, pc'[q] = pc[q], added'[q] = added[q],
               written'[q] = written[q], stage'[q] = stage[q], due'[q] = due[q],
               pos'[q] = pos[q]
        PROVE  KindOf(q)'
    BY <1>2, <1>4 DEF KindOf
  <1>5. ASSUME NEW r \in Requests, Begin(r) \/ FlushSession(r) \/ CommitRequest(r) \/ FailRequest(r)
        PROVE  KindInv'
    <2>1. /\ pc'[r] \notin {"evaluate", "create"} /\ added' = added
          /\ \A q \in Requests :
               q # r => pc'[q] = pc[q] /\ written'[q] = written[q] /\ pos'[q] = pos[q]
          /\ stage' = stage /\ due' = due
      BY <1>1, <1>5 DEF Begin, FlushSession, CommitRequest, FailRequest, Goto, Shapes
    <2>2. ASSUME NEW q \in Requests PROVE KindOf(q)'
      BY <1>3, <1>4, <2>1
    <2>3. QED
      BY <2>2 DEF KindInv
  <1>6. ASSUME NEW r \in Requests, UpsertDailySummary(r) PROVE KindInv'
    <2>1. /\ pc'[r] = "evaluate" /\ UNCHANGED <<added, written, due, pos>>
          /\ \A q \in Requests : q # r => pc'[q] = pc[q] /\ stage'[q] = stage[q]
      BY <1>1, <1>6 DEF UpsertDailySummary, Goto, Shapes
    <2>2. written[r] = Len(added[r])
      BY <1>1, <1>6 DEF UpsertDailySummary, Progress
    <2>3. KindOf(r)'
      <3>1. written'[r] + 1..Len(added'[r]) = {}
        BY <1>2, <2>1, <2>2
      <3>2. QED
        BY <1>2, <2>1, <3>1 DEF KindOf
    <2>4. QED
      BY <1>4, <2>1, <2>3 DEF KindInv
  <1>7. ASSUME NEW r \in Requests, Evaluate(r) PROVE KindInv'
    <2>1. PICK found : found = DueIn(r)
      OBVIOUS
    <2>2. /\ found \in Seq(Alert) /\ Unlike(found)
          /\ \A i \in 1..Len(found) : found[i].event = pos[r] /\ RaisedIn(found[i], stage[r])
      BY <1>1, <1>7, <2>1, DueIs DEF Evaluate, Progress, Fits
    <2>3. /\ pc[r] = "evaluate" /\ UNCHANGED <<added, written, pos>>
          /\ stage'[r] = stage[r] + 1 /\ due'[r] = found
          /\ \A q \in Requests :
               q # r => pc'[q] = pc[q] /\ stage'[q] = stage[q] /\ due'[q] = due[q]
      BY <1>1, <1>7, <2>1 DEF Evaluate, Goto, Shapes
    <2>4. \A j \in written[r] + 1..Len(added[r]) :
            added[r][j].event = pos[r] /\ \E k \in 1..stage[r] - 1 : RaisedIn(added[r][j], k)
      BY <1>2, <2>3 DEF KindOf
    <2>5. KindOf(r)'
      <3>1. \A j \in written[r] + 1..Len(added[r]) :
              \E k \in 1..stage'[r] - 1 : RaisedIn(added[r][j], k)
        <4>1. 1..stage[r] - 1 \subseteq 1..stage'[r] - 1
          BY <1>2, <2>3
        <4>2. QED
          BY <2>4, <4>1
      <3>2. ASSUME NEW i \in 1..Len(found), NEW j \in written[r] + 1..Len(added[r])
            PROVE  Differ(added[r][j], found[i])
        <4>1. PICK k \in 1..stage[r] - 1 : RaisedIn(added[r][j], k)
          BY <2>4
        <4>2. k \in Nat /\ stage[r] \in Nat /\ k < stage[r] /\ RaisedIn(found[i], stage[r])
          BY <1>2, <2>2, <4>1
        <4>3. added[r][j].event = found[i].event
          BY <2>2, <2>4
        <4>4. QED
          BY <4>1, <4>2, <4>3, StagesApart DEF Differ
      <3>3. stage'[r] - 1 = stage[r]
        BY <1>2, <2>3
      <3>4. QED
        BY <1>2, <2>2, <2>3, <2>4, <3>1, <3>2, <3>3 DEF KindOf
    <2>6. QED
      BY <1>4, <2>3, <2>5 DEF KindInv
  <1>8. ASSUME NEW r \in Requests, CreateAlert(r) PROVE KindInv'
    <2>1. PICK d \in Seq(Alert) : d = due[r] /\ d # <<>>
      BY <1>1, <1>8 DEF CreateAlert, Shapes, Progress
    <2>2. PICK seq \in Seq(Alert) : seq = added[r] /\ Len(seq) \in Nat
      BY <1>2
    <2>3. PICK n \in Nat : n = written[r] /\ n <= Len(seq)
      BY <1>1, <1>2, <2>2 DEF Progress
    <2>4. /\ pc[r] = "create" /\ UNCHANGED <<written, stage, pos>> /\ due'[r] = Tail(d)
          /\ \A q \in Requests :
               q # r => pc'[q] = pc[q] /\ added'[q] = added[q] /\ due'[q] = due[q]
      BY <1>1, <1>8, <2>1 DEF CreateAlert, Goto, Shapes
    <2>5. PICK a : a = d[1] /\ a = Head(d)
      BY <2>1
    <2>6. \/ added'[r] = seq
          \/ added'[r] = Append(seq, a) /\ \A i \in 1..n : seq[i].type # a.type
      BY <1>1, <1>8, <2>1, <2>2, <2>3, <2>5 DEF CreateAlert, Duplicate, Shapes
    <2>7. /\ Unlike(seq) /\ Unlike(d)
          /\ \A i \in n + 1..Len(seq) :
               seq[i].event = pos[r] /\ \E k \in 1..stage[r] - 1 : RaisedIn(seq[i], k)
          /\ \A i \in 1..Len(d) :
               /\ d[i].event = pos[r] /\ RaisedIn(d[i], stage[r] - 1)
               /\ \A j \in n + 1..Len(seq) : Differ(seq[j], d[i])
      BY <1>2, <2>1, <2>2, <2>3, <2>4 DEF KindOf
    <2>8. 1 \in 1..Len(d) /\ \A i \in 1..Len(Tail(d)) :
            i + 1 \in 1..Len(d) /\ i + 1 # 1 /\ Tail(d)[i] = d[i + 1]
      BY <2>1, HeadTailProperties
    <2>9. PICK rest : rest = Tail(d)
      OBVIOUS
    <2>10. /\ Unlike(rest)
           /\ \A i \in 1..Len(rest) :
                /\ rest[i].event = pos[r] /\ RaisedIn(rest[i], stage[r] - 1)
                /\ Differ(a, rest[i])
                /\ \A j \in n + 1..Len(seq) : Differ(seq[j], rest[i])
      <3>1. ASSUME NEW i \in 1..Len(rest), NEW j \in 1..Len(rest), i # j
            PROVE  Differ(rest[i], rest[j])
        <4>1. i + 1 # j + 1
          BY <3>1
        <4>2. QED
          BY <2>7, <2>8, <2>9, <4>1 DEF Unlike
      <3>2. \A i \in 1..Len(rest) : Differ(a, rest[i])
        BY <2>5, <2>7, <2>8, <2>9 DEF Unlike
      <3>3. QED
        BY <2>7, <2>8, <2>9, <3>1, <3>2 DEF Unlike
    <2>11. KindOf(r)'
      <3>1. CASE added'[r] = seq
        BY <2>3, <2>4, <2>7, <2>9, <2>10, <3>1 DEF KindOf
      <3>2. CASE added'[r] = Append(seq, a) /\ \A i \in 1..n : seq[i].type # a.type
        <4>1. PICK long : long = Append(seq, a)
          OBVIOUS
        <4>2. /\ Len(long) = Len(seq) + 1 /\ long[Len(seq) + 1] = a
              /\ \A i \in 1..Len(seq) : long[i] = seq[i]
          BY <2>2, <4>1
        <4>3. \A i \in 1..Len(seq) : Differ(seq[i], a) /\ Differ(a, seq[i])
          <5>1. \A i \in 1..Len(seq) : i \in 1..n \/ i \in n + 1..Len(seq)
            BY <2>2, <2>3
          <5>2. QED
            BY <2>5, <2>7, <2>8, <3>2, <5>1 DEF Differ
        <4>4. \A i \in 1..Len(long) : i \in 1..Len(seq) \/ i = Len(seq) + 1
          BY <2>2, <4>2
        <4>5. Unlike(long)
          BY <2>7, <4>2, <4>3, <4>4 DEF Unlike
        <4>6. \A i \in n + 1..Len(long) :
                (i \in n + 1..Len(seq) /\ long[i] = seq[i]) \/ long[i] = a
          BY <2>2, <2>3, <4>2
        <4>7. /\ a.event = pos[r] /\ RaisedIn(a, stage[r] - 1)
              /\ stage[r] > 1 /\ stage[r] - 1 \in 1..stage[r] - 1
          <5>1. stage[r] > 1
            BY <1>1, <2>4 DEF Progress
          <5>2. QED
            BY <1>2, <2>5, <2>7, <2>8, <5>1
        <4>8. \A i \in n + 1..Len(long) :
                long[i].event = pos[r] /\ \E k \in 1..stage[r] - 1 : RaisedIn(long[i], k)
          BY <2>7, <4>6, <4>7
        <4>9. \A i \in 1..Len(rest), j \in n + 1..Len(long) : Differ(long[j], rest[i])
          BY <2>10, <4>6
        <4>10. /\ added'[r] = long /\ due'[r] = rest /\ written'[r] = n
               /\ stage'[r] = stage[r] /\ pos'[r] = pos[r]
          BY <2>3, <2>4, <2>9, <3>2, <4>1
        <4>11. QED
          BY <2>10, <4>5, <4>8, <4>9, <4>10 DEF KindOf
      <3>3. QED
        BY <2>6, <3>1, <3>2
    <2>12. QED
      BY <1>4, <2>4, <2>11 DEF KindInv
  <1>9. ASSUME NEW a \in alerts, ResolveAlert(a) PROVE KindInv'
    BY <1>4, <1>9 DEF ResolveAlert, session, KindInv
  <1>10. CASE UNCHANGED vars
    BY <1>4, <1>10 DEF vars, session, KindInv
  <1>11. QED
    BY <1>5, <1>6, <1>7, <1>8, <1>9, <1>10 DEF Next, Serve

LEMMA StoredStep ==
  ASSUME TypeInv, StoredInv, [Next]_vars
  PROVE  StoredInv'
  <1>1. Shapes /\ \A r \in Requests : Progress(r)
    BY DEF TypeInv
  <1>2. \A a \in alerts : a.by \in Requests
    BY <1>1 DEF Shapes, StoredAlert
  <1>3. ASSUME alerts' = alerts,
               \A q \in Requests : pc[q] = "created" => pc'[q] = "created" /\ added'[q] = added[q]
        PROVE  StoredInv'
    BY <1>2, <1>3 DEF StoredInv
  <1>4. ASSUME NEW r \in Requests,
               Begin(r) \/ UpsertDailySummary(r) \/ Evaluate(r) \/ CreateAlert(r)
                 \/ FlushSession(r) \/ FailRequest(r)
        PROVE  StoredInv'
    <2>1. /\ alerts' = alerts /\ pc[r] # "created"
          /\ \A q \in Requests : q # r => pc'[q] = pc[q] /\ added'[q] = added[q]
      BY <1>1, <1>4
        DEF Begin, UpsertDailySummary, Evaluate, CreateAlert, FlushSession, FailRequest, Goto,
            Shapes
    <2>2. QED
      BY <1>3, <2>1
  <1>5. ASSUME NEW r \in Requests, CommitRequest(r) PROVE StoredInv'
    <2>1. /\ alerts' = alerts \cup Stored(r) /\ added' = added
          /\ pc[r] = "commit" /\ pc'[r] = "created"
          /\ \A q \in Requests : q # r => pc'[q] = pc[q]
      BY <1>1, <1>5 DEF CommitRequest, Goto, Shapes
    <2>2. written[r] = Len(added[r])
      BY <1>1, <2>1 DEF Progress
    <2>3. \A a \in alerts : a.by # r
      BY <2>1 DEF StoredInv
    <2>4. \A a \in Stored(r) : a.by = r /\ a.n \in 1..Len(added[r]) /\ a.alert = added[r][a.n]
      BY <2>2 DEF Stored
    <2>5. \A a, b \in Stored(r) : a.n = b.n => a = b
      BY DEF Stored
    <2>6. \A a \in alerts' :
            pc'[a.by] = "created" /\ a.n \in 1..Len(added[a.by]) /\ a.alert = added[a.by][a.n]
      BY <1>2, <2>1, <2>3, <2>4 DEF StoredInv
    <2>7. \A a, b \in alerts' : a.by = b.by /\ a.n = b.n => a = b
      BY <2>1, <2>3, <2>4, <2>5 DEF StoredInv
    <2>8. QED
      BY <2>1, <2>6, <2>7 DEF StoredInv
  <1>6. ASSUME NEW a \in alerts, ResolveAlert(a) PROVE StoredInv'
    <2>1. PICK b : b = [a EXCEPT !.status = "resolved"]
      OBVIOUS
    <2>2. b.by = a.by /\ b.n = a.n /\ b.alert = a.alert
      BY <1>1, <2>1 DEF Shapes, StoredAlert
    <2>3. alerts' = (alerts \ {a}) \cup {b} /\ UNCHANGED <<pc, added>>
      BY <1>6, <2>1 DEF ResolveAlert, session
    <2>4. QED
      BY <2>2, <2>3 DEF StoredInv
  <1>7. CASE UNCHANGED vars
    BY <1>3, <1>7 DEF vars, session
  <1>8. QED
    BY <1>4, <1>5, <1>6, <1>7 DEF Next, Serve

-----------------------------------------------------------------------------
(* Every tier a request began above is alerted *)

LEMMA NextInit == Init => NextInv
  <1> SUFFICES ASSUME Init, NEW r \in Requests PROVE NextOf(r)
    BY DEF NextInv
  <1>1. pc[r] = "begin"
    BY DEF Init
  <1>2. QED
    BY <1>1 DEF NextOf, Working

LEMMA NextStep ==
  ASSUME TypeInv, NextInv, [Next]_vars
  PROVE  NextInv'
  <1>1. Shapes /\ \A r \in Requests : Progress(r) /\ NextOf(r)
    BY DEF TypeInv, NextInv
  <1>2. ASSUME NEW tier \in AllTiers, NEW x \in Nat, NEW y \in Nat, x <= y, Reached(tier, x)
        PROVE  Reached(tier, y)
    BY <1>2, TiersAre, CrossedGrows DEF Reached
  <1>3. /\ LastStage \in Nat /\ LastStage = 2 + Len(Budgets) + Len(RateLimits)
        /\ Len(Budgets) \in Nat /\ Len(RateLimits) \in Nat
        /\ \A q \in Requests : stage[q] \in Nat \ {0} /\ began[q] \in Nat
        /\ \A tier \in AllTiers : tier[1] \in 1..Len(Budgets)
    BY <1>1, BudgetsAre, TiersAre DEF Shapes
  \* A step that touches nothing of q and keeps the stored types keeps what q has.
  <1>4. ASSUME NEW q \in Requests, summary' = summary, UNCHANGED <<began, undisturbed>>,
               pc'[q] = pc[q], pos'[q] = pos[q], stage'[q] = stage[q], row'[q] = row[q],
               flushed'[q] = flushed[q], due'[q] = due[q], added'[q] = added[q],
               \A a \in alerts : \E b \in alerts' : b.alert = a.alert
        PROVE  NextOf(q)'
    <2>1. \A type : (Stands(type) => Stands(type)') /\ (Alerted(q, type) => Alerted(q, type)')
      BY <1>4 DEF Alerted, Stands
    <2>2. \A tier : Past(q, tier)' <=> Past(q, tier)
      BY <1>4 DEF Past
    <2>3. QED
      BY <1>1, <1>4, <2>1, <2>2 DEF NextOf, Covers
  <1>5. ASSUME NEW r \in Requests, Begin(r) PROVE NextInv'
    <2>1. /\ began'[r] = summary.cost /\ pc'[r] = "upsert" /\ summary' = summary
          /\ UNCHANGED <<alerts, pos, stage, row, flushed, due, added>>
          /\ \A q \in Requests : q # r =>
               pc'[q] = pc[q] /\ began'[q] = began[q] /\ undisturbed'[q] = undisturbed[q]
      BY <1>1, <1>5 DEF Begin, Goto, Shapes
    <2>2. pos[r] = 1 /\ row[r] = <<>> /\ flushed[r] = <<>>
      BY <1>1, <1>5 DEF Begin, Progress
    <2>3. NextOf(r)'
      BY <1>3, <2>1, <2>2, NothingIsNoSpend DEF NextOf, Covers, Past
    <2>4. ASSUME NEW q \in Requests, q # r PROVE NextOf(q)'
      <3>1. \A type : (Stands(type)' <=> Stands(type)) /\ (Alerted(q, type)' <=> Alerted(q, type))
        BY <2>1, <2>4 DEF Alerted, Stands
      <3>2. \A tier : Past(q, tier)' <=> Past(q, tier)
        BY <2>1, <2>4 DEF Past
      <3>3. QED
        BY <1>1, <2>1, <2>4, <3>1, <3>2 DEF NextOf, Covers
    <2>5. QED
      BY <2>3, <2>4 DEF NextInv
  <1>6. ASSUME NEW r \in Requests, UpsertDailySummary(r) PROVE NextInv'
    <2>1. /\ pc[r] = "upsert" /\ pc'[r] = "evaluate" /\ stage'[r] = 1
          /\ UNCHANGED <<summary, alerts, pos, flushed, due, added, began, undisturbed>>
          /\ \A q \in Requests : q # r =>
               pc'[q] = pc[q] /\ stage'[q] = stage[q] /\ row'[q] = row[q]
      BY <1>1, <1>6 DEF UpsertDailySummary, Goto, Shapes
    <2>2. ASSUME undisturbed[r] PROVE NextOf(r)'
      <3>1. PICK c \in Nat : c = Event(r).cost
        BY <1>1, <1>6, EventIs DEF EventShape, UpsertDailySummary, Progress
      <3>2. PICK base : base = IF row[r] = <<>> THEN summary ELSE row[r]
        OBVIOUS
      <3>3. base.cost \in Nat /\ began[r] <= base.cost
        BY <1>1, <1>3, <2>1, <2>2, <3>2 DEF Shapes, Spend, NextOf, Covers, Working
      <3>4. row'[r].cost = base.cost + c
        BY <1>1, <1>6, <3>1, <3>2 DEF UpsertDailySummary, Shapes
      <3>5. began[r] <= row'[r].cost
        BY <1>3, <3>3, <3>4
      <3>6. \A tier \in AllTiers : Past(r, tier)' => Past(r, tier)
        BY <1>3, <2>1 DEF Past
      <3>7. \A type : Alerted(r, type) => Alerted(r, type)'
        BY <2>1 DEF Alerted, Stands
      <3>8. QED
        BY <1>1, <2>1, <3>5, <3>6, <3>7 DEF NextOf, Covers, Working
    <2>3. QED
      BY <1>4, <2>1, <2>2 DEF NextInv, NextOf
  <1>7. ASSUME NEW r \in Requests, Evaluate(r) PROVE NextInv'
    <2>1. PICK found : found = DueIn(r)
      OBVIOUS
    <2>2. /\ pc[r] = "evaluate" /\ stage[r] <= LastStage
          /\ stage'[r] = stage[r] + 1 /\ due'[r] = found
          /\ pc'[r] = IF found = <<>> THEN "evaluate" ELSE "create"
          /\ UNCHANGED <<summary, alerts, pos, row, flushed, added, began, undisturbed>>
          /\ \A q \in Requests : q # r =>
               pc'[q] = pc[q] /\ stage'[q] = stage[q] /\ due'[q] = due[q]
      BY <1>1, <1>3, <1>7, <2>1 DEF Evaluate, Goto, Shapes, history
    <2>3. ASSUME undisturbed[r] PROVE NextOf(r)'
      <3>1. PICK spent \in Nat : spent = VisibleRow(r).cost
        BY VisibleIs DEF Spend
      <3>2. began[r] <= spent
        BY <1>1, <1>3, <2>2, <2>3, <3>1 DEF VisibleRow, Progress, NextOf, Covers, Working
      <3>3. ASSUME NEW tier \in AllTiers, Reached(tier, began[r]), Past(r, tier)'
            PROVE  Alerted(r, TypeOf(tier))'
        <4>1. CASE Past(r, tier)
          BY <1>1, <2>2, <2>3, <3>3, <4>1 DEF NextOf, Alerted, Stands, Working
        <4>2. CASE ~Past(r, tier)
          <5>1. tier[1] + 1 = stage[r]
            BY <1>3, <2>2, <3>3, <4>2 DEF Past
          <5>2. Reached(tier, spent)
            BY <1>2, <1>3, <3>2, <3>3
          <5>3. Holds(found, TypeOf(tier))
            BY <1>1, <1>3, <2>1, <2>2, <3>1, <5>1, <5>2, DueIs DEF Progress
          <5>4. found # <<>>
            BY <5>3 DEF Holds
          <5>5. QED
            BY <2>2, <5>3, <5>4 DEF Alerted
        <4>3. QED
          BY <4>1, <4>2
      <3>4. QED
        BY <1>1, <2>2, <3>3 DEF NextOf, Covers, Working
    <2>4. QED
      BY <1>4, <2>2, <2>3 DEF NextInv, NextOf
  <1>8. ASSUME NEW r \in Requests, CreateAlert(r) PROVE NextInv'
    <2>1. PICK d \in Seq(Alert) : d = due[r] /\ d # <<>>
      BY <1>1, <1>8 DEF CreateAlert, Shapes, Progress
    <2>2. PICK seq \in Seq(Alert) : seq = added[r] /\ written[r] <= Len(seq)
      BY <1>1 DEF Shapes, Progress
    <2>3. PICK a : a = d[1] /\ a = Head(d)
      BY <2>1
    <2>4. /\ pc[r] = "create" /\ due'[r] = Tail(d)
          /\ pc'[r] = IF Len(d) = 1 THEN "evaluate" ELSE "create"
          /\ UNCHANGED <<summary, alerts, pos, stage, row, flushed, began, undisturbed>>
          /\ \A q \in Requests : q # r =>
               pc'[q] = pc[q] /\ added'[q] = added[q] /\ due'[q] = due[q]
      BY <1>1, <1>8, <2>1 DEF CreateAlert, Goto, Shapes, history
    <2>5. \/ added'[r] = seq /\ Duplicate(r, a.type)
          \/ added'[r] = Append(seq, a)
      BY <1>1, <1>8, <2>1, <2>2, <2>3 DEF CreateAlert, Shapes
    <2>6. \A type : Holds(seq, type) => Holds(added'[r], type)
      <3>1. \A i \in 1..Len(seq) : i \in 1..Len(Append(seq, a)) /\ Append(seq, a)[i] = seq[i]
        BY <2>2
      <3>2. QED
        BY <2>5, <3>1 DEF Holds
    <2>7. Holds(added'[r], a.type) \/ Stands(a.type)
      <3>1. CASE Duplicate(r, a.type) /\ added'[r] = seq
        <4>1. \A i \in 1..written[r] : i \in 1..Len(seq)
          BY <1>1, <2>2 DEF Shapes
        <4>2. QED
          BY <2>2, <3>1, <4>1 DEF Duplicate, Holds, Stands
      <3>2. CASE added'[r] = Append(seq, a)
        <4>1. Len(seq) + 1 \in 1..Len(Append(seq, a)) /\ Append(seq, a)[Len(seq) + 1] = a
          BY <2>2
        <4>2. QED
          BY <3>2, <4>1 DEF Holds
      <3>3. QED
        BY <2>5, <3>1, <3>2
    <2>8. ASSUME NEW type, Alerted(r, type) PROVE Alerted(r, type)'
      <3>1. CASE Stands(type)
        BY <2>4, <3>1 DEF Alerted, Stands
      <3>2. CASE Holds(seq, type)
        BY <2>6, <3>2 DEF Alerted
      <3>3. CASE Holds(d, type)
        <4>1. PICK i \in 1..Len(d) : d[i].type = type
          BY <3>3 DEF Holds
        <4>2. CASE i = 1
          BY <2>3, <2>4, <2>7, <4>1, <4>2 DEF Alerted, Stands
        <4>3. CASE i # 1
          <5>1. i - 1 \in 1..Len(Tail(d)) /\ Tail(d)[i - 1] = d[i] /\ Len(d) # 1
            <6>1. PICK rest : rest = Tail(d)
              OBVIOUS
            <6>2. Len(rest) = Len(d) - 1 /\ \A k \in 1..Len(rest) : rest[k] = d[k + 1]
              BY <2>1, <6>1, HeadTailProperties
            <6>3. i - 1 \in 1..Len(rest) /\ (i - 1) + 1 = i /\ Len(d) # 1
              BY <2>1, <4>3, <6>2
            <6>4. QED
              BY <6>1, <6>2, <6>3
          <5>2. QED
            BY <2>4, <4>1, <5>1 DEF Alerted, Holds
        <4>4. QED
          BY <4>2, <4>3
      <3>4. QED
        BY <2>1, <2>2, <2>8, <3>1, <3>2, <3>3 DEF Alerted
    <2>9. \A tier : Past(r, tier)' => Past(r, tier)
      BY <2>4 DEF Past
    <2>10. NextOf(r)'
      BY <1>1, <2>4, <2>8, <2>9 DEF NextOf, Covers, Working
    <2>11. QED
      BY <1>4, <2>4, <2>10 DEF NextInv
  <1>9. ASSUME NEW r \in Requests, FlushSession(r) PROVE NextInv'
    <2>1. /\ pc[r] = "evaluate" /\ stage[r] > LastStage /\ flushed'[r] = row[r]
          /\ pc'[r] \in {"commit", "upsert"}
          /\ UNCHANGED <<summary, alerts, stage, row, due, added, began, undisturbed>>
          /\ \A q \in Requests : q # r =>
               pc'[q] = pc[q] /\ pos'[q] = pos[q] /\ flushed'[q] = flushed[q]
      BY <1>1, <1>3, <1>9 DEF FlushSession, Goto, Shapes, history
    <2>2. \A tier \in AllTiers : Past(r, tier)
      BY <1>3, <2>1 DEF Past
    <2>3. \A type : Alerted(r, type) => Alerted(r, type)'
      BY <2>1 DEF Alerted, Stands
    <2>4. NextOf(r)'
      BY <1>1, <2>1, <2>2, <2>3 DEF NextOf, Covers, Working
    <2>5. QED
      BY <1>4, <2>1, <2>4 DEF NextInv
  <1>10. ASSUME NEW r \in Requests, CommitRequest(r) PROVE NextInv'
    <2>1. /\ pc[r] = "commit" /\ pc'[r] = "created"
          /\ alerts' = alerts \cup Stored(r) /\ began' = began
          /\ \A q \in Requests : undisturbed'[q] = (undisturbed[q] /\ q = r)
      BY <1>1, <1>10 DEF CommitRequest, Goto, Shapes
    <2>2. (\A tier : Past(r, tier)) /\ written[r] = Len(added[r])
      BY <1>1, <2>1 DEF Progress, Past
    <2>3. ASSUME NEW type, Alerted(r, type)
          PROVE  Stands(type)'
      <3>1. CASE Stands(type)
        BY <2>1, <3>1 DEF Stands
      <3>2. CASE Holds(added[r], type)
        <4>1. PICK i \in 1..written[r] : added[r][i].type = type
          BY <2>2, <3>2 DEF Holds
        <4>2. PICK a : a = [alert |-> added[r][i], status |-> "active", by |-> r, n |-> i]
          OBVIOUS
        <4>3. a \in Stored(r)
          BY <4>2 DEF Stored
        <4>4. a.alert.type = type
          BY <4>1, <4>2
        <4>5. QED
          BY <2>1, <4>3, <4>4 DEF Stands
      <3>3. QED
        BY <1>1, <2>1, <2>3, <3>1, <3>2 DEF Alerted
    <2>4. NextOf(r)'
      BY <1>1, <2>1, <2>2, <2>3 DEF NextOf, Working
    <2>5. QED
      BY <2>1, <2>4 DEF NextInv, NextOf
  <1>11. ASSUME NEW r \in Requests, FailRequest(r) PROVE NextInv'
    <2>1. /\ pc'[r] = "error"
          /\ UNCHANGED <<summary, alerts, pos, stage, row, flushed, due, added, began, undisturbed>>
          /\ \A q \in Requests : q # r => pc'[q] = pc[q]
      BY <1>1, <1>11 DEF FailRequest, Goto, Shapes, history
    <2>2. NextOf(r)'
      BY <2>1 DEF NextOf, Working
    <2>3. QED
      BY <1>4, <2>1, <2>2 DEF NextInv
  <1>12. ASSUME NEW a \in alerts, ResolveAlert(a) PROVE NextInv'
    <2>1. \A c \in alerts : \E b \in alerts' : b.alert = c.alert
      <3>1. [a EXCEPT !.status = "resolved"].alert = a.alert
        BY <1>1 DEF Shapes, StoredAlert
      <3>2. QED
        BY <1>12, <3>1 DEF ResolveAlert
    <2>2. QED
      BY <1>4, <1>12, <2>1 DEF ResolveAlert, session, history, NextInv
  <1>13. CASE UNCHANGED vars
    BY <1>4, <1>13 DEF vars, session, history, NextInv
  <1>14. QED
    BY <1>5, <1>6, <1>7, <1>8, <1>9, <1>10, <1>11, <1>12, <1>13 DEF Next, Serve

-----------------------------------------------------------------------------
(* Theorems *)

\* Whatever total a request reads while others add to it, lose or roll back theirs,
\* a stored budget alert is true of the events committed (alert_engine.py).
THEOREM AlertsAreTrue == Spec => []BudgetAlertsAreTrue
  <1>1. ASSUME TypeInv, MoneyInv PROVE BudgetAlertsAreTrue
    <2>1. Shapes /\ \A r \in Requests : Progress(r)
      BY <1>1 DEF TypeInv
    <2>2. ASSUME NEW r \in Requests
          PROVE  /\ pos[r] \in 1..Len(Events[r]) + 1 /\ written[r] \in 0..Len(added[r])
                 /\ pc[r] = "create" => due[r] # <<>>
                 /\ pc[r] = "commit" => rowLock = r /\ written[r] = Len(added[r])
      <3>1. Len(Events[r]) \in Nat /\ Len(added[r]) \in Nat
        BY <2>1, AlertAssumption, LenProperties DEF Shapes
      <3>2. QED
        BY <2>1, <3>1 DEF Shapes, Progress
    <2>3. TypeOK
      BY <2>1, <2>2 DEF TypeOK, Shapes, Working, StoredAlert
    <2>4. QED
      BY <1>1, <2>3 DEF BudgetAlertsAreTrue, MoneyInv, TrueAlert
  <1>2. TypeInv /\ MoneyInv /\ [Next]_vars => MoneyInv'
    BY MoneyStep
  <1>3. QED
    BY MoneyInit, TypeAlways, <1>1, <1>2, PTL DEF Spec

\* A request stores an alert of a kind once for a budget, limit or rule, whatever its
\* events and however it interleaves with others (the lookup of _create_alert).
THEOREM OneOfAKind == Spec => []OneAlertPerSource
  <1>1. ASSUME TypeInv, KindInv, StoredInv PROVE OneAlertPerSource
    <2>1. ASSUME NEW a \in alerts, NEW b \in alerts, a.by = b.by, a # b
          PROVE  Differ(a.alert, b.alert)
      <3>1. PICK r \in Requests : r = a.by
        BY <1>1 DEF TypeInv, Shapes, StoredAlert
      <3>2. /\ a.n \in 1..Len(added[r]) /\ b.n \in 1..Len(added[r]) /\ a.n # b.n
            /\ a.alert = added[r][a.n] /\ b.alert = added[r][b.n]
        BY <1>1, <2>1, <3>1 DEF StoredInv
      <3>3. Unlike(added[r])
        BY <1>1 DEF KindInv, KindOf
      <3>4. QED
        BY <3>2, <3>3 DEF Unlike
    <2>2. QED
      BY <2>1 DEF OneAlertPerSource, Differ
  <1>2. Init => StoredInv
    BY DEF Init, StoredInv
  <1>3. TypeInv /\ StoredInv /\ [Next]_vars => StoredInv'
    BY StoredStep
  <1>4. TypeInv /\ KindInv /\ [Next]_vars => KindInv'
    BY KindStep
  <1>5. QED
    BY TypeAlways, KindInit, <1>1, <1>2, <1>3, <1>4, PTL DEF Spec

\* Alerts that concurrent totals lose are raised by the next request: one that
\* nobody commits across leaves every tier crossed before it alerted.
THEOREM NextCatchesUp == Spec => []NextRequestAlerts
  <1>1. TypeInv /\ NextInv /\ [Next]_vars => NextInv'
    BY NextStep
  <1>2. ASSUME NextInv PROVE NextRequestAlerts
    <2>1. ASSUME NEW r \in Requests, pc[r] = "created", undisturbed[r],
                 NEW i \in 1..Len(Budgets), NEW t \in TiersOf(Budgets[i]),
                 Crossed(Budgets[i], began[r], t)
          PROVE  \E a \in alerts : a.alert.type = <<"budget", Budgets[i].scope, t>>
      <3>1. PICK tier : tier = <<i, t>>
        OBVIOUS
      <3>2. tier \in AllTiers /\ tier[1] = i /\ tier[2] = t
        BY <3>1 DEF AllTiers, Tiers
      <3>3. Stands(TypeOf(tier))
        BY <1>2, <2>1, <3>2 DEF NextInv, NextOf, Reached
      <3>4. QED
        BY <3>2, <3>3 DEF Stands, TypeOf
    <2>2. QED
      BY <2>1 DEF NextRequestAlerts
  <1>3. QED
    BY TypeAlways, NextInit, <1>1, <1>2, PTL DEF Spec


-----------------------------------------------------------------------------
(* The anomaly scans.  A scan raises an alert only where none is visible,  *)
(* so that what is stored and what the open scans have added stay within   *)
(* one batch for each scanner; a day that is over can still get what the   *)
(* scans begun on it have not handled.                                     *)

OneBatchEach == Cardinality(Scanners) * BatchLimit
Added(k, d) == [w \in Scanners |-> IF scanDay[w] = d THEN pending[w][k] ELSE 0]
Load(k, d) ==
  [w \in Scanners |-> IF scanDay[w] = d THEN pending[w][k] + Len(remaining[w]) ELSE 0]

\* An idle scanner holds nothing, another began today or yesterday, and each has
\* no more to handle and added than a batch.
ScannersInv ==
  \A w \in Scanners :
    /\ scan[w] = "idle" => pending[w] = None /\ remaining[w] = <<>>
    /\ scan[w] = "create" => scanDay[w] \in {today - 1, today}
    /\ \A k \in Kinds : pending[w][k] + Len(remaining[w]) <= BatchLimit
FutureInv == \A k \in Kinds, d \in Days : d > today => active[k][d] = 0
AddedInv ==
  \A k \in Kinds, d \in Days :
    d = today \/ DedupDays > 0 => active[k][d] + SumOn(Added(k, d), Scanners) <= OneBatchEach
LoadInv ==
  \A k \in Kinds, d \in Days :
    d < today => active[k][d] + SumOn(Load(k, d), Scanners) <= OneBatchEach + OneBatchEach

ScanShapes == ScanTypeOK /\ ScannersInv /\ FutureInv
ScanInv == ScanShapes /\ AddedInv /\ LoadInv

LEMMA EachTyped ==
  IsFiniteSet(Scanners) /\ OneBatchEach \in Nat /\ BatchLimit \in Nat /\ DedupDays \in Nat
  <1>1. Cardinality(Scanners) \in Nat
    BY ScanAssumption, FS_CardinalityType
  <1>2. QED
    BY <1>1, ScanAssumption DEF OneBatchEach

LEMMA SharesTyped ==
  ASSUME ScanTypeOK, NEW k \in Kinds, NEW d
  PROVE  /\ Whole(Added(k, d), Scanners) /\ Whole(Load(k, d), Scanners)
         /\ SumOn(Added(k, d), Scanners) \in Nat /\ SumOn(Load(k, d), Scanners) \in Nat
         /\ \A w \in Scanners : /\ pending[w][k] \in Nat /\ Len(remaining[w]) \in Nat
                               /\ Added(k, d)[w] <= Load(k, d)[w]
  <1>1. \A w \in Scanners : pending[w][k] \in Nat /\ Len(remaining[w]) \in Nat
    <2>1. SUFFICES ASSUME NEW w \in Scanners
                   PROVE  pending[w][k] \in Nat /\ Len(remaining[w]) \in Nat
      OBVIOUS
    <2>2. pending[w] \in [Kinds -> Nat] /\ remaining[w] \in Seq(Kinds)
      BY DEF ScanTypeOK
    <2>3. QED
      BY <2>2, LenProperties
  <1>2. Whole(Added(k, d), Scanners) /\ Whole(Load(k, d), Scanners)
    BY <1>1 DEF Whole, Added, Load
  <1>3. \A w \in Scanners : Added(k, d)[w] <= Load(k, d)[w]
    BY <1>1 DEF Added, Load
  <1>4. QED
    BY <1>1, <1>2, <1>3, EachTyped, SumWhole

LEMMA NewestTyped ==
  ASSUME ScanTypeOK
  PROVE  Newest \in Seq(Kinds) /\ Len(Newest) \in Nat /\ Len(Newest) <= BatchLimit
  <1>1. anomalies \in Seq(Kinds) /\ Len(anomalies) \in Nat
    BY LenProperties DEF ScanTypeOK
  <1>2. \A i \in 1..Len(anomalies) : anomalies[i] \in Kinds
    BY <1>1, ElementOfSeq
  <1>3. PICK n \in Nat : n = Len(anomalies)
    BY <1>1
  <1>4. PICK rev : rev = Reverse(anomalies)
    OBVIOUS
  <1>5. rev = [i \in 1..n |-> anomalies[(n - i) + 1]]
    BY <1>3, <1>4 DEF Reverse
  <1>6. rev \in [1..n -> Kinds]
    BY <1>2, <1>3, <1>5
  <1>7. rev \in Seq(Kinds) /\ Len(rev) = n
    BY <1>6, SeqDef, LenProperties
  <1>8. PICK m \in 0..n : m = (IF n < BatchLimit THEN n ELSE BatchLimit) /\ m <= BatchLimit
    BY EachTyped
  <1>9. Newest = SubSeq(rev, 1, m)
    BY <1>3, <1>4, <1>8 DEF Newest
  <1>10. SubSeq(rev, 1, m) \in Seq(Kinds) /\ Len(SubSeq(rev, 1, m)) = m
    <2>1. \A i \in 1..m : rev[i] \in Kinds
      BY <1>6
    <2>2. QED
      BY <1>7, <2>1, SubSeqProperties
  <1>11. QED
    BY <1>8, <1>9, <1>10

LEMMA InitScans ==
  ScanInit => ScanInv
  <1>1. SUFFICES ASSUME ScanInit PROVE ScanInv
    OBVIOUS
  <1>2. /\ ScanTypeOK /\ \A w \in Scanners : scan[w] = "idle" /\ pending[w] = None
        /\ \A w \in Scanners : remaining[w] = <<>> /\ Len(remaining[w]) = 0
        /\ \A k \in Kinds : None[k] = 0
    BY <1>1, ScanAssumption, EmptySeq DEF ScanInit, ScanTypeOK, None, Days
  <1>3. ScanShapes
    BY <1>1, <1>2, EachTyped DEF ScanShapes, ScannersInv, FutureInv, ScanInit
  <1>4. ASSUME NEW k \in Kinds, NEW d \in Days
        PROVE  /\ active[k][d] = 0 /\ SumOn(Added(k, d), Scanners) = 0
               /\ SumOn(Load(k, d), Scanners) = 0
    <2>1. \A w \in Scanners : Added(k, d)[w] = 0 /\ Load(k, d)[w] = 0
      BY <1>2 DEF Added, Load
    <2>2. active[k][d] = 0
      BY <1>1 DEF ScanInit
    <2>3. QED
      BY <2>1, <2>2, EachTyped, SumZeros
  <1>5. QED
    BY <1>3, <1>4, EachTyped DEF ScanInv, AddedInv, LoadInv

\* A step of one scanner keeps the bounds when, with its own share, each count does
\* not grow, or none of the alerts of that day is active.
LEMMA ScannerStep ==
  ASSUME ScanInv, ScanShapes', NEW w \in Scanners, today' = today,
         \A v \in Scanners \ {w} : /\ scanDay'[v] = scanDay[v] /\ pending'[v] = pending[v]
                                  /\ remaining'[v] = remaining[v],
         \A k \in Kinds, d \in Days :
           /\ \/ active'[k][d] + Added(k, d)'[w] <= active[k][d] + Added(k, d)[w]
              \/ d # today /\ DedupDays = 0
              \/ active'[k][d] = 0
           /\ d < today => active'[k][d] + Load(k, d)'[w] <= active[k][d] + Load(k, d)[w]
  PROVE  ScanInv'
  <1>1. SUFFICES ASSUME NEW k \in Kinds, NEW d \in Days
                 PROVE  /\ d = today \/ DedupDays > 0
                             => active'[k][d] + SumOn(Added(k, d)', Scanners) <= OneBatchEach
                        /\ d < today => active'[k][d] + SumOn(Load(k, d)', Scanners)
                                         <= OneBatchEach + OneBatchEach
    BY DEF ScanInv, AddedInv, LoadInv
  <1>2. PICK f : f = Added(k, d)
    OBVIOUS
  <1>3. PICK h : h = Added(k, d)'
    OBVIOUS
  <1>4. PICK p : p = Load(k, d)
    OBVIOUS
  <1>5. PICK q : q = Load(k, d)'
    OBVIOUS
  <1>6. /\ Whole(f, Scanners) /\ Whole(p, Scanners) /\ SumOn(f, Scanners) \in Nat
        /\ SumOn(p, Scanners) \in Nat
    BY <1>2, <1>4, SharesTyped DEF ScanInv, ScanShapes
  <1>7. /\ Whole(h, Scanners) /\ Whole(q, Scanners) /\ SumOn(h, Scanners) \in Nat
        /\ SumOn(q, Scanners) \in Nat
        /\ \A v \in Scanners : pending'[v][k] \in Nat /\ Len(remaining'[v]) \in Nat
    <2>1. ASSUME NEW v \in Scanners
          PROVE  pending'[v][k] \in Nat /\ Len(remaining'[v]) \in Nat
      <3>1. pending'[v] \in [Kinds -> Nat] /\ remaining'[v] \in Seq(Kinds)
        BY DEF ScanShapes, ScanTypeOK
      <3>2. QED
        BY <3>1, LenProperties
    <2>2. Whole(h, Scanners) /\ Whole(q, Scanners)
      BY <1>3, <1>5, <2>1 DEF Whole, Added, Load
    <2>3. QED
      BY <2>1, <2>2, EachTyped, SumWhole
  <1>8. \A v \in Scanners \ {w} : f[v] = h[v] /\ p[v] = q[v]
    BY <1>2, <1>3, <1>4, <1>5 DEF Added, Load
  <1>9. /\ SumOn(h, Scanners) + f[w] = SumOn(f, Scanners) + h[w]
        /\ SumOn(q, Scanners) + p[w] = SumOn(p, Scanners) + q[w]
    BY <1>6, <1>7, <1>8, EachTyped, SumUpdate
  <1>10. /\ active[k][d] \in Nat /\ active'[k][d] \in Nat /\ OneBatchEach \in Nat
         /\ f[w] \in Nat /\ h[w] \in Nat /\ p[w] \in Nat /\ q[w] \in Nat
    <2>1. active \in [Kinds -> [Days -> Nat]] /\ active' \in [Kinds -> [Days -> Nat]]
      BY DEF ScanInv, ScanShapes, ScanTypeOK
    <2>2. QED
      BY <1>6, <1>7, <2>1, EachTyped DEF Whole
  <1>11. /\ d = today \/ DedupDays > 0 => active[k][d] + SumOn(f, Scanners) <= OneBatchEach
         /\ d < today => active[k][d] + SumOn(p, Scanners) <= OneBatchEach + OneBatchEach
    BY <1>2, <1>4 DEF ScanInv, AddedInv, LoadInv
  <1> DEFINE a == active[k][d]
             b == active'[k][d]
             n == OneBatchEach
             X == SumOn(f, Scanners)
             Y == SumOn(h, Scanners)
             P == SumOn(p, Scanners)
             Q == SumOn(q, Scanners)
             fw == f[w]
             hw == h[w]
             pw == p[w]
             qw == q[w]
  <1>a. /\ {a, b, n, n + n, X, Y, P, Q, fw, hw, pw, qw} \subseteq Nat
        /\ Y + fw = X + hw /\ Q + pw = P + qw
    BY <1>6, <1>7, <1>9, <1>10
  <1>12. d < today => active'[k][d] + SumOn(q, Scanners) <= OneBatchEach + OneBatchEach
    <2>1. SUFFICES ASSUME d < today PROVE b + Q <= n + n
      OBVIOUS
    <2>2. b + qw <= a + pw /\ a + P <= n + n
      BY <1>4, <1>5, <1>11, <2>1
    <2> HIDE DEF a, b, n, X, Y, P, Q, fw, hw, pw, qw
    <2>3. QED
      BY <1>a, <2>2
  <1>13. d = today \/ DedupDays > 0 => active'[k][d] + SumOn(h, Scanners) <= OneBatchEach
    <2>1. CASE active'[k][d] + h[w] <= active[k][d] + f[w]
      <3>1. SUFFICES ASSUME a + X <= n PROVE b + Y <= n
        BY <1>11
      <3>2. b + hw <= a + fw
        BY <2>1
      <3> HIDE DEF a, b, n, X, Y, P, Q, fw, hw, pw, qw
      <3>3. QED
        BY <1>a, <3>1, <3>2
    <2>2. CASE active'[k][d] = 0
      <3>1. ASSUME NEW v \in Scanners PROVE h[v] <= BatchLimit
        <4>1. /\ pending'[v][k] + Len(remaining'[v]) <= BatchLimit
              /\ pending'[v][k] \in Nat /\ Len(remaining'[v]) \in Nat
          BY <1>7 DEF ScanShapes, ScannersInv
        <4>2. h[v] = pending'[v][k] \/ h[v] = 0
          BY <1>3 DEF Added
        <4>3. QED
          BY <4>1, <4>2, EachTyped
      <3>2. SumOn(h, Scanners) <= Cardinality(Scanners) * BatchLimit
        BY <1>7, <3>1, EachTyped, SumCapped
      <3>3. QED
        BY <1>7, <1>10, <2>2, <3>2 DEF OneBatchEach
    <2>3. CASE d # today /\ DedupDays = 0
      BY <2>3
    <2>4. QED
      BY <1>2, <1>3, <2>1, <2>2, <2>3
  <1>14. QED
    BY <1>3, <1>5, <1>12, <1>13

\* What a scanner's shares are made of, before and after.
LEMMA Shares ==
  ASSUME NEW w \in Scanners, NEW k \in Kinds, NEW d
  PROVE  /\ Added(k, d)[w] = IF scanDay[w] = d THEN pending[w][k] ELSE 0
         /\ Added(k, d)'[w] = IF scanDay'[w] = d THEN pending'[w][k] ELSE 0
         /\ Load(k, d)[w] = IF scanDay[w] = d THEN pending[w][k] + Len(remaining[w]) ELSE 0
         /\ Load(k, d)'[w] = IF scanDay'[w] = d THEN pending'[w][k] + Len(remaining'[w]) ELSE 0
  BY DEF Added, Load

LEMMA StartScanStep ==
  ASSUME ScanInv, NEW w \in Scanners, StartScan(w)
  PROVE  ScanInv'
  <1>1. /\ scan[w] = "idle" /\ pending[w] = None /\ remaining[w] = <<>> /\ Len(remaining[w]) = 0
        /\ \A k \in Kinds : pending[w][k] = 0
    BY EmptySeq DEF StartScan, ScanInv, ScanShapes, ScannersInv, None
  <1>2. Newest \in Seq(Kinds) /\ Len(Newest) \in Nat /\ Len(Newest) <= BatchLimit
    BY NewestTyped DEF ScanInv, ScanShapes
  <1>3. /\ scan' = [scan EXCEPT ![w] = "create"] /\ scanDay' = [scanDay EXCEPT ![w] = today]
        /\ remaining' = [remaining EXCEPT ![w] = Newest]
        /\ UNCHANGED <<today, anomalies, active, alerted, pending, scanFaults>>
    BY DEF StartScan
  <1>4. ScanTypeOK
    BY DEF ScanInv, ScanShapes
  <1>5. ScanTypeOK'
    <2>1. today \in Int /\ \A v \in Scanners : scanDay'[v] <= today'
      BY <1>3, <1>4 DEF ScanTypeOK, Days
    <2>2. QED
      BY <1>2, <1>3, <1>4, <2>1 DEF ScanTypeOK
  <1>6. ScannersInv'
    <2>1. SUFFICES ASSUME NEW v \in Scanners
                   PROVE  /\ scan'[v] = "idle" => pending'[v] = None /\ remaining'[v] = <<>>
                          /\ scan'[v] = "create" => scanDay'[v] \in {today - 1, today}
                          /\ \A k \in Kinds : pending'[v][k] + Len(remaining'[v]) <= BatchLimit
      BY <1>3 DEF ScannersInv
    <2>2. CASE v = w
      BY <1>1, <1>2, <1>3, <1>4, <2>2 DEF ScanTypeOK
    <2>3. CASE v # w
      <3>1. /\ scan'[v] = scan[v] /\ scanDay'[v] = scanDay[v] /\ remaining'[v] = remaining[v]
            /\ pending'[v] = pending[v]
        BY <1>3, <1>4, <2>3 DEF ScanTypeOK
      <3>2. QED
        BY <3>1 DEF ScanInv, ScanShapes, ScannersInv
    <2>4. QED
      BY <2>2, <2>3
  <1>7. FutureInv'
    BY <1>3 DEF ScanInv, ScanShapes, FutureInv
  <1>8. ASSUME NEW k \in Kinds, NEW d \in Days
        PROVE  /\ active'[k][d] + Added(k, d)'[w] <= active[k][d] + Added(k, d)[w]
               /\ d < today => active'[k][d] + Load(k, d)'[w] <= active[k][d] + Load(k, d)[w]
    <2>1. /\ Added(k, d)[w] = 0 /\ Added(k, d)'[w] = 0 /\ Load(k, d)[w] = 0
          /\ d < today => Load(k, d)'[w] = 0
      <3>1. scanDay'[w] = today /\ today \in Int /\ d \in Int
        BY <1>3, <1>4 DEF ScanTypeOK, Days
      <3>2. QED
        BY <1>1, <1>3, <3>1, Shares
    <2>2. active[k][d] \in Nat /\ active'[k][d] = active[k][d]
      BY <1>3, <1>4 DEF ScanTypeOK
    <2>3. QED
      BY <2>1, <2>2
  <1>9. \A v \in Scanners \ {w} : /\ scanDay'[v] = scanDay[v] /\ pending'[v] = pending[v]
                                 /\ remaining'[v] = remaining[v]
    BY <1>3, <1>4 DEF ScanTypeOK
  <1>10. ScanShapes'
    BY <1>5, <1>6, <1>7 DEF ScanShapes
  <1>11. QED
    BY <1>3, <1>8, <1>9, <1>10, ScannerStep

\* A scan that ends, with what it adds to the alerts of its day.
LEMMA EndScanStep ==
  ASSUME ScanInv, NEW w \in Scanners, EndScan(w), scan[w] = "create",
         UNCHANGED <<today, anomalies>>, alerted' \subseteq Kinds, scanFaults' \in 0..MaxScanFaults,
         active' \in [Kinds -> [Days -> Nat]],
         \A k \in Kinds, d \in Days :
           \/ active'[k][d] = active[k][d]
           \/ d = scanDay[w] /\ active'[k][d] = active[k][d] + pending[w][k]
  PROVE  ScanInv'
  <1>1. /\ scan' = [scan EXCEPT ![w] = "idle"] /\ scanDay' = [scanDay EXCEPT ![w] = 0]
        /\ remaining' = [remaining EXCEPT ![w] = <<>>] /\ pending' = [pending EXCEPT ![w] = None]
    BY DEF EndScan
  <1>2. ScanTypeOK
    BY DEF ScanInv, ScanShapes
  <1>3. None \in [Kinds -> Nat] /\ \A k \in Kinds : None[k] = 0
    BY DEF None
  <1>4. ScanTypeOK'
    <2>1. 0 \in Days /\ today \in Nat /\ <<>> \in Seq(Kinds)
      BY <1>2, ScanAssumption DEF Days, ScanTypeOK
    <2>2. /\ scan' \in [Scanners -> {"idle", "create"}] /\ scanDay' \in [Scanners -> Days]
          /\ remaining' \in [Scanners -> Seq(Kinds)]
          /\ pending' \in [Scanners -> [Kinds -> Nat]]
      BY <1>1, <1>2, <1>3, <2>1 DEF ScanTypeOK
    <2>3. \A v \in Scanners : scanDay'[v] <= today'
      BY <1>1, <1>2, <2>1 DEF ScanTypeOK
    <2>4. QED
      BY <1>2, <2>2, <2>3 DEF ScanTypeOK, Days
  <1>5. ScannersInv'
    <2>1. SUFFICES ASSUME NEW v \in Scanners
                   PROVE  /\ scan'[v] = "idle" => pending'[v] = None /\ remaining'[v] = <<>>
                          /\ scan'[v] = "create" => scanDay'[v] \in {today - 1, today}
                          /\ \A k \in Kinds : pending'[v][k] + Len(remaining'[v]) <= BatchLimit
      BY DEF ScannersInv, None
    <2>2. CASE v = w
      <3>1. scan'[v] = "idle" /\ pending'[v] = None /\ remaining'[v] = <<>>
        BY <1>1, <1>2, <2>2 DEF ScanTypeOK
      <3>2. Len(remaining'[v]) = 0 /\ \A k \in Kinds : pending'[v][k] = 0
        BY <1>3, <3>1, EmptySeq
      <3>3. QED
        BY <3>1, <3>2, EachTyped
    <2>3. CASE v # w
      <3>1. /\ scan'[v] = scan[v] /\ scanDay'[v] = scanDay[v] /\ remaining'[v] = remaining[v]
            /\ pending'[v] = pending[v]
        BY <1>1, <1>2, <2>3 DEF ScanTypeOK
      <3>2. QED
        BY <3>1 DEF ScanInv, ScanShapes, ScannersInv
    <2>4. QED
      BY <2>2, <2>3
  <1>6. FutureInv'
    <2>1. SUFFICES ASSUME NEW k \in Kinds, NEW d \in Days, d > today PROVE active'[k][d] = 0
      BY DEF FutureInv
    <2>2. d # scanDay[w]
      BY <1>2, <2>1 DEF ScanTypeOK, Days
    <2>3. QED
      BY <2>1, <2>2 DEF ScanInv, ScanShapes, FutureInv
  <1>7. ASSUME NEW k \in Kinds, NEW d \in Days
        PROVE  /\ active'[k][d] + Added(k, d)'[w] <= active[k][d] + Added(k, d)[w]
               /\ active'[k][d] + Load(k, d)'[w] <= active[k][d] + Load(k, d)[w]
    <2>1. /\ active[k][d] \in Nat /\ active'[k][d] \in Nat /\ pending[w][k] \in Nat
          /\ Len(remaining[w]) \in Nat
      <3>1. pending[w] \in [Kinds -> Nat] /\ remaining[w] \in Seq(Kinds)
        BY <1>2 DEF ScanTypeOK
      <3>2. QED
        BY <1>2, <3>1, LenProperties DEF ScanTypeOK
    <2>2. pending'[w] = None /\ remaining'[w] = <<>> /\ Len(remaining'[w]) = 0
      BY <1>1, <1>2, EmptySeq DEF ScanTypeOK
    <2>3. Added(k, d)'[w] = 0 /\ Load(k, d)'[w] = 0
      BY <1>3, <2>2, Shares
    <2>4. QED
      BY <2>1, <2>3, Shares
  <1>8. \A v \in Scanners \ {w} : /\ scanDay'[v] = scanDay[v] /\ pending'[v] = pending[v]
                                 /\ remaining'[v] = remaining[v]
    BY <1>1, <1>2 DEF ScanTypeOK
  <1>9. ScanShapes'
    BY <1>4, <1>5, <1>6 DEF ScanShapes
  <1>10. QED
    BY <1>7, <1>8, <1>9, ScannerStep

LEMMA HandleStep ==
  ASSUME ScanInv, NEW w \in Scanners, HandleAnomaly(w)
  PROVE  ScanInv'
  <1>1. ScanTypeOK
    BY DEF ScanInv, ScanShapes
  <1>2. PICK q : q = Head(remaining[w])
    OBVIOUS
  <1>3. /\ remaining' = [remaining EXCEPT ![w] = Tail(@)]
        /\ pending' = IF Suppressed(q) THEN pending ELSE [pending EXCEPT ![w][q] = @ + 1]
        /\ UNCHANGED <<today, anomalies, active, alerted, scan, scanDay, scanFaults>>
        /\ scan[w] = "create" /\ remaining[w] # <<>>
    BY <1>2 DEF HandleAnomaly
  <1>4. /\ q \in Kinds /\ Tail(remaining[w]) \in Seq(Kinds) /\ Len(remaining[w]) \in Nat
        /\ Len(Tail(remaining[w])) = Len(remaining[w]) - 1 /\ Len(remaining[w]) > 0
    <2>1. remaining[w] \in Seq(Kinds) /\ remaining[w] # <<>>
      BY <1>1, <1>3 DEF ScanTypeOK
    <2>2. QED
      BY <1>2, <2>1, HeadTailProperties, LenProperties, EmptySeq
  <1>5. \A k \in Kinds : pending[w][k] \in Nat
    BY <1>1 DEF ScanTypeOK
  <1>6. /\ remaining'[w] = Tail(remaining[w]) /\ Len(remaining'[w]) = Len(remaining[w]) - 1
        /\ \A k \in Kinds : pending'[w][k] = IF k = q /\ ~Suppressed(q) THEN pending[w][k] + 1
                                             ELSE pending[w][k]
        /\ \A v \in Scanners \ {w} : pending'[v] = pending[v] /\ remaining'[v] = remaining[v]
        /\ remaining' \in [Scanners -> Seq(Kinds)] /\ pending' \in [Scanners -> [Kinds -> Nat]]
    <2>1. /\ remaining' \in [Scanners -> Seq(Kinds)] /\ remaining'[w] = Tail(remaining[w])
          /\ \A v \in Scanners \ {w} : remaining'[v] = remaining[v]
      BY <1>1, <1>3, <1>4 DEF ScanTypeOK
    <2>2. CASE Suppressed(q)
      BY <1>1, <1>3, <1>4, <2>1, <2>2 DEF ScanTypeOK
    <2>3. CASE ~Suppressed(q)
      <3>1. pending[w] \in [Kinds -> Nat] /\ pending \in [Scanners -> [Kinds -> Nat]]
        BY <1>1 DEF ScanTypeOK
      <3>2. PICK p : p = [pending[w] EXCEPT ![q] = @ + 1]
        OBVIOUS
      <3>3. p \in [Kinds -> Nat] /\ \A k \in Kinds : p[k] = IF k = q THEN pending[w][k] + 1
                                                           ELSE pending[w][k]
        BY <1>4, <3>1, <3>2
      <3>4. pending' = [pending EXCEPT ![w] = p]
        BY <1>3, <2>3, <3>2
      <3>5. QED
        BY <1>4, <2>1, <2>3, <3>1, <3>3, <3>4
    <2>4. QED
      BY <2>2, <2>3
  <1>7. ScanTypeOK'
    BY <1>1, <1>3, <1>6 DEF ScanTypeOK, Days
  <1>8. ASSUME NEW k \in Kinds
        PROVE  /\ pending[w][k] \in Nat /\ pending'[w][k] \in Nat /\ Len(remaining'[w]) \in Nat
               /\ pending'[w][k] + Len(remaining'[w]) <= pending[w][k] + Len(remaining[w])
    <2>1. PICK m : m = Len(remaining[w])
      OBVIOUS
    <2>2. PICK p : p = pending[w][k]
      OBVIOUS
    <2>3. m \in Nat /\ m > 0 /\ p \in Nat
      BY <1>4, <1>5, <2>1, <2>2
    <2>4. PICK n : n = Len(remaining'[w])
      OBVIOUS
    <2>5. PICK r : r = pending'[w][k]
      OBVIOUS
    <2>6. n = m - 1 /\ (r = p \/ r = p + 1)
      BY <1>6, <2>1, <2>2, <2>4, <2>5
    <2>7. n \in Nat /\ r \in Nat /\ r + n <= p + m
      BY <2>3, <2>6
    <2>8. QED
      BY <2>1, <2>2, <2>3, <2>4, <2>5, <2>7
  <1>9. ScannersInv'
    <2>1. SUFFICES ASSUME NEW v \in Scanners
                   PROVE  /\ scan'[v] = "idle" => pending'[v] = None /\ remaining'[v] = <<>>
                          /\ scan'[v] = "create" => scanDay'[v] \in {today - 1, today}
                          /\ \A k \in Kinds : pending'[v][k] + Len(remaining'[v]) <= BatchLimit
      BY <1>3 DEF ScannersInv
    <2>2. /\ scan'[v] = scan[v] /\ scanDay'[v] = scanDay[v]
          /\ scan[v] = "idle" => pending[v] = None /\ remaining[v] = <<>>
          /\ scan[v] = "create" => scanDay[v] \in {today - 1, today}
          /\ \A k \in Kinds : pending[v][k] + Len(remaining[v]) <= BatchLimit
      BY <1>3 DEF ScanInv, ScanShapes, ScannersInv
    <2>3. CASE v = w
      <3>1. ASSUME NEW k \in Kinds PROVE pending'[v][k] + Len(remaining'[v]) <= BatchLimit
        <4>1. PICK m : m = pending[w][k] + Len(remaining[w])
          OBVIOUS
        <4>2. PICK n : n = pending'[w][k] + Len(remaining'[w])
          OBVIOUS
        <4>3. m \in Nat /\ n \in Nat /\ n <= m /\ BatchLimit \in Nat
          BY <1>4, <1>8, <4>1, <4>2, EachTyped
        <4>4. m <= BatchLimit
          BY <2>2, <2>3, <4>1
        <4>5. n <= BatchLimit
          BY <4>3, <4>4
        <4>6. QED
          BY <2>3, <4>2, <4>5
      <3>2. QED
        BY <1>3, <2>2, <2>3, <3>1
    <2>4. CASE v # w
      BY <1>6, <2>2, <2>4
    <2>5. QED
      BY <2>3, <2>4
  <1>10. FutureInv'
    BY <1>3 DEF ScanInv, ScanShapes, FutureInv
  <1>11. ASSUME NEW k \in Kinds, NEW d \in Days
         PROVE  /\ \/ active'[k][d] + Added(k, d)'[w] <= active[k][d] + Added(k, d)[w]
                   \/ d # today /\ DedupDays = 0
                   \/ active'[k][d] = 0
                /\ active'[k][d] + Load(k, d)'[w] <= active[k][d] + Load(k, d)[w]
    <2>1. /\ active[k][d] \in Nat /\ active'[k][d] = active[k][d] /\ scanDay'[w] = scanDay[w]
          /\ pending[w][k] \in Nat /\ Len(remaining[w]) \in Nat
          /\ today \in Nat /\ d \in Nat /\ DedupDays \in Nat
      <3>1. active \in [Kinds -> [Days -> Nat]] /\ today \in Days
        BY <1>1 DEF ScanTypeOK
      <3>2. active[k][d] \in Nat /\ today \in Nat /\ d \in Nat
        BY <3>1, ScanAssumption DEF Days
      <3>3. QED
        BY <1>3, <1>4, <1>5, <3>2, EachTyped
    <2>2. active'[k][d] + Load(k, d)'[w] <= active[k][d] + Load(k, d)[w]
      <3>1. PICK m : m = pending[w][k] + Len(remaining[w])
        OBVIOUS
      <3>2. PICK n : n = pending'[w][k] + Len(remaining'[w])
        OBVIOUS
      <3>3. m \in Nat /\ n \in Nat /\ n <= m
        BY <1>4, <1>8, <3>1, <3>2
      <3>4. \/ Load(k, d)'[w] = n /\ Load(k, d)[w] = m
            \/ Load(k, d)'[w] = 0 /\ Load(k, d)[w] = 0
        BY <2>1, <3>1, <3>2, Shares
      <3>5. QED
        BY <2>1, <3>3, <3>4
    <2>3. CASE pending'[w][k] = pending[w][k] \/ scanDay[w] # d
      <3>1. Added(k, d)'[w] = Added(k, d)[w] /\ Added(k, d)[w] \in Nat
        BY <2>1, <2>3, Shares
      <3>2. QED
        BY <2>1, <2>2, <3>1
    <2>4. CASE pending'[w][k] # pending[w][k] /\ scanDay[w] = d
      <3>1. k = q /\ ~Suppressed(q)
        BY <1>6, <2>4
      <3>2. d \in {today - 1, today}
        BY <1>3, <2>4 DEF ScanInv, ScanShapes, ScannersInv
      <3>3. d = today \/ DedupDays > 0 => d >= today - DedupDays
        BY <2>1, <3>2
      <3>4. d >= today - DedupDays => active[k][d] = 0
        BY <2>1, <3>1 DEF Suppressed
      <3>5. QED
        BY <2>1, <2>2, <3>3, <3>4
    <2>5. QED
      BY <2>3, <2>4
  <1>12. ScanShapes'
    BY <1>7, <1>9, <1>10 DEF ScanShapes
  <1>13. /\ today' = today
         /\ \A v \in Scanners \ {w} : /\ scanDay'[v] = scanDay[v] /\ pending'[v] = pending[v]
                                     /\ remaining'[v] = remaining[v]
    BY <1>3, <1>6
  <1>14. \A k \in Kinds, d \in Days :
           /\ \/ active'[k][d] + Added(k, d)'[w] <= active[k][d] + Added(k, d)[w]
              \/ d # today /\ DedupDays = 0
              \/ active'[k][d] = 0
           /\ d < today => active'[k][d] + Load(k, d)'[w] <= active[k][d] + Load(k, d)[w]
    BY <1>11
  <1>15. QED
    BY <1>12, <1>13, <1>14, ScannerStep

\* Nothing but the alerts of some days, which become fewer.
LEMMA FewerAlerts ==
  ASSUME ScanInv, UNCHANGED <<today, scanVars>>, anomalies' \in Seq(Kinds),
         alerted' \subseteq Kinds, scanFaults' \in 0..MaxScanFaults,
         active' \in [Kinds -> [Days -> Nat]],
         \A k \in Kinds, d \in Days : active'[k][d] <= active[k][d]
  PROVE  ScanInv'
  <1>1. ScanTypeOK' /\ ScannersInv'
    BY DEF ScanInv, ScanShapes, ScanTypeOK, ScannersInv, scanVars, None, Days
  <1>2. \A k \in Kinds, d \in Days : active[k][d] \in Nat /\ active'[k][d] \in Nat
    BY DEF ScanInv, ScanShapes, ScanTypeOK
  <1>3. FutureInv'
    BY <1>2 DEF ScanInv, ScanShapes, FutureInv
  <1>4. ASSUME NEW k \in Kinds, NEW d \in Days
        PROVE  /\ d = today \/ DedupDays > 0
                    => active'[k][d] + SumOn(Added(k, d)', Scanners) <= OneBatchEach
               /\ d < today => active'[k][d] + SumOn(Load(k, d)', Scanners)
                                <= OneBatchEach + OneBatchEach
    <2>1. Added(k, d)' = Added(k, d) /\ Load(k, d)' = Load(k, d)
      BY DEF Added, Load, scanVars
    <2>2. PICK X : X = SumOn(Added(k, d), Scanners)
      OBVIOUS
    <2>3. PICK Y : Y = SumOn(Load(k, d), Scanners)
      OBVIOUS
    <2>4. X \in Nat /\ Y \in Nat /\ OneBatchEach \in Nat
      BY <2>2, <2>3, SharesTyped, EachTyped DEF ScanInv, ScanShapes
    <2>5. /\ d = today \/ DedupDays > 0 => active[k][d] + X <= OneBatchEach
          /\ d < today => active[k][d] + Y <= OneBatchEach + OneBatchEach
      BY <2>2, <2>3 DEF ScanInv, AddedInv, LoadInv
    <2>6. active'[k][d] <= active[k][d]
      OBVIOUS
    <2>7. SumOn(Added(k, d)', Scanners) = X /\ SumOn(Load(k, d)', Scanners) = Y
      BY <2>1, <2>2, <2>3
    <2>8. PICK a \in Nat : a = active[k][d]
      BY <1>2
    <2>9. PICK b \in Nat : b = active'[k][d]
      BY <1>2
    <2>10. b <= a
      BY <2>6, <2>8, <2>9
    <2>11. /\ d = today \/ DedupDays > 0 => a + X <= OneBatchEach
           /\ d < today => a + Y <= OneBatchEach + OneBatchEach
      BY <2>5, <2>8
    <2>12. PICK n \in Nat : n = OneBatchEach
      BY <2>4
    <2>13. (a + X <= n => b + X <= n) /\ (a + Y <= n + n => b + Y <= n + n)
      BY <2>4, <2>10
    <2>14. QED
      BY <2>7, <2>9, <2>11, <2>12, <2>13
  <1>5. AddedInv' /\ LoadInv'
    BY <1>4 DEF AddedInv, LoadInv, scanVars
  <1>6. QED
    BY <1>1, <1>3, <1>5 DEF ScanInv, ScanShapes

\* At midnight the bound of the day that ends makes room for what its scans have
\* still to handle.
LEMMA NextDayStep ==
  ASSUME ScanInv, NextDay
  PROVE  ScanInv'
  <1>1. /\ today' = today + 1 /\ today < LastDay
        /\ \A w \in Scanners : scan[w] = "create" => scanDay[w] = today
        /\ UNCHANGED <<anomalies, active, alerted, scanVars, scanFaults>>
    BY DEF NextDay
  <1>2. ScanTypeOK /\ today \in Nat /\ today + 1 \in Days
    BY <1>1, ScanAssumption DEF ScanInv, ScanShapes, ScanTypeOK, Days
  <1>3. ScanTypeOK'
    <2>1. \A w \in Scanners : scanDay[w] \in Int /\ scanDay[w] <= today + 1
      BY <1>2, ScanAssumption DEF ScanTypeOK, Days
    <2>2. QED
      BY <1>1, <1>2, <2>1 DEF ScanTypeOK, scanVars, Days
  <1>4. ScannersInv'
    <2>1. today' - 1 = today
      BY <1>1, <1>2
    <2>2. QED
      BY <1>1, <2>1 DEF ScanInv, ScanShapes, ScannersInv, scanVars, None
  <1>5. FutureInv'
    <2>1. SUFFICES ASSUME NEW k \in Kinds, NEW d \in Days, d > today + 1 PROVE active[k][d] = 0
      BY <1>1 DEF FutureInv
    <2>2. d > today
      BY <1>2, <2>1, ScanAssumption DEF Days
    <2>3. QED
      BY <2>2 DEF ScanInv, ScanShapes, FutureInv
  <1>6. ASSUME NEW k \in Kinds, NEW d \in Days
        PROVE  /\ d = today' \/ DedupDays > 0
                    => active[k][d] + SumOn(Added(k, d), Scanners) <= OneBatchEach
               /\ d < today' => active[k][d] + SumOn(Load(k, d), Scanners)
                                 <= OneBatchEach + OneBatchEach
    <2>1. PICK f : f = Added(k, d)
      OBVIOUS
    <2>2. PICK h : h = Load(k, d)
      OBVIOUS
    <2>3. /\ Whole(f, Scanners) /\ Whole(h, Scanners) /\ SumOn(f, Scanners) \in Nat
          /\ SumOn(h, Scanners) \in Nat /\ OneBatchEach \in Nat /\ d \in Nat
          /\ active[k][d] \in Nat
      BY <1>2, <2>1, <2>2, SharesTyped, EachTyped, ScanAssumption DEF ScanTypeOK, Days
    <2>4. CASE d > today
      <3>1. \A w \in Scanners : scanDay[w] # d
        BY <1>2, <2>4, ScanAssumption DEF ScanTypeOK, Days
      <3>2. \A w \in Scanners : f[w] = 0
        BY <2>1, <3>1 DEF Added
      <3>3. SumOn(f, Scanners) = 0 /\ active[k][d] = 0
        BY <2>4, <3>2, EachTyped, SumZeros DEF ScanInv, ScanShapes, FutureInv
      <3>4. ~(d < today')
        BY <1>1, <1>2, <2>3, <2>4
      <3>5. QED
        BY <2>1, <2>3, <3>3, <3>4
    <2>5. CASE d < today
      <3>1. d # today'
        BY <1>1, <1>2, <2>3, <2>5
      <3>2. QED
        BY <2>5, <3>1 DEF ScanInv, AddedInv, LoadInv
    <2>6. CASE d = today
      <3>1. active[k][d] + SumOn(f, Scanners) <= OneBatchEach
        BY <2>1, <2>6 DEF ScanInv, AddedInv
      <3>2. PICK c : c = [w \in Scanners |-> BatchLimit]
        OBVIOUS
      <3>3. Whole(c, Scanners) /\ SumOn(c, Scanners) = OneBatchEach
        BY <3>2, EachTyped, SumConstant DEF OneBatchEach
      <3>4. ASSUME NEW w \in Scanners PROVE h[w] <= f[w] + c[w]
        <4>1. PICK p : p = pending[w][k]
          OBVIOUS
        <4>2. PICK m : m = Len(remaining[w])
          OBVIOUS
        <4>3. p \in Nat /\ m \in Nat /\ p + m <= BatchLimit /\ BatchLimit \in Nat
          BY <1>2, <4>1, <4>2, SharesTyped, EachTyped DEF ScanInv, ScanShapes, ScannersInv
        <4>4. \/ f[w] = p /\ h[w] = p + m
              \/ f[w] = 0 /\ h[w] = 0
          BY <2>1, <2>2, <4>1, <4>2, Shares
        <4>5. c[w] = BatchLimit
          BY <3>2
        <4>6. QED
          BY <4>3, <4>4, <4>5
      <3>5. SumOn(h, Scanners) <= SumOn(f, Scanners) + SumOn(c, Scanners)
        BY <2>3, <3>3, <3>4, EachTyped, SumBounded
      <3>6. active[k][d] + SumOn(h, Scanners) <= OneBatchEach + OneBatchEach
        BY <2>3, <3>1, <3>3, <3>5
      <3>7. d # today'
        BY <1>1, <1>2, <2>6
      <3>8. QED
        BY <2>1, <2>2, <3>1, <3>6, <3>7
    <2>7. QED
      BY <1>2, <2>3, <2>4, <2>5, <2>6
  <1>7. \A k, d : Added(k, d)' = Added(k, d) /\ Load(k, d)' = Load(k, d)
    BY <1>1 DEF Added, Load, scanVars
  <1>8. AddedInv' /\ LoadInv'
    BY <1>1, <1>6, <1>7 DEF AddedInv, LoadInv
  <1>9. QED
    BY <1>3, <1>4, <1>5, <1>8 DEF ScanInv, ScanShapes

LEMMA StepScans ==
  ScanInv /\ [ScanNext]_anomalyVars => ScanInv'
  <1>1. SUFFICES ASSUME ScanInv, [ScanNext]_anomalyVars PROVE ScanInv'
    OBVIOUS
  <1>2. ScanTypeOK /\ \A k \in Kinds, d \in Days : active[k][d] \in Nat
    BY <1>1 DEF ScanInv, ScanShapes, ScanTypeOK
  <1>3. ASSUME UNCHANGED <<today, scanVars, active, alerted, scanFaults>>,
               anomalies' \in Seq(Kinds)
        PROVE  ScanInv'
    BY <1>1, <1>2, <1>3, FewerAlerts DEF ScanTypeOK
  <1>4. ASSUME NEW k \in Kinds, DetectAnomaly(k) PROVE ScanInv'
    BY <1>2, <1>3, <1>4, AppendProperties DEF DetectAnomaly, ScanTypeOK, scanVars
  <1>5. ASSUME NEW w \in Scanners, CommitScan(w) PROVE ScanInv'
    <2>1. /\ scan[w] = "create" /\ EndScan(w) /\ UNCHANGED <<today, anomalies, scanFaults>>
          /\ alerted' \subseteq Kinds
          /\ active' = [k \in Kinds |-> [active[k] EXCEPT ![scanDay[w]] = @ + pending[w][k]]]
      BY <1>2, <1>5 DEF CommitScan, ScanTypeOK
    <2>2. /\ scanDay[w] \in Days /\ pending[w] \in [Kinds -> Nat]
          /\ active \in [Kinds -> [Days -> Nat]]
      BY <1>2 DEF ScanTypeOK
    <2>3. ASSUME NEW k \in Kinds
          PROVE  /\ active'[k] \in [Days -> Nat]
                 /\ \A d \in Days :
                      \/ active'[k][d] = active[k][d]
                      \/ d = scanDay[w] /\ active'[k][d] = active[k][d] + pending[w][k]
      <3>1. PICK a : a = active[k]
        OBVIOUS
      <3>2. PICK e : e = scanDay[w]
        OBVIOUS
      <3>3. PICK p : p = pending[w][k]
        OBVIOUS
      <3>4. a \in [Days -> Nat] /\ e \in Days /\ p \in Nat /\ active'[k] = [a EXCEPT ![e] = @ + p]
        BY <2>1, <2>2, <3>1, <3>2, <3>3
      <3>5. QED
        BY <3>1, <3>2, <3>3, <3>4
    <2>4. active' \in [Kinds -> [Days -> Nat]]
      BY <2>1, <2>3
    <2>5. QED
      BY <1>1, <1>2, <2>1, <2>3, <2>4, EndScanStep DEF ScanTypeOK
  <1>6. ASSUME NEW w \in Scanners, FailScan(w) PROVE ScanInv'
    <2>1. /\ scan[w] = "create" /\ EndScan(w) /\ UNCHANGED <<today, anomalies, active, alerted>>
          /\ scanFaults' \in 0..MaxScanFaults
      BY <1>2, <1>6, ScanAssumption DEF FailScan, ScanTypeOK
    <2>2. QED
      BY <1>1, <1>2, <2>1, EndScanStep DEF ScanTypeOK
  <1>7. ASSUME NEW k \in Kinds, NEW d \in Days, ResolveAnomalyAlert(k, d) PROVE ScanInv'
    <2>1. PICK p : p = [active[k] EXCEPT ![d] = @ - 1]
      OBVIOUS
    <2>2. active[k] \in [Days -> Nat] /\ active[k][d] \in Nat /\ active[k][d] > 0
      BY <1>2, <1>7 DEF ScanTypeOK, ResolveAnomalyAlert
    <2>3. p \in [Days -> Nat] /\ \A e \in Days : p[e] <= active[k][e]
      BY <1>2, <2>1, <2>2
    <2>4. active' = [active EXCEPT ![k] = p]
      BY <1>7, <2>1 DEF ResolveAnomalyAlert
    <2>5. /\ active' \in [Kinds -> [Days -> Nat]]
          /\ \A j \in Kinds, e \in Days : active'[j][e] <= active[j][e]
      BY <1>2, <2>3, <2>4 DEF ScanTypeOK
    <2>6. /\ UNCHANGED <<today, scanVars>> /\ anomalies' \in Seq(Kinds)
          /\ alerted' \subseteq Kinds /\ scanFaults' \in 0..MaxScanFaults
      BY <1>2, <1>7 DEF ScanTypeOK, ResolveAnomalyAlert
    <2>7. QED
      BY <1>1, <2>5, <2>6, FewerAlerts
  <1>8. CASE UNCHANGED anomalyVars
    BY <1>2, <1>3, <1>8 DEF anomalyVars, ScanTypeOK
  <1>9. QED
    BY <1>1, <1>4, <1>5, <1>6, <1>7, <1>8, StartScanStep, HandleStep, NextDayStep
       DEF ScanNext, RunScan

LEMMA ScansBounded ==
  ASSUME ScanInv
  PROVE  DuplicatesBounded
  <1>1. SUFFICES ASSUME NEW k \in Kinds, NEW d \in Days
                 PROVE  active[k][d] <= BatchLimit * Batches
    BY DEF DuplicatesBounded, ScanInv, ScanShapes
  <1>2. PICK c \in Nat : c = Cardinality(Scanners)
    BY ScanAssumption, FS_CardinalityType
  <1>3. PICK b \in Nat : b = BatchLimit
    BY EachTyped
  <1>4. /\ OneBatchEach = c * b
        /\ BatchLimit * Batches = IF DedupDays = 0 THEN b * (c * 2) ELSE b * (c * 1)
    BY <1>2, <1>3 DEF OneBatchEach, Batches
  <1>5. c * b \in Nat /\ b * (c * 1) = c * b /\ b * (c * 2) = c * b + c * b
    OBVIOUS
  <1>6. PICK n \in Nat : n = c * b
    BY <1>5
  <1>7. PICK X \in Nat : X = SumOn(Added(k, d), Scanners)
    BY SharesTyped DEF ScanInv, ScanShapes
  <1>8. PICK Y \in Nat : Y = SumOn(Load(k, d), Scanners)
    BY SharesTyped DEF ScanInv, ScanShapes
  <1>9. PICK a \in Nat : a = active[k][d]
    BY DEF ScanInv, ScanShapes, ScanTypeOK
  <1>10. /\ d = today \/ DedupDays > 0 => a + X <= n
         /\ d < today => a + Y <= n + n
         /\ d > today => a = 0
    BY <1>4, <1>6, <1>7, <1>8, <1>9 DEF ScanInv, ScanShapes, AddedInv, LoadInv, FutureInv
  <1>11. today \in Nat /\ d \in Nat /\ DedupDays \in Nat
    BY EachTyped, ScanAssumption DEF ScanInv, ScanShapes, ScanTypeOK, Days
  <1>12. a <= (IF DedupDays = 0 THEN n + n ELSE n)
    BY <1>10, <1>11
  <1>13. QED
    BY <1>4, <1>5, <1>6, <1>9, <1>12

\* However scans overlap, fail and last past midnight, and whatever operators resolve,
\* the alerts of one kind dated one day that are active at once are no more than a
\* batch for each scanner; twice as many when the deduplication looks at the current
\* day alone.
THEOREM DuplicatesStayBounded == ScanSpec => []DuplicatesBounded
  <1>1. ScanInv => DuplicatesBounded
    BY ScansBounded
  <1>2. QED
    BY <1>1, InitScans, StepScans, PTL DEF ScanSpec
=============================================================================
