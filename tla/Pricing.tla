------------------------------ MODULE Pricing ------------------------------
(***************************************************************************)
(* What a call costs, computed three times in the service: by the cost     *)
(* engine when an event is stored (services/cost_engine.py), by the        *)
(* control plane before it hands an event over (services/                  *)
(* control_ingest.py), and by every report when it shows a cost (services/ *)
(* ai_model_pricing.py).  The three look names up differently and in a     *)
(* different order.                                                        *)
(*                                                                         *)
(* Input and output tokens are one count with one rate: every formula      *)
(* treats the two alike and adds them.  Rates and costs are counted in     *)
(* parts of a micro-dollar, of which one has Scale; a cost rounded to six  *)
(* decimals is a whole number of micro-dollars.  One rounding stands for   *)
(* the code's two, of the input's and of the output's cost.  Left out: the *)
(* cost model "custom" (sizes and a multiplier from the metadata).         *)
(***************************************************************************)
EXTENDS Integers, FiniteSets, FiniteSetsExt

CONSTANTS
  Catalogue,     \* canonical model name -> rate      (MODEL_PRICING)
  Aliases,       \* other spelling -> canonical name  (MODEL_ALIASES, letter case)
  ProviderPrice, \* <<provider, model>> -> rate       (table model_pricing)
  ToolPrice,     \* tool name -> [model, base]        (table tool_registry)
  DefaultRate,   \* COST_DEFAULT_RATE_PER_1K
  Scale,         \* parts of a micro-dollar
  None           \* a value that is absent, or blank

CostModels == {"per_token", "per_request", "per_second", "fixed"}

PricingAssumption ==
  /\ DOMAIN Aliases \cap DOMAIN Catalogue = {}
  /\ \A a \in DOMAIN Aliases : Aliases[a] \in DOMAIN Catalogue
  /\ \A m \in DOMAIN Catalogue : Catalogue[m] \in Nat
  /\ None \notin DOMAIN Catalogue \cup DOMAIN Aliases
  /\ IsFiniteSet(DOMAIN ToolPrice)
  /\ \A k \in DOMAIN ProviderPrice : ProviderPrice[k] \in Int
  /\ \A t \in DOMAIN ToolPrice : ToolPrice[t].model \in CostModels /\ ToolPrice[t].base \in Int
  /\ DefaultRate \in Int /\ Scale \in Nat \ {0}
ASSUME PricingAssumption

\* x / k to the next whole number, halves to the even one (quantize and round).
HalfEven(x, k) ==
  LET q == x \div k
  IN  IF 2 * (x % k) < k \/ (2 * (x % k) = k /\ q % 2 = 0) THEN q ELSE q + 1
RoundedTo(unit, x) == unit * HalfEven(x, unit)
Rounded(x) == RoundedTo(Scale, x)

\* a and b are slack apart at most.
Within(a, b, slack) == a - b <= slack /\ b - a <= slack

\* The catalogue name of a model; a name nobody knows is its own.
NormalizeModelName(m) == IF m \in DOMAIN Aliases THEN Aliases[m] ELSE m

\* Zero for a model outside the catalogue.
Rate(m) ==
  LET canonical == NormalizeModelName(m)
  IN  IF canonical \in DOMAIN Catalogue THEN Catalogue[canonical] ELSE 0

\* The cost every report shows, rounded once for the tokens it is given.
CalculateTokenCost(m, tokens) == Rounded(tokens * Rate(m))

PerSecond(base, seconds) == seconds * (IF base > 0 THEN base ELSE DefaultRate)
PerToken(base, tokens) == tokens * (IF base > 0 THEN base ELSE DefaultRate)

(***************************************************************************)
(* The cost engine.  A call is a record [model, provider, tokens, seconds, *)
(* given]: "given" is the precomputed cost, or None.  The catalogue is     *)
(* asked for the name as it was sent, aliases are not resolved.            *)
(***************************************************************************)
ToolCost(c) ==
  LET t == IF c.model \in DOMAIN ToolPrice THEN ToolPrice[c.model]
           ELSE [model |-> "per_token", base |-> 0]
  IN  CASE t.model = "per_token" -> PerToken(t.base, c.tokens)
        [] t.model \in {"per_request", "fixed"} -> t.base
        [] t.model = "per_second" -> PerSecond(t.base, c.seconds)

EngineCost(c) ==
  IF c.given # None THEN c.given
  ELSE IF c.tokens = 0 THEN 0
  ELSE IF c.model \in DOMAIN Catalogue THEN Rounded(c.tokens * Catalogue[c.model])
  ELSE IF <<c.provider, c.model>> \in DOMAIN ProviderPrice
       THEN Rounded(c.tokens * ProviderPrice[<<c.provider, c.model>>])
  ELSE ToolCost(c)

\* The engine of the older service has no catalogue.
OldEngineCost(c) ==
  IF c.given # None THEN c.given
  ELSE IF c.tokens = 0 THEN 0
  ELSE IF <<c.provider, c.model>> \in DOMAIN ProviderPrice
       THEN c.tokens * ProviderPrice[<<c.provider, c.model>>]
  ELSE ToolCost(c)

\* What either engine returns for an event: each cost and the total, rounded apart.
CostSummary(llm, infra, external) ==
  [llm |-> Rounded(llm), infra |-> Rounded(infra), external |-> Rounded(external),
   total |-> Rounded(llm + infra + external)]

(***************************************************************************)
(* The control plane: a cost or a rate the caller sends, the provider's    *)
(* row, the tool's row; None leaves the choice to the cost engine.         *)
(***************************************************************************)
RegistryCost(c) ==
  LET t == ToolPrice[c.model]
  IN  IF t.model = "per_request" THEN t.base ELSE c.tokens * t.base

ResolvePricing(c) ==
  IF c.given # None THEN c.given
  ELSE IF <<c.provider, c.model>> \in DOMAIN ProviderPrice /\ c.tokens > 0
       THEN c.tokens * ProviderPrice[<<c.provider, c.model>>]
  ELSE IF c.model \in DOMAIN ToolPrice /\ ToolPrice[c.model].base > 0
       THEN RegistryCost(c)
  ELSE None

ControlCost(c) == EngineCost([c EXCEPT !.given = ResolvePricing(c)])

(***************************************************************************)
(* A unified trace: models used, each a call; the event carries the sum of *)
(* the tokens under the first model's name and the sum of the costs.       *)
(***************************************************************************)
ResolveModelCost(c) ==
  IF c.given # None THEN c.given
  ELSE IF <<c.provider, c.model>> \in DOMAIN ProviderPrice /\ c.tokens > 0
       THEN c.tokens * ProviderPrice[<<c.provider, c.model>>]
  ELSE 0

\* A tool of a trace, with the number of its invocations and their seconds.
ResolveToolCost(tool, given, invocations, seconds) ==
  IF given # None THEN given
  ELSE IF tool \in DOMAIN ToolPrice
       THEN CASE ToolPrice[tool].model = "per_request" -> ToolPrice[tool].base * invocations
              [] ToolPrice[tool].model = "per_second" -> ToolPrice[tool].base * seconds
              [] OTHER -> ToolPrice[tool].base
  ELSE 0

\* models: a sequence of calls; tools: a set of [tool, given, invocations, seconds].
TraceEvent(models, tools) ==
  [model    |-> models[1].model,
   provider |-> models[1].provider,
   tokens   |-> MapThenSumSet(LAMBDA i : models[i].tokens, DOMAIN models),
   llm      |-> MapThenSumSet(LAMBDA i : ResolveModelCost(models[i]), DOMAIN models),
   external |-> MapThenSumSet(LAMBDA t : ResolveToolCost(t.tool, t.given, t.invocations,
                                                         t.seconds), tools)]

\* The trace page: the event priced as one call of its model, and each model's own row.
TraceShown(models) ==
  CalculateTokenCost(TraceEvent(models, {}).model, TraceEvent(models, {}).tokens)
TracePartsShown(models) ==
  MapThenSumSet(LAMBDA i : CalculateTokenCost(models[i].model, models[i].tokens), DOMAIN models)
=============================================================================
