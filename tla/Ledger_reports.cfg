CONSTANTS
  Absent = Absent
  None = Absent
  Unknown = Unknown
  Orgs = {"A", "B"}
  Projects = {"p"}
  Events <- MCEvents
  Sent <- MCSent
  Owner <- MCOwner
  Existing = {"A"}
  LastDay = 2
  MonthOf <- MCMonthOf
  Renames = {"n", Absent}
  MaxAdmin = 2
  Catalogue <- MCCatalogue
  Aliases <- MCAliases
  ProviderPrice <- MCProviderPrice
  ToolPrice <- MCToolPrice
  DefaultRate = 1
  Scale = 5
  Budgets <- MCBudgets
  TokenLimit <- MCTokenLimit
SPECIFICATION FairSpec
CHECK_DEADLOCK FALSE
INVARIANTS TypeOK SummaryWithinEvents EnforcedAsShown ErasedStaysErased
INVARIANTS CostViewsAgree SummaryViewsAgree ExceededIsNotified ServicesAgree
PROPERTIES ClosedMonthsFrozen EditsHeal
