SPECIFICATION Spec
CONSTANTS
  r1 = r1  r2 = r2
  Requests = {r1, r2}
  Events <- Mixed
  InitialSpend <- SevenTenths
  Budgets <- Overlapping
  Mid = 90
  RateLimits <- Quotas
  TokensElsewhere = 1
  QuotaWarning = 80
  DaysElapsed = 28
  DaysRemaining = 2
  NoOne = NoOne
  MaxFaults = 1
INVARIANTS BudgetAlertsAreTrue OneAlertPerSource NextRequestAlerts
