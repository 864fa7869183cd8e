CONSTANTS
  t1 = t1
  t2 = t2
  None = None
  Tasks = {t1, t2}
  Kinds <- MCKinds
  MaxDepth <- MCDepth
  Ids <- MCIds
  Rules <- MCRules
  EnforcePolicy = TRUE
SPECIFICATION FairRuntime
INVARIANT RulesApplied
