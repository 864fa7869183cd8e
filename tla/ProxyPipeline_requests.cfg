SPECIFICATION FairSpec
CONSTANTS
  r1 = r1  r2 = r2  r3 = r3  w1 = w1  w2 = w2  k1 = k1  k2 = k2  u1 = u1  u2 = u2
  Requests = {r1, r2, r3}
  Workers = {w1, w2}
  Keys = {k1, k2}
  Rows = {u1, u2}
  On <- TwoWorkers
  KeyOf <- SharedKey
  RowOf <- TwoRows
  PoolSize = 2
  Others = 1
  InitialUsage <- NoRows
  NoOne = NoOne
  OrgOf <- OneOrg
  RowKey <- MCRowKey
  Cost <- MCCost
  PiiTypes = {"email", "ssn"}
  Policies <- MCPolicies
  Global = All
  All = All
  MaxFaults = 1
INVARIANTS OneCallPerKey RecordIsWhole PagesAgree
PROPERTY ForwardedIsAnswered
