SPECIFICATION FairSpec
CONSTANTS
  r1 = r1  r2 = r2  r3 = r3  w1 = w1  w2 = w2  k1 = k1  k2 = k2  u1 = u1  u2 = u2
  Requests = {r1, r2}
  Workers = {w1}
  Keys = {k1}
  Rows = {u1}
  On <- OneWorker
  KeyOf <- SharedKey
  RowOf <- OneRow
  PoolSize = 3
  Others = 0
  InitialUsage <- NoRow
  NoOne = NoOne
  OrgOf <- OneOrg
  RowKey <- MCRowKey
  Cost <- MCCost
  PiiTypes = {}
  Policies = {}
  Global = All
  All = All
  MaxFaults = 0
PROPERTY ForwardedIsAnswered
CHECK_DEADLOCK FALSE
