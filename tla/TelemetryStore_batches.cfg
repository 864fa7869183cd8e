SPECIFICATION FairSpec
CONSTANTS
  r1 = r1  r2 = r2  r3 = r3  a = a  b = b  c = c  k1 = k1  k2 = k2
  sched = sched  manual = manual
  Requests = {r1, r2}
  EventIds = {a, b}
  Items <- CrossedBatches
  Keys = {k1, k2}
  UpsertKey <- TwoKeys
  AggKey <- TwoKeys
  Rebuilt = {k1, k2}
  Rebuilders = {sched}
  NoOne = NoOne
  MaxFaults = 1
INVARIANTS TypeOK OneRowPerEvent NeverOvercounts
PROPERTIES ImplementsEventLog EveryRequestAnswered RebuildConverges
