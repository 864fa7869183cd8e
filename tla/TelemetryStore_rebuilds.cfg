SPECIFICATION Spec
CONSTANTS
  r1 = r1  r2 = r2  r3 = r3  a = a  b = b  c = c  k1 = k1  k2 = k2
  sched = sched  manual = manual
  Requests = {r1, r2, r3}
  EventIds = {a, b, c}
  Items <- SingleAndRetry
  Keys = {k1}
  UpsertKey <- OneKey
  AggKey <- OneKey
  Rebuilt = {k1}
  Rebuilders = {sched, manual}
  NoOne = NoOne
  MaxFaults = 1
INVARIANTS NeverOvercounts
