SPECIFICATION FairScans
CONSTANTS
  k1 = k1  k2 = k2  sched = sched  manual = manual
  Kinds = {k1, k2}
  Scanners = {sched, manual}
  BatchLimit = 2
  DedupDays = 1
  LastDay = 2
  MaxAnomalies = 3
  MaxScanFaults = 1
INVARIANTS DuplicatesBounded
PROPERTY ScannedStaysAlerted
