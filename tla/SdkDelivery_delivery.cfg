SPECIFICATION FairSpec
CONSTANTS
  t1 = t1  t2 = t2  a = a  b = b  c = c
  Threads = {t1, t2}
  Timer = Timer
  Calls <- TwoThreads
  BatchSizes = {1, 2}
  MaxAttempts = 2
  MayExit = TRUE
  NoOne = NoOne
  MaxFaults = 3
INVARIANTS BufferIsFifo CopiesBounded
PROPERTY EventsSettle
