SPECIFICATION FairSpec
CONSTANTS
  batch = batch  hook = hook  poll = poll  manual = manual  a = a  b = b  c = c
  Sources = {batch, hook, poll, manual}
  EventIds = {a, b, c}
  Via <- AllVia
  Items <- AllItems
  MaxFaults = 1
INVARIANTS OneRowPerEvent ReportedSinceLastErrorStored
PROPERTY PolledIsStored
