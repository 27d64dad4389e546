SPECIFICATION FairSpec
CONSTANTS
  Consumers = {c1, c2}
  NoOne = NoOne
  MaxEntries = 1
  MaxLen = 1
  ReadCount = 1
  ReclaimBudget = 1
  MaxDeliveries = 2
  MaxUnreadable = 1
  MaxFaults = 1
PROPERTIES EventuallySettled CorpsesReaped
