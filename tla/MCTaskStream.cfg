SPECIFICATION Spec
CONSTANTS
  Consumers = {c1, c2}
  NoOne = NoOne
  MaxEntries = 2
  MaxLen = 1
  ReadCount = 1
  ReclaimBudget = 2
  MaxDeliveries = 2
  MaxUnreadable = 1
  MaxFaults = 1
SYMMETRY Symmetry
INVARIANTS TypeOK NothingLost TrimSafe AckedIsDone PoisonBounded GivenUpLate
PROPERTY Implements
