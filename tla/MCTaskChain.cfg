SPECIFICATION Spec
CONSTANTS
  carry = carry
  publish = publish
  release = release
  None = None
  Jobs <- ChainJobs
  Steps <- ChainSteps
  Up <- ChainUp
  Carrier <- ChainCarrier
  Under <- ChainUnder
  Of <- ChainOf
  Dispatches = {d1, d2}
  Cancels = {x1}
  MaxCancels = 1
  MaxFaults = 1
SYMMETRY Symmetry
INVARIANTS
  TypeOK
  NoPhantomSuccess
  KnotOnce
  KnotFollows
  AckedIsDurable
  NoCircularWait
PROPERTIES
  MarksKept
CHECK_DEADLOCK FALSE
