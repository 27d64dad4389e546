SPECIFICATION Spec
CONSTANTS
  carry = carry
  publish = publish
  release = release
  None = None
  Jobs <- ChainJobs
  Steps <- ChainSteps
  Up <- ChainUp
  Carrier <- ChainCarrier
  Under <- ChainUnder
  Of <- ChainOf
  Dispatches = {d1, d2}
  Cancels = {x1}
  MaxCancels = 1
  MaxFaults = 0
SYMMETRY Symmetry
INVARIANTS
  DeadStartsNothing
CHECK_DEADLOCK FALSE
