SPECIFICATION FairSpec
CONSTANTS
  carry = carry
  publish = publish
  release = release
  None = None
  Jobs <- ChainJobs
  Steps <- ChainSteps
  Up <- ChainUp
  Carrier <- ChainCarrier
  Under <- ChainUnder
  Of <- ChainOf
  Dispatches = {d1}
  Cancels = {x1}
  MaxCancels = 1
  MaxFaults = 1
PROPERTIES
  ChainSettles
CHECK_DEADLOCK FALSE
