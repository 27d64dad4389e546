SPECIFICATION FairSpec
CONSTANTS
  a = a
  b = b
  NoMachine = NoMachine
  Machines = {a, b}
  Ram <- MCRam
  Initially = {a, b}
  Policies <- MCPolicies
  MaxLoads = 4
  MaxFaults = 1
INVARIANTS TypeOK BufferShut
PROPERTIES KillsTheCondemned Settles Provided
