SPECIFICATION Spec
CONSTANTS
  h1 = h1
  h2 = h2
  template = template
  heavy = heavy
  category = category
  None = None
  Workers = {w1, w2}
  Jobs = {h1, h2}
  Lanes = {template}
  Flat = {}
  Lane <- LaneOf
  Keys = {heavy, category}
  KeysOf <- SlotsOf
  Cap <- Caps
  Deferrable = {template}
  HeavyKey = heavy
  MaxRetries = 1
  MaxFaults = 2
SYMMETRY Symmetry
CHECK_DEADLOCK FALSE
INVARIANTS TypeOK CapKept LaneFound
