SPECIFICATION FairSpec
CONSTANTS
  h1 = h1
  h2 = h2
  template = template
  heavy = heavy
  category = category
  None = None
  Workers = {w1, w2}
  Jobs = {h1, h2}
  Lanes = {template}
  Flat = {template}
  Lane <- LaneOf
  Keys = {heavy, category}
  KeysOf <- SlotsOf
  Cap <- Caps
  Deferrable = {template}
  HeavyKey = heavy
  MaxRetries = 0
  MaxFaults = 1
PROPERTIES NotWedged
