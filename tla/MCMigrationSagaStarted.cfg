SPECIFICATION Spec
CONSTANTS
  r = r
  c = c
  NoDisk = NoDisk
  Topo <- MCTopo
  Parent <- MCParent
  InPlaceChoices <- MCPlaces
  Desktops <- MCDesktops
  Drivers = {p1}
  NoOne = NoOne
  MaxAbandon = 1
  MaxMishaps = 1
INVARIANTS AtRest
CHECK_DEADLOCK FALSE

