SPECIFICATION Spec
CONSTANTS
  r = r
  c = c
  NoDisk = NoDisk
  Topo <- MCTopo
  Parent <- MCParent
  InPlaceChoices <- MCPlaces
  Desktops <- MCDesktops
  Drivers = {p1, p2}
  NoOne = NoOne
  MaxAbandon = 1
  MaxMishaps = 2
INVARIANTS TypeOK Kept Restored TreeAtOnce OneCopy
PROPERTIES Onward
CHECK_DEADLOCK FALSE
SYMMETRY MCDrivers
CONSTRAINT Apart
