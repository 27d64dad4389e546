SPECIFICATION FairSpec
CONSTANTS
  r = r
  c = c
  NoDisk = NoDisk
  Topo <- MCTopo
  Parent <- MCParent
  InPlaceChoices <- MCRootStays
  Desktops <- MCDesktops
  Drivers = {p1}
  NoOne = NoOne
  MaxAbandon = 1
  MaxMishaps = 2
PROPERTIES TreesFinish JobEnds
CHECK_DEADLOCK FALSE
