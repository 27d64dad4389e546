SPECIFICATION Spec
CONSTANTS
  Users = {u}
  Ids = {i1, i2}
  Requests = {p1, p2}
  None = None
  MaxTime = 2
  MaxRenewTime = 1
  ExpirationTime = 1
  Span = 1
  Lapses = FALSE
  Horizon = 3
SYMMETRY Symmetry
INVARIANTS TypeOK OneSessionWhileLocked ClosedStaysClosed
CHECK_DEADLOCK FALSE
