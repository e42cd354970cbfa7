SPECIFICATION Spec
CONSTANTS
  Path = {p1, p2}
  Never = 100
  Rtt = 1
  MaxSubFlows = 2
  MaxUpdates = 5
  MaxCtl = 1
  MaxFlight = 1
INVARIANTS
  Counted
  RoutesKept
CHECK_DEADLOCK FALSE
