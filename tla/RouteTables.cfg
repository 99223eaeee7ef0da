SPECIFICATION RoutesSpec
CONSTANTS
  p1 = p1
  p2 = p2
  a1 = a1
  a2 = a2
  e1 = e1
  e2 = e2
  None = None
  PumpsRunning = FALSE
  Peers = {p1, p2}
  Addresses = {a1, a2}
  Engines = {e1, e2}
  Senders = {}
  MaxGens = 3
  Sizes = {1, 2}
  Limits = {1, 2}
  Budget = 2
SYMMETRY RouteSymmetry
INVARIANTS RunningRouteReachable StoppedEngineUnrouted WithinBudget
CHECK_DEADLOCK FALSE
