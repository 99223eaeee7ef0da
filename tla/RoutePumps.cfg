SPECIFICATION RoutesFairSpec
CONSTANTS
  p1 = p1
  a1 = a1
  e1 = e1
  s1 = s1
  None = None
  PumpsRunning = TRUE
  Peers = {p1}
  Addresses = {a1}
  Engines = {e1}
  Senders = {s1}
  MaxGens = 2
  Sizes = {2}
  Limits = {1}
  Budget = 2
INVARIANTS RetiredQueueEmpty JoinedIsSilent 
PROPERTIES RetirementJoins QueueIsServed
CHECK_DEADLOCK FALSE
