SPECIFICATION Spec
CONSTANTS
  p1 = p1
  p2 = p2
  k1 = k1
  k2 = k2
  Peer <- MCPeer
  Key <- MCKey
  Metric = {0, 1, 2}
  Rtt = {5}
  DEFAULT_RTT = 9999
  Policies = {"MinHopLowestLatency", "RoundRobin", "MostRecent", "LowestLatency"}
  CountRange = 2
  MaxAge = 0
SYMMETRY Symmetry
INVARIANTS
  TypeOK
  ListsWellFormed
  OwnerHasDirectRoute
  ReportMatchesUse
PROPERTIES
  RoutesNeverWorsen
  MeasurementKept
  IfAbsentNeverOverwrites
CHECK_DEADLOCK FALSE
