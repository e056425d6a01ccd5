SPECIFICATION IdleSpec
CONSTANTS
  p1 = p1
  p2 = p2
  k1 = k1
  k2 = k2
  Peer <- MCPeer
  Key <- MCKey
  Metric = {0}
  Rtt = {}
  DEFAULT_RTT = 9999
  Policies = {"MostRecent"}
  CountRange = 1
  MaxAge = 4
  ReadIdle = 3
  NoVictim = NoVictim
INVARIANTS
  EvictedInTime
PROPERTIES
  ExpiredEventuallyGone
CHECK_DEADLOCK FALSE
