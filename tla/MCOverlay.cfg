SPECIFICATION Spec
CONSTANTS
  a = a
  b = b
  r = r
  Node <- MCNode
  Public <- MCPublic
  Bootstrap <- MCBootstrap
  Tcp <- MCTcp
  Allowed <- MCAllowed
  Observers <- MCObservers
  MaxTtl = 2
  MaxPackets = 6
  None = None
  Broadcast = Broadcast
INVARIANTS
  TypeOK
  DirectWorks
  DirectIsStored
  BothEnds
SYMMETRY Swap
CHECK_DEADLOCK FALSE
