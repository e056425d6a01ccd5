SPECIFICATION Spec
CONSTANTS
  Port = {1, 2, 3}
  Configs <- MCConfigs
  PairAttempts = 2
  Servers <- MCServers
  Changed <- MCChanged
  MaxDest = 3
  Applier = {loop, user}
  StunLoop = loop
  MaxAssistants = 2
  PunchTask = {t1, t2}
  PeerInfo <- MCPeerInfo
  Model <- MCModel
  NumPorts = 4
  MaxK2 = {3, 4}
  Nobody = Nobody
INVARIANTS
  TypeOK
  BoundAsAsked
  ConeRecognised
  AssistantsMatch
  NoPortSkipped
PROPERTIES
  EveryPortTried
CHECK_DEADLOCK FALSE
