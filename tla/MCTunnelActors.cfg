SPECIFICATION ActorSpec
CONSTANTS
  Key = {tcp, udp}
  TcpKey = {tcp}
  Sender = {s1, s2}
  Kind = {"data"}
  OutCapacity = 1
  RawCapacity = 1
  MaxActors = 3
INVARIANTS
  MapHoldsLatest
CHECK_DEADLOCK FALSE
