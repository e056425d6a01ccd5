SPECIFICATION FairSpec
CONSTANTS
  k1 = k1
  k2 = k2
  c1 = c1
  c2 = c2
  Key = {k1}
  TcpKey = {}
  Caller = {c1}
  BootstrapKey <- MCBootstrapKey
  Sender = {"dispatcher", "sender"}
  Kind = {"query", "hello"}
  OutCapacity = 1
  RawCapacity = 1
  HelloCapacity = 1
  QuicCapacity = 1
  Attempts = 1
  MaxActors = 1
  MaxReplies = 2
PROPERTY
  EveryPacketHandled
CHECK_DEADLOCK FALSE
