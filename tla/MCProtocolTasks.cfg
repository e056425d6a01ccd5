SPECIFICATION FairSpec
CONSTANTS
  k1 = k1
  k2 = k2
  c1 = c1
  c2 = c2
  Key = {k1, k2}
  TcpKey = {k1}
  Caller = {c1}
  BootstrapKey <- MCBootstrapKey
  Sender = {"dispatcher", "sender"}
  Kind = {"query", "forward", "hello", "quic", "punch", "other"}
  OutCapacity = 1
  RawCapacity = 1
  HelloCapacity = 1
  QuicCapacity = 1
  Attempts = 1
  MaxActors = 1
  MaxReplies = 1
INVARIANTS
  TypeOK
PROPERTIES
  EveryPacketHandled
  SenderFreed
CHECK_DEADLOCK FALSE
