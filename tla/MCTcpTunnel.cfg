SPECIFICATION FairSpec
CONSTANTS
  ChannelCapacity = 1
  AcceptCapacity = 1
  SendBuffer = 1
  MaxIn = 3
  MaxOut = 3
  MaxWriters = 2
  TooLargeIn = {3}
  TooLargeOut = {3}
INVARIANTS
  TypeOK
  InOrder
  EndMeansAll
  WholeFrames
  Flushed
CHECK_DEADLOCK FALSE
