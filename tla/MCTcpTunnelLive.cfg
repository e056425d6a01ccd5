SPECIFICATION FairSpec
CONSTANTS
  ChannelCapacity = 1
  AcceptCapacity = 1
  SendBuffer = 1
  MaxIn = 2
  MaxOut = 1
  MaxWriters = 1
  TooLargeIn = {}
  TooLargeOut = {}
CHECK_DEADLOCK FALSE
PROPERTIES
  DropEndsTasks
  PublisherEnds
