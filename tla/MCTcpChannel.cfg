CONSTANTS
  Client = client
  Server = server
  small = small
  large = large
  Packet = {small, large}
  Size <- MCSize
  HeaderBytes = 2
  Capacity = 2
  RecvMax = 2
  ReadBatch = 1
  MaxPackets <- MCMaxPackets
SPECIFICATION FairSpec
CHECK_DEADLOCK FALSE
INVARIANTS
  TypeOK
  FramesIntact
  NeverBlocks
PROPERTIES
  ParsedEventually
  ImplementsPacketStream
