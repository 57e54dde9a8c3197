CONSTANTS
  Links = {l1, l2}
  Topics = {t1}
  ReadBatch = 1
  WireCapacity = 1
  MaxPackets = 2
SPECIFICATION FairSpec
INVARIANTS
  TypeOK
  FirehoseExact
  OutputComplete
  InputComplete
PROPERTIES
  OutImplementsQueue
  InImplementsQueue
  LossNeedsFullBatch
  FlushedEventually
  ExitReturns
