CONSTANTS
  a = a
  b = b
  c = c
  Node = {a, b, c}
  Linked <- Triangle
  Backlog <- NotYet
  Capacity = 1
  ReadBatch = 1
  Unread <- MCUnread
  MaxSends <- MCMaxSends
  Asks <- MCAsks
SPECIFICATION FairSpec
CHECK_DEADLOCK FALSE
INVARIANTS
  TypeOK
PROPERTIES
  OnlyDeadlocksStall
  DeadlocksLast
