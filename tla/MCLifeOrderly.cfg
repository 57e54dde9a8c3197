CONSTANTS
  Node = node
  Servers = {v1, v2}
  Accepted = {l1, l2}
  Gateway = gateway
  Publishers = {p1}
  Subscribers = {s1}
  Null = null
  Liberties = {}
  MaxSlots = 5
SPECIFICATION FairSpec
INVARIANTS
  TypeOK
  SpinettsExact
  MailboxesExact
  SocketOutlivesLink
  NothingDangles
PROPERTIES
  EndedIsForgotten
