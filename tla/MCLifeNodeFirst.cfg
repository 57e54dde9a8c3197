CONSTANTS
  Node = node
  Servers = {v1, v2}
  Accepted = {l1, l2}
  Gateway = gateway
  Publishers = {p1}
  Subscribers = {}
  Null = null
  Liberties = {"children"}
  MaxSlots = 5
SPECIFICATION Spec
SYMMETRY Symmetry
CHECK_DEADLOCK FALSE
INVARIANTS
  NothingDangles
