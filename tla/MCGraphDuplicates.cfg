CONSTANTS
  a = a
  b = b
  c = c
  d = d
  t = t
  Node = {a, b, c}
  Topic = {t}
  Linked <- Triangle
  Subscribed <- None
  Joinable <- None
  GarbageLocalOnly = {FALSE}
  MayCrash = {}
  MaxCalls = 1
  MayCall = {c}
  MaxPublish = 1
SPECIFICATION Spec
CHECK_DEADLOCK FALSE
INVARIANTS
  DeliveredInOrder
