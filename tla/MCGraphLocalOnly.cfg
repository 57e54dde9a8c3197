CONSTANTS
  a = a
  b = b
  c = c
  d = d
  t = t
  Node = {a, b, c}
  Topic = {t}
  Linked <- ChainABC
  Subscribed <- None
  Joinable <- None
  GarbageLocalOnly = {FALSE, TRUE}
  MayCrash = {}
  MaxCalls = 1
  MayCall = {c}
  MaxPublish = 0
SPECIFICATION Spec
CHECK_DEADLOCK FALSE
INVARIANTS
  SubscriptionsRouted
