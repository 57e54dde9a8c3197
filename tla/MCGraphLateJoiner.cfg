CONSTANTS
  a = a
  b = b
  c = c
  d = d
  t = t
  Node = {a, b, c, d}
  Topic = {t}
  Linked <- StarB
  Subscribed <- None
  Joinable <- EdgeDB
  GarbageLocalOnly = {FALSE}
  MayCrash = {}
  MaxCalls = 2
  MayCall = {a, c}
  MaxPublish = 0
SPECIFICATION Spec
CHECK_DEADLOCK FALSE
INVARIANTS
  SubscriptionsRouted
