CONSTANTS
  a = a
  b = b
  c = c
  d = d
  t = t
  Node = {a, b, c}
  Topic = {t}
  Linked <- Triangle
  Subscribed <- OnlyB
  Joinable <- None
  GarbageLocalOnly = {FALSE}
  MayCrash = {a}
  MaxCalls = 1
  MayCall = {b, c}
  MaxPublish = 1
SPECIFICATION Spec
CHECK_DEADLOCK FALSE
INVARIANTS
  PathsSimple
  SubscriptionsRouted
PROPERTIES
  NoEcho
