CONSTANTS
  a = a
  b = b
  c = c
  d = d
  t = t
  Node = {a, b, c}
  Topic = {t}
  Linked <- EdgeBC
  Subscribed <- None
  Joinable <- EdgeAB
  GarbageLocalOnly = {FALSE}
  MayCrash = {a}
  MaxCalls = 2
  MayCall = {a, c}
  MaxPublish = 2
SPECIFICATION Spec
CHECK_DEADLOCK FALSE
INVARIANTS
  TypeOK
  TallyMatches
  DeliveredInOrder
  SubscriptionsRouted
