CONSTANTS
  Pub = pub
  Subs = {s1, s2}
  Chunks = 2
  MaxVersion = 2
  MaxConnects = 3
SPECIFICATION FairSpec
CHECK_DEADLOCK FALSE
INVARIANTS
  TypeOK
  ExclusiveUnlessUpset
  WholeUnlessUpset
  NewerUnlessUpset
PROPERTIES
  PushReturns
