CONSTANTS
  Byte = {0, 1}
  InitialCapacity = 2
  GrowLimit = 3
  Word = 16
  MaxCount = 2
SPECIFICATION Spec
CHECK_DEADLOCK FALSE
INVARIANTS
  TypeOK
PROPERTIES
  ImplementsByteQueue
