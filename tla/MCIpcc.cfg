\* Two concurrent callers.
CONSTANTS
  loop = loop
  other = other
  Caller = {loop, other}
  Consumer = loop
  None = None
  MaxSeq = 3
  MaxCalls = 3
  MaxExtra = 1
  SendCap = 2
  WriteCap = 1
  ReadCap = 2
  RecvCap = 2
SPECIFICATION Spec
INVARIANTS
  DeliveryFindsCaller
  NoAnswerMissed
PROPERTIES
  ImplementsCall
CHECK_DEADLOCK FALSE
