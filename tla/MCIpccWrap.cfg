\* The controller: one caller, whose sequence numbers wrap around.
CONSTANTS
  loop = loop
  other = other
  Caller = {loop}
  Consumer = loop
  None = None
  MaxSeq = 2
  MaxCalls = 4
  MaxExtra = 1
  SendCap = 1
  WriteCap = 1
  ReadCap = 2
  RecvCap = 2
SPECIFICATION FairSpec
INVARIANTS
  TypeOK
  DeliveryFindsCaller
  NoAnswerMissed
PROPERTY SendRecvReturns
CHECK_DEADLOCK FALSE
