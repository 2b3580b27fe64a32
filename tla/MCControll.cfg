\* The controller brings its resource up.
CONSTANTS
  StatusCap = 2
  RecvCap = 2
  CoroCap = 2
  MaxCoro = 4
SPECIFICATION FairSpec
INVARIANTS
  TypeOK
  NeverBlocksOnItself
  NodeidBeforeResources
  OneMessageUnderWay
PROPERTY ReachesOperational
CHECK_DEADLOCK FALSE
