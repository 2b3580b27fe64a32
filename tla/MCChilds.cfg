\* Three children and another process on four pids.
CONSTANTS
  N = 3
  Pids <- MCPids
SPECIFICATION FairSpec
INVARIANTS
  TypeOK
  PidIsChild
  StopReachesAll
PROPERTY TermReachesChildren
CHECK_DEADLOCK FALSE
