\* The controller stops.
CONSTANTS
  SignalCap = 1
  HasStatus = TRUE
SPECIFICATION FairSpec
INVARIANTS
  TypeOK
  StopsOnTermOnly
PROPERTY TermStops
CHECK_DEADLOCK FALSE
