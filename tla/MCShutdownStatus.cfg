\* The resource manager closes its nil status channel.
CONSTANTS
  SignalCap = 1
  HasStatus = FALSE
SPECIFICATION Spec
PROPERTY StatusNotUsed
CHECK_DEADLOCK FALSE
