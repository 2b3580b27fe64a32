\* The resource manager: the controller comes back, another client is there.
CONSTANTS
  controller = controller
  other = other
  c1 = c1
  c2 = c2
  c3 = c3
  Conn = {c1, c2, c3}
  Client = {controller, other}
  Controller = controller
  None = None
  MaxSend = 3
SPECIFICATION FairSpec
INVARIANTS
  TypeOK
  LatestHelloReachable
  ResponsesToController
PROPERTIES
  HelloAnswered
  ConnectionsClosed
CHECK_DEADLOCK FALSE
