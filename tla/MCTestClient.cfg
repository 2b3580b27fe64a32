\* Three further attempts, as in the code, and two messages of the server.
CONSTANTS
  Controller = "/tmp/controller.sock"
  Echo = "/tmp/echo.sock"
  MaxDials = 3
  MaxMsg = 2
  Sockets <- MCSockets
SPECIFICATION FairSpec
INVARIANTS
  TypeOK
  StopsOnTermOnly
PROPERTIES
  HelloWritten
  TermStops
CHECK_DEADLOCK FALSE
