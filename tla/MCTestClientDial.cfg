\* A controller that starts after the first attempt.
CONSTANTS
  Controller = "/tmp/controller.sock"
  Echo = "/tmp/echo.sock"
  MaxDials = 3
  MaxMsg = 2
  Sockets <- MCSockets
SPECIFICATION FairSpec
PROPERTY Reconnects
CHECK_DEADLOCK FALSE
