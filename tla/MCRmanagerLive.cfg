\* Liveness of the executor: a synchronous operation is answered, and every wait ends,
\* on channels small enough to fill up.
CONSTANTS
  r1 = r1
  Rsc = {r1}
  Req <- MonitorAndStop
  Job = {j1, j2, j3}
  None = None
  InboxCap = 1
  EventCap = 2
SPECIFICATION FairSpec
PROPERTIES
  SyncAnswered
  ExecutionsEnd
CHECK_DEADLOCK FALSE
