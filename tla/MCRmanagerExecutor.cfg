\* Safety of the executor, and the abstract executor it implements: one resource, three
\* requests in any order.
CONSTANTS
  r1 = r1
  Rsc = {r1}
  Req <- LifeCycle
  Job = {j1, j2, j3}
  None = None
  InboxCap = 2
  EventCap = 2
SPECIFICATION Spec
INVARIANTS
  TypeOK
  NoOverlappingRuns
  OneShotAnsweredOnce
  SyncAnswerKept
PROPERTIES
  StopIsFinal
  ImplementsExecutor
SYMMETRY JobSymmetry
CHECK_DEADLOCK FALSE
