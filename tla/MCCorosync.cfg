\* corosync dies twice and reports three events.
CONSTANTS
  MaxRetries = 2
  CoroCap = 1
  MaxLives = 3
  MaxEvents = 3
SPECIFICATION FairSpec
INVARIANTS
  TypeOK
  PollsAsMember
PROPERTIES
  NoNeedlessLeave
  Rejoins
CHECK_DEADLOCK FALSE
