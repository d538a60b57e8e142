SPECIFICATION FairSpec
CONSTANTS
  Reentrant = FALSE
  Caller = {a}
  Ops <- NoList
  Daemons <- OneDaemon
  OneShots <- NoOneShot
  MaxRestarts = 1
  MaxCalls = 1
  MaxStarts = 1
PROPERTIES
  JobLocksAreLetGo
CHECK_DEADLOCK FALSE
