SPECIFICATION Spec
CONSTANTS
  Reentrant = TRUE
  Caller = {a, b}
  Ops <- EveryOp
  Daemons <- TwoDaemons
  OneShots <- OneOneShot
  MaxRestarts = 1
  MaxCalls = 2
  MaxStarts = 2
SYMMETRY Symmetry
INVARIANTS
  TypeOK
  OneProcess
  DaemonsExclude
  CirclesNeedList
  ExitIsCurrent
PROPERTIES
  RestartsAreWanted
CHECK_DEADLOCK FALSE
