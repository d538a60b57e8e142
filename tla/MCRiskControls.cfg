SPECIFICATION Spec
CONSTANTS
  p1 = p1
  p2 = p2
  Proc = {p1, p2}
  Cooldown = 1
  MinDuration = 1
  ExitStreak = 2
  MaxTime = 2
CONSTRAINT Bounded
SYMMETRY ProcSymmetry
INVARIANT TypeOK
PROPERTIES
  HaltIsServed PreserveIsServed
