SPECIFICATION MCFairSpec
CONSTANTS
  Proc = {p1, p2}
  TTL = 1
  MaxTime = 4
  NoRow = NoRow
INVARIANTS
  TypeOK
  AtMostOneLease
PROPERTIES
  OnlyHolderReleases
  LeaseSpec
  DeadHolderIsReplaced
