SPECIFICATION MCSpec
CONSTANTS
  Proc = {p1, p2}
  TTL = 2
  MaxTime = 3
  NoRow = NoRow
INVARIANT CrossProcessSafe
