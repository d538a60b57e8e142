SPECIFICATION Spec
CONSTANTS
  o1 = o1
  o2 = o2
  o3 = o3
  a1 = a1
  r1 = r1
  r2 = r2
  Oid = {o1}
  New = {}
  Alert = {a1}
  NoAlert = NoAlert
  AlertOf <- MCAlertOf
  Adapter = FALSE
  Kept <- MCKept
  Run = {r1}
  Lookback = 1
  MaxQty = 1
  MaxTime = 1
  NotSent = NotSent
  NoRow = NoRow
CONSTRAINT Bounded
INVARIANT PnlRowsAreAttributed
