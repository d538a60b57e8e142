SPECIFICATION Spec
CONSTANTS
  o1 = o1
  o2 = o2
  o3 = o3
  a1 = a1
  r1 = r1
  r2 = r2
  Oid = {o1, o2, o3}
  New = {o1}
  Alert = {a1}
  NoAlert = NoAlert
  AlertOf <- MCAlertOf
  Adapter = TRUE
  Kept <- MCKept
  Run = {r1, r2}
  Lookback = 1
  MaxQty = 2
  MaxTime = 1
  NotSent = NotSent
  NoRow = NoRow
CONSTRAINT Bounded
SYMMETRY RunSymmetry
INVARIANTS
  TypeOK
  LedgerNeverOverstates
  RunsApartAgree
PROPERTY
  FirstReportStands
