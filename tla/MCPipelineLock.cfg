SPECIFICATION MCFairSpec
CONSTANTS
  Proc = {p1, p2, p3}
  TTL = 2
  MaxTime = 4
  NoRow = NoRow
INVARIANTS
  TypeOK
  SerialExclusion
  SerialRowStays
PROPERTIES
  PipelineRuns
