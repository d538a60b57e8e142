SPECIFICATION FairSpec
CONSTANTS
  Proc = {p1}
  a = a
  b = b
  Symbol <- MCSymbol
  Batches <- MCBatches
  Handles = {TRUE, FALSE}
  Chunk = 2
  Budget = 3
  MaxAborts = 2
INVARIANTS
  TypeOK
  WorthIsConserved
  FillsExplainPositions
PROPERTIES
  RebalanceSpec
  AppliedMeansReached
  NoOvershoot
  OwnHandleKeepsUp
