SPECIFICATION FairSpec
CONSTANTS
  Chain <- ThreeBrokers
  Live <- LiveBrokers
  OldApi <- Alpaca
  HasId = TRUE
  Trading <- AllBrokers
  Qty <- SlicedBatch
  Slicing = TRUE
  MaxCalls = 2
  MaxErrors = 1
INVARIANTS
  TypeOK
  OkMeansAcknowledged
PROPERTIES
  MarkEndsTrading
  DispatchSpec
  CallsAreAnswered
CHECK_DEADLOCK FALSE
