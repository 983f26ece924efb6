SPECIFICATION Spec
CONSTANTS
  NumTokens = 2
  StartingCash = 4
  Prices <- MCPrices
  Sizes <- MCSizes
  Fees <- MCFees
  MaxEvents = 3
INVARIANTS
  TypeOK
  CashIdentity
  ReplayExact
  PeakIsHighWater
  FlattenLeavesNothingOpen
PROPERTY
  EquityMovesByMarksAndFees
CHECK_DEADLOCK FALSE
