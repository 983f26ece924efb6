SPECIFICATION Spec
CONSTANTS
  NumTokens = 4
  StartingCash = 10
  Category <- MCCategory
  MaxOrderNotional = 8
  MaxMarketExposure = 8
  MaxCategoryExposure = 14
  MaxTotalExposure = 14
  MaxCorrelatedExposure = 10
  MaxDailyLoss = 2
  MaxSessionLoss = 4
  MaxDrawdownPct = 20
  MaxOpenOrders = 2
  MaxConcurrentMarkets = 1
  RunawayRejectCount = 2
  Identity <- MCIdentity
  Rules <- MCRules
  GenericTags = {}
  TagOverlapMin = 2
  Groups <- MCGroups
  Regimes <- MCRegimes
  MinAllocatePct = 25
  MaxOrders = 3
  MaxCycles = 3
  MaxBatch = 2
  Prices <- MCPrices
  MarkPrices <- MCMarkPrices
  SharesWanted <- MCSharesWanted
  MinSize = 2
  PracticeToken = 4
  LotSizes <- MCLotSizes
  FillPct = 50
  FeePerShare = 0
INVARIANT
  TripCancelsWorkingOrders
CHECK_DEADLOCK FALSE
