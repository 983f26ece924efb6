SPECIFICATION Spec
CONSTANTS
  NumTokens = 4
  StartingCash = 10
  Category <- MCCategory
  MaxOrderNotional = 8
  MaxMarketExposure = 8
  MaxCategoryExposure = 14
  MaxTotalExposure = 14
  MaxCorrelatedExposure = 6
  MaxDailyLoss = 2
  MaxSessionLoss = 4
  MaxDrawdownPct = 20
  MaxOpenOrders = 2
  MaxConcurrentMarkets = 2
  RunawayRejectCount = 2
  Identity <- MCIdentity
  Rules <- MCRules
  GenericTags = {}
  TagOverlapMin = 2
  Groups <- MCGroups
  Regimes <- MCRegimes
  MinAllocatePct = 25
  MaxOrders = 3
  MaxCycles = 2
  MaxBatch = 2
  Prices <- MCPrices
  MarkPrices <- MCMarkPrices
  SharesWanted <- MCSharesWanted
  MinSize = 2
  PracticeToken = 4
  LotSizes <- MCLotSizes
  FillPct = 100
  FeePerShare = 0
INVARIANT
  GroupExposureCapped
CHECK_DEADLOCK FALSE
