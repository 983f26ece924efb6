SPECIFICATION AllocateSpec
CONSTANTS
  Category <- MCCategory
  MaxOrderNotional = 3
  MaxMarketExposure = 3
  MaxCategoryExposure = 6
  MaxTotalExposure = 7
  MaxCorrelatedExposure = 4
  MaxDailyLoss = 2
  MaxSessionLoss = 4
  MaxDrawdownPct = 20
  MaxOpenOrders = 3
  MaxConcurrentMarkets = 3
  RunawayRejectCount = 3
  Identity <- MCIdentity
  Rules <- MCRules
  GenericTags <- MCGeneric
  TagOverlapMin = 1
  Groups <- MCGroups
  Regimes <- MCRegimes
  MinAllocatePct = 40
  HeldNotionals <- MCHeld
  TotalShifts <- MCShifts
  IntendedNotionals <- MCIntended
INVARIANTS
  AllocateTypeOK
  RoomsShared
  GroupsFit
  UnderlyingsFit
PROPERTY
  RegimesTighten
CHECK_DEADLOCK FALSE
