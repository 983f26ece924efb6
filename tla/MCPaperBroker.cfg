SPECIFICATION Spec
CONSTANTS
  NumTokens = 1
  StartingCash = 5
  MaxOrders = 2
  Prices <- MCPrices
  Sizes <- MCSizes
  FeesPerShare <- MCFeesPerShare
INVARIANTS
  TypeOK
  StatusTellsFilled
  FillsBooked
PROPERTIES
  LifecycleSpec
  TermsFixed
  LastFillTruthful
