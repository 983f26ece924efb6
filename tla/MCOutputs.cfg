SPECIFICATION Spec
CONSTANTS
    NumTokens = 2
    StartingCash = 6
    Lots <- MCLots
    Prices <- MCPrices
    Results <- MCResults
    Readers = {"r1"}
    MaxRecent = 1
    MaxConnections = 1
    NoReason = "NONE"
    MaxOrders = 2
    MaxOps = 4
    MaxServed = 2
    MaxTrips = 1
    MaxRuns = 2
INVARIANTS
    TypeOK
    TablesAgree
PROPERTIES
    ReadersCatchUp
CHECK_DEADLOCK FALSE
