SPECIFICATION Spec
CONSTANTS
    NULL = NULL
    DepthLevels = 5
    DecayPct = 70
    GapMultiple = 2
    ImpactNotional = 50000
    SpreadTight = 1500
    SpreadWide = 6000
    RecentTightPct = 70
    RecentWidePct = 140
    MinHistory = 1
    IntensityWindow = 60
    DefaultTick = 10
    Feeds = {"gamma", "clob_book", "clob_fees", "rtds", "sports_ws"}
    CriticalFeeds = {"clob_book", "clob_fees"}
    MaxAge <- MCMaxAge
    SkewTolerance = 2
    Symbols = {"btc/usd"}
    Titles = {"cs2", "lol"}
    MinLiquidity = 200
    MinVolume = 50
    MaxListedSpread = 120
    IncludeTags = {}
    MaxMarkets = 2
    Authority <- MCAuthority
    ClassOfSource <- MCClasses
    MinAuthority = 50
    MinRelevance = 40
    MinConfidence = 35
    HalfLife = 3600
    AlreadyRepriced = 2000
    MaxShift = 15000
    NearResolution = 900
    HighSpread = 80
    LowSpread = 15
    VacuumLiquidity = 300
    VacuumSpread = 60
    ShockClasses = {"official", "wire", "breaking"}
    ShockRelevance = 40
    TrendPct = 35
    RevertPct = 10
    RevertMove = 2000
    NearWeather = 600
    ObservationPhase = 21600
    UncertainPct = 15
    ConvergingPct = 5
    DisabledRegimes <- MCDisabled
    EnabledRegimes <- MCEnabledRegimes
    PriorBlendPct = 35
    LatencyHaircut = 150
    AdverseSelection = 200
    FillPenalty = 100
    DefaultConfidence = 55
    MinRequiredEdge = 1200
    MakerFillPct = 45
    MakerAdversePct = 150
    Bankroll = 10000
    KellyPct = 10
    MaxKellyBp = 500
    VarianceFloor = 40000
    BookPct = 15
    MaxOrderMills = 250000
    LiquidityRef = 10000
    VolumeRef = 5000
    FullSpread = 80
    Weights <- MCWeights
    Tiers <- MCTiers
    MinScore = 55000
    ProbeShares = 5
    Rows <- MCRows
    Items <- MCItems
    Prints <- MCPrints
    States <- MCStates
    Forecasts <- MCForecasts
    Matches <- MCMatches
    Calls <- MCCalls
    Enabled = {"crypto", "sports", "weather", "esports"}
    Documented = {"NBA", "CBB", "Soccer"}
    TwapEnabled = TRUE
    HistoryLength = 1
    Steps <- MCSteps
    MaxEvaluations = 2
    MaxMoves = 1
    MaxArrivals = 1
INVARIANTS
    TypeOK
    WalksAgree
PROPERTIES
    DecidedOnFreshData
    NewsShiftsOnce
CHECK_DEADLOCK FALSE
