SPECIFICATION Spec
CONSTANTS
    NULL = NULL
    Unreadable = Unreadable
    Latency = 50
    TakerDelay = 80
    QueuePct = 15
    PartialPct = 55
    RejectOnGap = TRUE
    RefuseCandleOnly = TRUE
    TrainMs = 2000
    TestMs = 1000
    StepMs = 1000
    MaxEvents = 400
    PollMs = 2000
    PrintSymbols = {"btc/usd", "eth/usd"}
    PrintWindows = {30, 60}
    TrainSpan = 600000
    TestSpan = 600000
    Documents <- MCDocuments
    Intents <- MCIntents
    Start = 100000000
    MaxMarket = 1200000
    Cooldown = 1500
    MaxRows = 4
    SyntheticSteps = 18
INVARIANTS
    TypeOK
    NoLookAhead
    FilledAtFillTime
    AccountAgrees
CHECK_DEADLOCK FALSE
