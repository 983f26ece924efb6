SPECIFICATION Spec
CONSTANTS
    TwapSymbols = {"btc"}
    TwapFrames <- MCTwapFrames
    Games = {1}
    Leagues = {"NBA"}
    GameFrames <- MCGameFrames
    NoGame = 0
    PingInterval = 1
    CollectSeconds = 2
    MaxBackoff = 2
    ClosedRaises = "ConnectionClosed"
    MaxMessages = 3
    MaxWire = 1
    MaxDrops = 1
    MaxCrashes = 1
    MaxScans = 2
PROPERTY DisconnectRecovers
CHECK_DEADLOCK FALSE
