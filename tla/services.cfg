CONSTANTS
    Callers <- Threads
    MaxExpiries = 2
    MaxLapses = 2
    Clients <- Threads
    MaxLots = 2
    Polls = 1
    TripAt = 2
    MaxOrders = 2
    MaxMishaps = 3
    MaxRestarts = 1
    Symbols = {"index", "leg"}
    Subscribed = {"index"}
    StaleAge = 2
    MaxTrip = 1
    MaxLosses = 2
    Contracts = {"index", "leg"}
    QueueSize = 2
    MaxCalls = 2
    MaxBreaks = 1
    Papers = {"option", "equity"}
    Derivatives = {"option"}
    Capital = 100
    Prices = {16, 24}
    HalfSpread = 8
    Fee = 1
    MarginTimes = 2
    MaxHeld = 2
    MaxPaperOrders = 4
    Apps <- Screens
    Operators <- Screens
    MaxConns = 1
    BufferSize = 1
    MaxCommands = 2
    MaxFailures = 2
    MaxAge = 2
    Cooldown = 4
    MaxRun = 2
    Levels = {1, 2}
    MaxVolume = 1
    MaxKeep = 1
    MaxSkip = 2
    MaxTicks = 3
    Candles = 5
    MinHistory = 1
    Expiry = 2
    Premiums = {2, 4}
    Slip = 1
    Charge = 1
    HistorySize = 5
    MinDataPoints = 4
    Needs <- MCNeeds
SPECIFICATION Spec
INVARIANTS TypeOK BookExplained AnswersHold PauseHolds StampIsHonest NoSymbolFallsBetween MoneyAccounted CapHolds OutageIsHeard CandlesMatchTicks DrawdownCovers ExitsAreTimely
PROPERTIES KeepsContract SessionHeals SubscribedStopsDecide StopReturns FeedRecovers DeadClientsGo ViewsConverge
CHECK_DEADLOCK FALSE
