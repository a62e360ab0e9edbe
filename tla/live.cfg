\* The bot and the live BUY lock are switched around live cycles.
SPECIFICATION Spec
CONSTANTS
    Symbols = {s1}
    NoSymbol = NoSymbol
    Manual = {m1}
    Sched = Sched
    Operator = Operator
    Watchlist = {s1}
    Modes = {"live"}
    Answers <- BuySell
    MinConf = 2
    MaxBuyWeight = 2
    MaxPositions = 1
    Environment = {"bot", "live_buy", "crash"}
    MaxLogs = 3
    MaxOrders = 1
INVARIANTS
    LiveBuyReviewed
PROPERTIES
    StopBoundsOrders
    LockBoundsLiveBuys
