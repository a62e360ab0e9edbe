\* Both modes, switched at any time, liquidation, restarts and calls of the job that hang.
SPECIFICATION HangSpec
CONSTANTS
    Symbols = {s1}
    NoSymbol = NoSymbol
    Manual = {m1}
    Sched = Sched
    Operator = Operator
    Watchlist = {s1}
    Modes = {"live", "paper"}
    Answers <- BuyAnswers
    MinConf = 2
    MaxBuyWeight = 2
    MaxPositions = 1
    Environment = {"mode", "liquidate", "crash"}
    MaxLogs = 1
    MaxOrders = 1
PROPERTIES
    JobReturns
