\* Three symbols and room for one position, paper trading: a manual cycle and the job,
\* with shadow mode and restarts.
SPECIFICATION Spec
CONSTANTS
    Symbols = {s1, s2, s3}
    NoSymbol = NoSymbol
    Manual = {m1}
    Sched = Sched
    Operator = Operator
    Watchlist = {s1, s2, s3}
    Modes = {"paper"}
    Answers <- BuyWeakSell
    MinConf = 2
    MaxBuyWeight = 2
    MaxPositions = 1
    Environment = {"shadow", "crash"}
    MaxLogs = 2
    MaxOrders = 2
INVARIANTS
    TypeOK
    ExactAnalysis
    AnalysisSpentOnce
    LiquidatedNotRetraded
    ReportSound
    CapOvershoot
SYMMETRY SymbolSymmetry
