\* Two calls of at most two attempts: retries, late requests, restarts.
SPECIFICATION FairSpec
CONSTANTS
    Calls = {c1, c2}
    MaxAttempts = 2
    Volume = 1
INVARIANTS
    TypeOK
    AnswerIsFinal
    RefusedMeansNoOrder
    RowIsOfLastOrder
PROPERTIES
    KeepsPromise
    CallEnds
CHECK_DEADLOCK FALSE
