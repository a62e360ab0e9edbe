\* The limits of the code on retries, rounds and steps; at most two tools run.
SPECIFICATION FairSpec
CONSTANTS
    m = m
    Requests = {m}
    MaxRetries = 2
    MaxRounds = 4
    MaxSteps = 25
    MaxTools = 2
INVARIANTS
    RecordIsWhole
    ReviewedFirst
PROPERTIES
    StreamEnds
CHECK_DEADLOCK FALSE
