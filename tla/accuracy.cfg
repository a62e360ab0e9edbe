\* Batches of two, one of which a row without prices may fill, and the last three labels.
SPECIFICATION FairSpec
CONSTANTS
    a = a
    b = b
    c = c
    delisted = delisted
    Rows = {a, b, c, delisted}
    Dead = {delisted}
    Batch = 2
    Latest = 3
    MinRate = 45
    Confidence = 80
    MinConfidence = 75
    MaxFaults = 1
PROPERTIES
    Labelled
    Reopens
