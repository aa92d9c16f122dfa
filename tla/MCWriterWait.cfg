SPECIFICATION FairSpec
CONSTANTS
    Gen1 = 2
    SnapshotSize = 1
    Writes = {w1, w2, w3}
    NoSync = {}
    Batches <- TwoInstants
    NoopTimes = {2}
    Flushers = {"bg", "mem"}
    OpLimit = 10
    Keep = 0
    PutMayGiveUp = TRUE
    LatePuts = FALSE
    MaxForced = 1
    MaxCrashes = 0
PROPERTY WritesAnswered
CHECK_DEADLOCK FALSE
