SPECIFICATION FairSpec
CONSTANTS
    Gen1 = 2
    SnapshotSize = 1
    Writes = {w1, w2, w3}
    NoSync = {}
    Batches <- TwoInstants
    NoopTimes = {}
    Flushers = {"bg"}
    OpLimit = 10
    Keep = 2
    PutMayGiveUp = TRUE
    LatePuts = TRUE
    MaxForced = 0
    MaxCrashes = 1
INVARIANT TypeOK
INVARIANT OneSnapshot
PROPERTY WritesAnswered
