SPECIFICATION FairSpec
CONSTANTS
    Gen1 = 2
    SnapshotSize = 1
    Writes = {w1, w2, w3}
    NoSync = {}
    Batches <- TwoInstants
    NoopTimes = {}
    Flushers = {"bg"}
    OpLimit = 10
    Keep = 0
    PutMayGiveUp = FALSE
    LatePuts = FALSE
    MaxForced = 0
    MaxCrashes = 2
PROPERTY ImplementsPromise
PROPERTY SnapshotsCompleted
