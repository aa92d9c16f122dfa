SPECIFICATION Spec
CONSTANTS
    Gen1 = 2
    SnapshotSize = 1
    Writes = {w1, w2, w3, w4, w5}
    NoSync = {}
    Batches <- TwoInstants
    NoopTimes = {}
    Flushers = {"bg"}
    OpLimit = 10
    Keep = 0
    PutMayGiveUp = TRUE
    LatePuts = FALSE
    MaxForced = 0
    MaxCrashes = 0
SYMMETRY WriteSymmetry
INVARIANT AckedDurable
