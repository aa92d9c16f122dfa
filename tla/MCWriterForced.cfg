SPECIFICATION Spec
CONSTANTS
    Gen1 = 2
    SnapshotSize = 1
    Writes = {w1, w2}
    NoSync = {}
    Batches <- Instants
    NoopTimes = {2}
    Flushers = {"bg", "mem"}
    OpLimit = 10
    Keep = 0
    PutMayGiveUp = FALSE
    LatePuts = FALSE
    MaxForced = 1
    MaxCrashes = 0
SYMMETRY WriteSymmetry
INVARIANT AckedDurable
