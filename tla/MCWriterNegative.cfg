SPECIFICATION Spec
CONSTANTS
    Gen1 = 2
    SnapshotSize = 1
    Writes = {w1, w2, w3}
    NoSync = {}
    Batches <- NegativeInstants
    NoopTimes = {}
    Flushers = {"bg"}
    OpLimit = 10
    Keep = 0
    PutMayGiveUp = FALSE
    LatePuts = FALSE
    MaxForced = 0
    MaxCrashes = 0
SYMMETRY WriteSymmetry
INVARIANT AckedDurable
