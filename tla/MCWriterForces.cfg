SPECIFICATION Spec
CONSTANTS
    Gen1 = 2
    SnapshotSize = 1
    Writes = {w1, w2, w3}
    NoSync = {}
    Batches <- TwoInstants
    NoopTimes = {2}
    Flushers = {"bg", "mem"}
    OpLimit = 10
    Keep = 0
    PutMayGiveUp = FALSE
    LatePuts = FALSE
    MaxForced = 2
    MaxCrashes = 1
SYMMETRY WriteSymmetry
INVARIANT OneSnapshot
INVARIANT ManifestsGapless
