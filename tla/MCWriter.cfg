SPECIFICATION Spec
CONSTANTS
    Gen1 = 2
    SnapshotSize = 1
    Writes = {w1, w2, w3, w4}
    NoSync = {w4}
    Batches <- Instants
    NoopTimes = {}
    Flushers = {"bg"}
    OpLimit = 10
    Keep = 0
    PutMayGiveUp = FALSE
    LatePuts = FALSE
    MaxForced = 0
    MaxCrashes = 2
SYMMETRY WriteSymmetry
INVARIANT AckedDurable
INVARIANT ReplayRedoesSnapshots
INVARIANT AckedQueryable
INVARIANT RemoverInRange
PROPERTY ShutdownAnswersAll
PROPERTY DeletesOnlySnapshotted
