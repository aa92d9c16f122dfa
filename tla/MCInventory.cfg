SPECIFICATION Spec
CONSTANTS
    Queriers = {q1}
    Compactor = c
    Tables = {t1}
    MinFiles = 1
    MaxGen = 2
    MaxConcurrent = 1
    WalPerSnapshot = 1
    PublishMayFail = FALSE
    GateMayTimeOut = FALSE
    MaxSnapshots = 2
    MaxCompactions = 2
    MaxCheckpoints = 1
    MaxRestarts = 1
INVARIANTS
    NoPhantomRefs
    FoldedRowsVisible
    CheckpointCoversMarks
