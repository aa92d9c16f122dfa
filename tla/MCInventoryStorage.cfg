SPECIFICATION Spec
CONSTANTS
    Queriers = {}
    Compactor = c
    Tables = {t1, t2}
    MinFiles = 1
    MaxGen = 3
    MaxConcurrent = 2
    WalPerSnapshot = 2
    PublishMayFail = TRUE
    GateMayTimeOut = TRUE
    MaxSnapshots = 2
    MaxCompactions = 3
    MaxCheckpoints = 0
    MaxRestarts = 1
INVARIANTS
    RowsStored
