SPECIFICATION Spec
CONSTANTS
    Queriers = {q1}
    Compactor = c
    Tables = {t1, t2}
    MinFiles = 1
    MaxGen = 2
    MaxConcurrent = 2
    WalPerSnapshot = 1
    PublishMayFail = FALSE
    GateMayTimeOut = FALSE
    MaxSnapshots = 2
    MaxCompactions = 2
    MaxCheckpoints = 0
    MaxRestarts = 0
INVARIANTS
    NoPhantomRefs
