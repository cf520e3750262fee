SPECIFICATION MCSpec
CONSTANTS
    t1 = t1
    t2 = t2
    t3 = t3
    Tx <- ThreeTx
    RecordBytes = 2
    DefaultWarn = 4
    WarnBytes = {4}
    EvictMax = {1}
    DefaultEvictMax = 2
    Policy <- MCPolicies
    MaxIds = 3
    MaxHistory = 4
    MaxAttempts = 1
    MaxBatch = 2
    MaxTxTime = 1
    WarnEntries = 2
SYMMETRY SymmetryOfThree
CONSTRAINT Lives
INVARIANTS
    TrackerSound
    ModesAgree
PROPERTY
    EvictionIsSafe
CHECK_DEADLOCK FALSE
