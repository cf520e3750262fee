SPECIFICATION MCSpec
CONSTANTS
    alice = alice
    bob = bob
    h1 = h1
    h2 = h2
    Addr <- MCAddr
    Hash <- MCHash
    NoAddr = NoAddr
    Key = {k1}
    NoKey = NoKey
    NoLog = NoLog
    NoId = NoId
    NoConfig = NoConfig
    Kinds = {"attest", "revoke"}
    MaxSessions = 1
    MaxOps = 2
    Ttl = 0
    MaxLogId = 2
    ScanLimit = 2
    Day = 1
    MaxRetention = 0
    MaxThreshold = 0
    MaxNow = 0
    Limit <- MCLimits
    DefaultLimit <- MCLimit
    BurstLimit = {}
    FairLimit = {}
    LimitRole = {}
    Multiplier = 1
    MaxBatch = 2
    MaxLedger = 2
    MaxId = 3
    SpanTtl = 1
    Quoting <- MCAddr
    Labels = {"step"}
    ChildNonces = {0}
    MaxRequests = 2
    MaxDone = 2
    PageCap = 2
SYMMETRY Symmetry
INVARIANTS
    StoresInStep
    NothingReplayed
    SpansTellWork
    PagesComplete
CHECK_DEADLOCK FALSE
