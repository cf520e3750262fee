SPECIFICATION MCSpec
CONSTANTS
    alice = alice
    bob = bob
    Addr <- MCAddr
    NoAddr = NoAddr
    NoConfig = NoConfig
    Limit <- TwoLimits
    DefaultLimit <- TwoPerTwo
    BurstLimit <- SmallBucket
    FairLimit <- HalfShare
    LimitRole = {"KycAdmin"}
    Multiplier = 2
    MaxBatch = 2
    MaxLedger = 3
    NoLog = NoLog
    Kinds = {"attest", "revoke"}
    MaxSessions = 2
    MaxOps = 2
    Ttl = 1
    MaxLogId = 3
    ScanLimit = 2
    Day = 1
    MaxRetention = 1
    MaxThreshold = 1
    MaxNow = 2
SYMMETRY Symmetry
INVARIANTS
    SessTypeOK
    AuditTrail
    AuditWithinLifetime
    StateMatchesOps
    LimiterBounds
    RetryAfterWindow
PROPERTY
    ClosedIsFinal
CHECK_DEADLOCK FALSE
