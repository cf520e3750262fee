SPECIFICATION RegSpec
CONSTANTS
    Addr = {alice, bob}
    NoAddr = NoAddr
    Key = {k1, k2}
    NoKey = NoKey
    NoLog = NoLog
    Roles = {"AttestorAdmin"}
    Capabilities = {}
    Kinds = {"register", "revoke"}
    DefaultCapacity = 2
    MaxCapacity = 1
    MaxSessions = 1
    MaxOps = 1
    Ttl = 0
    MaxLogId = 1
    ScanLimit = 2
    Day = 1
    MaxRetention = 0
    MaxThreshold = 0
    MaxNow = 0
INVARIANTS
    RegistryConsistent
    ListComplete
PROPERTY
    SessSpec
    ImplementsAttestorKeys
CHECK_DEADLOCK FALSE
