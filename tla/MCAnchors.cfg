SPECIFICATION MCSpec
CONSTANTS
    a1 = a1
    a2 = a2
    d1 = d1
    Anchors = {a1, a2}
    Data = {d1, d2}
    NoEntry = NoEntry
    Ttls = {0, 3}
    PolicySets <- MCPolicySets
    FirstPolicies <- MCFirstPolicies
    CacheConfigs <- MCCacheConfigs
    FirstConfig <- MCFirstConfig
    MaxEntries = 1
    MinTempTtl = 1
    MaxCacheTime = 3
    Attestors = {x, y, z}
    FirstQuorum = 2
    MaxQuorum = 3
    FirstExpiry = 2
    MaxExpiry = 2
    MaxProposals = 1
    Codes = {1, 2, 3}
    KnownCodes = {1, 2}
    Times = {1, 2}
    MaxSnapshots = 1
    MaxWindows = 2
    QuoteService = 2
    MetaValues <- MCMetaValues
    QuoteOffers <- MCQuoteOffers
    RoutingOptions <- MCRoutingOptions
    ClusterIds = {c1, c2}
    MaxVersions = 2
    Rated = {a1}
    Networks = {n1, n2}
    None = None
    Weights <- MCTriples
    Records <- MCRecords
    DaySeconds = 3
    MaxPolicies = 2
    Strategies = {"LowestFee"}
    Priorities = {1, 2}
    RingSizes = {0, 1, 2, 3}
    FirstRingSize = 3
    MaxLogged = 6
    Monitored = {a1}
    Endpoints = {e1, e2}
    Hashes = {h1, h2}
    NoProof = NoProof
    HealthWindows <- MCHealthWindows
    MaxHealthWindows = 2
    MaxCount = 6
    Tokens <- MCTokens
    Issuers = {a1}
    SigningKeys = {"k1", "k2"}
    NoKey = NoKey
    NoJti = NoJti
    LongJti = LongJti
    NoIssuer = NoIssuer
    NoSubject = NoSubject
    Lengths = {2, 3}
    FirstMaxLen = 2
    Skews = {0, 3}
    FirstSkew = 1
    MaxSkew = 3
    MaxLifetime = 6
    TtlBuffer = 2
    LedgerSecs = 2
    MaxTokenLedger = 6
INVARIANTS
    CachesSound
    ServicesConsistent
    RoutingSound
    OversightSound
    AcceptedOnce
CHECK_DEADLOCK FALSE
