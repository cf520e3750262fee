SPECIFICATION OffChainSpec
CONSTANTS
    xlm = xlm
    usd = usd
    blankAsset = blankAsset
    badAsset = badAsset
    TxIds <- MCTxIds
    MaxArchives = 2
    TxRecords <- MCTxRecords
    WindowSizes = {1, 2, 3}
    MaxTimestamp = 7
    MaxVolume = 6
    MaxHistory = 4
    RawQuotes <- MCRawQuotes
    Blank = blankAsset
    Invalid = badAsset
    MaxFuture = 5
    QuoteTtls = {1, 4}
    Reconciliation <- MCReconciliation
    MarketPrices = {0, 10, 20}
    QuoteKeys = {q1, q2}
    Fees = {1, 9}
    FeeWindow = 2
    FeeThreshold = 3
    MaxObservations = 2
    MaxQuoteTime = 5
    Hosts <- MCHosts
    ValidHosts = {"primary", "fallback"}
    FetchAttempts = 2
    PollConfigs <- MCPollConfigs
    PollRetries = 3
    VendorTokens = {"settled", "odd"}
    TomlLines <- MCTomlLines
    MaxLines = 5
    Digits = {"0", "1"}
    MaxChars = 5
    NoValue = NoValue
    Contents <- MCContents
    MaxMtime = 3
    Reloaders = {r1, r2}
    Commands = {c1, c2}
    CredNames = {n1, n2}
    Secrets = {v1}
    Passwords = {w1, w2}
    MaxContracts = 3
    ProfileNames = {"testnet", "mainnet", "custom"}
    BuiltinNetworks = {"testnet", "mainnet"}
    MaxCommands = 4
    Nothing = Nothing
    Admins <- MCAdmins
    ConfigKeys = {"ttl", "fee"}
    ConfigValues = {1, 2}
    Fingerprints <- MCFingerprints
    Artifacts = {"", "wasm"}
    Hashes = {"", "blank", "h1", "h2"}
    Revisions = {"r1", "r2"}
    Repositories = {"repo", "credentials"}
    Builds = {"b1"}
    MaxProvenance = 2
    FirstDays = {300, 47400}
    MaxDays = 550
    Scores = {0, 2}
    HashedFields <- MCHashedFields
    HashedSubjects <- MCHashedSubjects
    HashedData <- MCHashedData
    MaxPayloadSize = 2
    MaxFields = 2
    MaxRules = 3
    Absent = Absent
INVARIANTS
    BooksSound
    TransfersSound
    FilesStaySound
    RecordsTell
CHECK_DEADLOCK FALSE
