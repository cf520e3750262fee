SPECIFICATION HostSpec
CONSTANTS
    p1 = p1
    p2 = p2
    RetryConfigs <- MCRetryConfigs
    Seeds = {0, 3, 7}
    BudgetSizes = {0, 2, 3}
    Saturation = 20
    Payloads = {p1, p2}
    MaxAttempts = 2
    Receivers <- MCReceivers
    DlqCapacity = 1
    DlqRetention = 1
    NoJob = NoJob
    MaxDeliveryTime = 4
    Requests = {k1, k2}
    DedupTtl = 2
    DedupSizes = {0, 1}
    GuardWindows = {0, 2}
    RecordPolicies <- MCRecordPolicies
    PageSize = 2
    MaxRecords = 4
    MaxHostTime = 4
    TxStates = {"Pending", "Processing", "Failed", "Completed"}
    Backpressure <- MCBackpressure
    PollAttempts = 2
    MaxPolls = 4
    Fingerprints = {f1, f2}
    AlertWindows = {0, 2}
    MaxKeys = 1
    RouterConfigs <- MCRouterConfigs
    Severities = {"critical", "warning"}
    Scopes = {"kyc", "tx"}
    NoScope = NoScope
    Destinations = {"page", "log", "mail"}
    MaxAlertTime = 4
    BaggageKeys <- MCBaggageKeys
    BaggageValues <- MCBaggageValues
    MaxHops = 2
    MaxJourney = 4
    LogConfigs <- MCLogConfigs
    MaxLogged = 5
    MaxCount = 6
    Latencies = {0, 1, 4}
    MaxCalls = 5
    Targets <- MCTargets
    RequestOptions <- MCRequestOptions
    Statuses = {200, 302, 404, 429, 503}
    ProxyConfigs <- MCProxyConfigs
    Policies <- MCPolicies
    MaxRequests = 2
    Urls <- MCUrls
    LabelForms <- MCLabelForms
    TextSizes <- MCTextSizes
    Filters <- MCFilters
    None = None
INVARIANTS
    RetriesBounded
    DeliveriesSound
    StoresSound
    MonitoringSound
    
PROPERTIES
    DeliveryKeepsPromise
CHECK_DEADLOCK FALSE
