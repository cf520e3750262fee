SPECIFICATION MCSpec
CONSTANTS
    alice = alice
    bob = bob
    d1 = d1
    d2 = d2
    Addr <- MCAddr
    NoAddr = NoAddr
    Roles = {"KycAdmin"}
    Capabilities = {"ManageKyc"}
    Attestor = {bob}
    Subject = {subject}
    DataHash <- MCData
    NoHash = NoHash
    CheckType = {"kyc"}
    NoTime = NoTime
    Cooldown = 2
    KycExpiry = 1
    MaxChecks = 2
    MaxClock = 5
    Reason = {reason}
    NoReason = NoReason
    MaxValidity = 1
    MaxQuotes = 3
    MaxBatchSize = 2
    MaxTime = 1
    NotTaken = NotTaken
INVARIANT
    InvalidatedNotTaken
CHECK_DEADLOCK FALSE
