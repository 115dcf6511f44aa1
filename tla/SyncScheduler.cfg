SPECIFICATION FairSpec
CONSTANTS
    K1 = K1
    K2 = K2
    Keys = {K1, K2}
    Channel <- Channels
    Askers = {"gui", "nodes"}
    None = None
    Deferring = {"general"}
    Gated = TRUE
    CanFail = TRUE
    MinInterval = 2
    BaseDelay = 1
    MaxDelay = 3
    MaxAttempts = 2
    MaxAsks = 2
    SendCap = 5
INVARIANTS TypeOK BoundedRetries
PROPERTIES CooldownHolds RetryEnds DeferredSyncSent
