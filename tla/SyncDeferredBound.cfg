SPECIFICATION Spec
CONSTANTS
    K1 = K1
    K2 = K2
    Keys = {K2}
    Channel <- Channels
    Askers = {"gui"}
    None = None
    Deferring = {"general"}
    Gated = FALSE
    CanFail = FALSE
    MinInterval = 2
    BaseDelay = 1
    MaxDelay = 3
    MaxAttempts = 2
    MaxAsks = 1
    SendCap = 5
INVARIANT AttemptsBounded
