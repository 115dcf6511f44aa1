SPECIFICATION FairSpec
CONSTANTS
    M1 = M1
    U1 = U1
    S1 = S1
    None = None
    General = "general"
    Incoming = {M1}
    Typed = {U1}
    Stored = {S1}
    Chan <- ChannelOf
    Rx = {"ardop"}
    Keep = 1
    MaxOpens = 1
    MaxPrunes = 1
INVARIANT ChannelListCurrent
PROPERTIES LinesKept EveryMessageShown
CHECK_DEADLOCK FALSE
