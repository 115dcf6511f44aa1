SPECIFICATION FairSpec
CONSTANTS
    A = A
    B = B
    C = C
    T1 = T1
    T2 = T2
    None = None
    Stations = {A, B, C}
    Channels = {"general", "dm"}
    Threads = {T1}
    Writes <- BtoA
    Asks <- AandC
    Gap <- First
    LastN <- Window
    MaxSend = 1
    Retention = 1
    Duplicating = FALSE
    MaxMsgs = 2
    MaxSeq = 2
    MaxTime = 0
    MaxPrunes <- NoPruning
    MaxFlight = 2
    MaxBoots <- CRestarts
INVARIANT NoHoles
PROPERTIES  RangeRepairs
