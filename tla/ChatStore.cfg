SPECIFICATION Spec
CONSTANTS
    A = A
    B = B
    C = C
    T1 = T1
    T2 = T2
    None = None
    Stations = {A, B}
    Channels = {"general"}
    Threads = {T1, T2}
    Writes <- BtoAGeneral
    Asks <- Mutual
    Gap <- First
    LastN <- One
    MaxSend = 2
    Retention = 1
    Duplicating = FALSE
    MaxMsgs = 2
    MaxSeq = 2
    MaxTime = 2
    MaxPrunes <- APrunes
    MaxFlight = 1
    MaxBoots <- BRestarts
INVARIANTS TypeOK StoredWasWritten
PROPERTIES HistoryNotRewritten
SYMMETRY ThreadSymmetry
