SPECIFICATION FairSpec
CONSTANTS
    A = A
    B = B
    C = C
    D = D
    Nodes = {A, B, C, D}
    Hears <- Line
    CannotDecode <- None
    OgmTtl = 3
    SeqMod = 4
    RouteExpiry = 9
    NeighborExpiry = 9
    DataSeenExpiry = 9
    Traffic <- AtoD
    Duplicating = TRUE
    MaxTime = 0
    MaxBoots <- NoRestart
    MaxOgms <- DBeacons
    MaxSends = 1
INVARIANTS  NextHopInRange
PROPERTIES RouteLearned DeliveredOrUnroutable
CHECK_DEADLOCK FALSE
