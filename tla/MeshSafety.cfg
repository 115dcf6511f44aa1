SPECIFICATION Spec
CONSTANTS
    A = A
    B = B
    C = C
    D = D
    Nodes = {A, B, C}
    Hears <- DeafA
    CannotDecode <- CvsA
    OgmTtl = 2
    SeqMod = 4
    RouteExpiry = 1
    NeighborExpiry = 0
    DataSeenExpiry = 1
    Traffic <- AtoBC
    Duplicating = TRUE
    MaxTime = 2
    MaxBoots <- BRestarts
    MaxOgms <- CBeacons
    MaxSends = 1
INVARIANTS TypeOK OncePerWindow  DeleteFindsKey
CHECK_DEADLOCK FALSE
