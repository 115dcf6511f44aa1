SPECIFICATION Spec
CONSTANTS
    A = A
    B = B
    C = C
    D = D
    Nodes = {A, B, C}
    Hears <- Relay
    CannotDecode <- None
    OgmTtl = 2
    SeqMod = 3
    RouteExpiry = 9
    NeighborExpiry = 9
    DataSeenExpiry = 9
    Traffic <- AtoB
    Duplicating = TRUE
    MaxTime = 0
    MaxBoots <- ARestarts
    MaxOgms <- NoBeacons
    MaxSends = 2
INVARIANT OnlyDuplicatesSuppressed
CHECK_DEADLOCK FALSE
