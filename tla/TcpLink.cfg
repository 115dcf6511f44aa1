SPECIFICATION FairSpec
CONSTANTS
    S = S
    A = A
    None = None
    Server = S
    Clients = {A}
    Conns = {1, 2, 3}
    QueueSize = 1
    Backlog = 2
    Stoppable = {S, A}
    MaxFrames <- ServerSends
    MaxFaults = 1
INVARIANTS FramesOnlyAfterHandshake OneConnection ReleasedByStop
PROPERTIES  IsFrameLink
CHECK_DEADLOCK FALSE
