SPECIFICATION FairSpec
CONSTANTS
    A = A
    B = B
    None = None
    Modem = Modem
    Stations = {A, B}
    Callers = {"ui"}
    Conns = {1, 2}
    QueueSize = 1
    MaxFrames <- OnlyASends
    Options <- SingleWriter
    MaxOgms = 1
INVARIANT ReleasedByStop
PROPERTIES IsFrameLink SendReturns ComesBack EveryClientHears
CHECK_DEADLOCK FALSE
