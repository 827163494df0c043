SPECIFICATION Spec
CONSTANTS
    MaxU32 = 7
    PriorityOf <- MCPriorityOf
    FrameCap = 2
    MaxBatch = 2
    WireCap = 1
    NewCap = 1
    ChanCap = 1
    ServerData = 2
    ClientData = 0
    MaxData <- MCMaxData
    Closers = {"server"}
INVARIANTS
    NothingLost
    EofIsComplete
    ClosedIsForgotten
CHECK_DEADLOCK FALSE
