SPECIFICATION SlowSpec
CONSTANTS
    MaxU32 = 7
    PriorityOf <- MCPriorityOf
    FrameCap = 2
    MaxBatch = 2
    WireCap = 1
    NewCap = 1
    ChanCap = 1
    ServerData = 2
    ClientData = 0
    MaxData <- MCMaxData
    Closers = {}
PROPERTIES
    NextIsDispatched
CHECK_DEADLOCK FALSE
