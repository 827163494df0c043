SPECIFICATION SlowSpec
CONSTANTS
    MaxU32 = 5
    PriorityOf <- MCPriorityOf
    FrameCap = 2
    MaxBatch = 2
    WireCap = 1
    NewCap = 1
    ChanCap = 1
    ServerData = 5
    ClientData = 0
    MaxData <- MCMaxData
    Closers = {"server"}
PROPERTIES
    ShutdownResolves
CHECK_DEADLOCK FALSE
