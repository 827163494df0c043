SPECIFICATION FairSpec
CONSTANTS
    MaxU32 = 5
    PriorityOf <- MCPriorityOf
    FrameCap = 2
    MaxBatch = 2
    WireCap = 1
    NewCap = 1
    ChanCap = 1
    ServerData = 2
    ClientData = 1
    MaxData <- MCMaxData
    Closers = {"server", "client"}
INVARIANTS
    TypeOK
    NothingLost
PROPERTIES
    DataIsRead
    ReaderSeesEnd
CHECK_DEADLOCK FALSE
