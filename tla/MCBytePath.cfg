SPECIFICATION FairSpec
CONSTANTS
    q1 = q1
    q2 = q2
    Streams = {q1, q2}
    ProtocolOf <- MCProtocolOf
    MaxBytes = 3
    MaxRoom = 3
    StreamsPerSec = 1
    BytesPerSec = 1
    BurstFactor = 2
    MaxThrottleChunkSecs = 30
    MaxU32 = 7
    Producers = {"stream", "control"}
    PriorityOf <- MCPriorityOf
    Setups <- MCSetups
    FrameCap = 2
    MaxBatch = 3
    MinBatching = 2
    Configured <- MCConfigured
    Defaults <- MCDefaults
    Headroom = 2
    Ladder <- MCLadder
    MaxFrameSize = 16
INVARIANTS
    FramesInOrder
    OnlyBadFramesFail
    OneWireFormat
    WithinBudget
    ChargedOnce
    StreamIntact
PROPERTY
    BytesArrive
CHECK_DEADLOCK FALSE
