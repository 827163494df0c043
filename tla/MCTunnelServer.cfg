SPECIFICATION FairSpec
CONSTANTS
    t1 = t1
    Conns = {c1, c2}
    Tunnels = {t1}
    TunnelOf <- MCTunnelOf
    Visited = {c1}
    MaxSessions = 2
    Timeout = 1
    ChunkTicks = 1
    MaxChunks = 2
INVARIANTS
    TypeOK
    LateFrames
PROPERTIES
    ThrottleNotCollected
    GoneIsReleased
    EndedSessionReclaimed
    EvictedClientNotified
    SilentHandshakeReleased
