CONSTANTS
    t1 = t1
    Ids = {s1, s2, s3}
    Tunnels = {t1}
    TunnelOf <- MCTunnelOf
    Readers = {r1}
    NoId = NoId
    NoTunnel = NoTunnel
    Timeout = 0
    MaxTime = 1
SPECIFICATION Spec
PROPERTY EvictsOnlyStale
