SPECIFICATION Spec
CONSTANTS
    k1 = k1  k2 = k2  k3 = k3
    w1 = w1  w2 = w2
    p1 = p1  p2 = p2
    Keys = {k1, k2, k3}
    Workers = {w1}
    Peers = {p1}
    NoHint = NoHint
    NoKey = NoKey
    QueueSize = 1
    RecentSize = 1
    MaxHints = 1
    MaxTries = 1
    MaxFetches = 2
    ScanBatch = 1
    Retries = 0
    MaxRestarts = 0
    MaxEscapes = 2
INVARIANT StatesBounded
