SPECIFICATION StoreSpec
CONSTANTS
    k1 = k1  k2 = k2  k3 = k3
    p1 = p1  p2 = p2
    Keys = {k1, k2, k3}
    Announcers = {p1, p2}
    MaxKeys = 2
    MaxPerKey = 1
    TTL = 2
    Interval = 1
    MaxSamples = 1
    MaxNow = 5
CHECK_DEADLOCK FALSE
SYMMETRY Symmetry
INVARIANTS NewestKept SamplesRecent
