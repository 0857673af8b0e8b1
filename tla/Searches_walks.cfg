SPECIFICATION FairSpec
CONSTANTS
    e1 = e1  e2 = e2
    Nowhere = Nowhere
    Nodes = {1, 2, 3, 4, 5, 6, 7, 8}
    Allowed = {1, 2, 4, 5, 6, 7, 8}
    Endpoints = {e1, e2}
    Home <- TwoHomes
    Peers = {1, 2}
    K = 3
    Parallelism = 2
    MaxQueries = 5
    MaxPeers = 1
    MaxMoves = 1
CHECK_DEADLOCK FALSE
INVARIANTS WalkBounded ClosestAsked HeededOnce
PROPERTY SearchEnds
