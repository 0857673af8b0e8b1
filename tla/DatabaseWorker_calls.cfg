\* Fewer slots than tasks, so that calls wait for a slot.
SPECIFICATION FairSpec
CONSTANTS
    s1 = s1  w1 = w1  w2 = w2
    Schedulers = {s1}
    Workers = {w1, w2}
    Size = 2
    Retries = 1
    Stop = Stop
    Nobody = Nobody
CHECK_DEADLOCK FALSE
INVARIANTS HolderFindsRoom DrainedOnClose
PROPERTIES CallsReturn ShutdownEnds
