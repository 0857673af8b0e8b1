\* A sound network with a good address behind a bad one; a bad network with
\* stops and repeated operations; exceptions that end the scheduler.
SPECIFICATION FairSpec
CONSTANTS
    Torrents = {"t1", "t2", "t3"}
    MaxAttempts = 2
    Retries = 1
    Batch = 2
    Addresses = 2
    Good = {1}
    Nothing = "nothing"
    MaxRestarts = 1
    Environments = {{}, {"network", "redo", "crash"}, {"truncated", "database", "crash"}}
CHECK_DEADLOCK FALSE
INVARIANTS DuplicatesBounded GoodAddressFound
PROPERTIES ContractKept NotificationsSettle
