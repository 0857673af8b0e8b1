\* The snapshot may fail; the process may crash, too; or everything but the
\* process may fail at any time.
SPECIFICATION FairSpec
CONSTANTS
    QueueSize = 2
    MaxEvents = 4
    Environments = {{"snapshot"}, {"snapshot", "crash"}, {"write", "flush", "snapshot"}}
CHECK_DEADLOCK FALSE
INVARIANTS NothingLost SnapshotWhole
PROPERTIES ShutdownEnds QueuedWaitersFail
