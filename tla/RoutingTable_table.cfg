SPECIFICATION FairSpec
CONSTANTS
    e1 = e1  e2 = e2
    Bits = 4
    LocalId = 0
    Senders <- FourNodes
    ReadOnly = {4}
    K = 1
    Bootstraps <- Helper
    BadAfter = 1
    MaxRestarts = 1
CHECK_DEADLOCK FALSE
INVARIANTS BucketsPartition UniqueNodes ReplacementsWait GoodIsVerified
PROPERTIES OnlyBadEvicted RestoreComplete TableRecovers
