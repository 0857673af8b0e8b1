\* As many transaction IDs as slots, so that IDs wrap and are reused at once.
SPECIFICATION FairSpec
CONSTANTS
    q1 = q1  q2 = q2  q3 = q3  q4 = q4
    honest = honest  faulty = faulty
    id1 = id1  id2 = id2
    Queries = {q1, q2, q3}
    Endpoint <- ThreeEndpoints
    Expected <- ThreeExpected
    Priority <- ThreePriorities
    OwnId <- TwoIds
    Faulty = {faulty}
    NoId = NoId
    None = None
    TidSpace = 2
    Slots = 2
    Burst = 1
CHECK_DEADLOCK FALSE
INVARIANTS SlotsMatch OnlyTheAsked
PROPERTIES ContractKept QueriesEnd
