\* The fourth query comes while a task has been woken and a slot is free.  The
\* queries do not differ, so that their order does not matter.
SPECIFICATION Spec
CONSTANTS
    q1 = q1  q2 = q2  q3 = q3  q4 = q4
    honest = honest  faulty = faulty
    id1 = id1  id2 = id2
    Queries = {q1, q2, q3, q4}
    Endpoint <- ToHonest
    Expected <- ExpectId1
    Priority <- SamePriority
    OwnId <- TwoIds
    Faulty = {}
    NoId = NoId
    None = None
    TidSpace = 2
    Slots = 2
    Burst = 1
SYMMETRY AnyOrder
CHECK_DEADLOCK FALSE
INVARIANT SlotsMatch
