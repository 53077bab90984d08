SPECIFICATION FairPostSpec
CONSTANTS
    Post = {q1, q2}
    Reader = {m1, m2}
    Poster = m1
    Policy = "members"
    PostLimit = 1
    MaxPostFaults = 1
INVARIANTS
    PostLimitNeedsOverlap
PROPERTIES
    KeepsWebPromise
    FanOutSettles
CHECK_DEADLOCK FALSE
