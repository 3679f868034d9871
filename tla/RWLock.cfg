\* Three threads, two nested guards, callers that do not mix modes.
CONSTANTS
    Threads = {t1, t2, t3}
    MaxNest = 2
    FieldMax = 6
    Mixed = FALSE
SPECIFICATION MCFairSpec
INVARIANTS
    Exclusion
    NoWriteCntRace
    FlagMatchesHolders
PROPERTIES
    LockFree
    AbstractSpec
