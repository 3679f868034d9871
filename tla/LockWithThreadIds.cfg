\* Two threads are enough.
CONSTANTS
    Threads = {t1, t2}
    MaxNest = 1
    FieldMax = 3
    Mixed = FALSE
SPECIFICATION StartSpec
INVARIANT SameThreadIsCorrect
