SPECIFICATION FairSpec
CONSTANTS
    Workers = {w1, w2}
    Starter = main
    AcceptEvents = {e1}
    Sessions = {s1, s2}
    NoEvent = NoEvent
INVARIANTS EventsAreOwned AcceptsAreKept
PROPERTIES LifeSpec Freed
CHECK_DEADLOCK FALSE
