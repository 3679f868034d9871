\* Three threads: one completes a send, one queues, one is about to drain.
CONSTANTS
    Threads = {t1, t2, t3}
    MaxMessages = 4
    WSASendFails = TRUE
SPECIFICATION FairSpec
INVARIANTS
    OneSender
    StreamIntact
    NoneLeftBehind
PROPERTIES
    EverythingSent
    StreamSpec
\* The session ends, or MaxMessages are sent.
CHECK_DEADLOCK FALSE
