\* A ring of five cells; the request queue holds three sends.
CONSTANTS
    BUFFER_SIZE = 5
    SEND_LIMIT = 2
    MAX_POST_CNT = 3
    MAX_SEND_RQ_SIZE = 3
    MaxPacket = 2
    MaxBytes = 8
SPECIFICATION FairSpec
INVARIANTS
    UnsentIsExact
    NothingLeftDeferred
PROPERTIES
    StreamSpec
    EverythingSent
\* The core thread may hang in Disconnect.
CHECK_DEADLOCK FALSE
