\* A packet may be larger than what a full request queue has in flight: the
\* assumption PacketsFit does not hold.
CONSTANTS
    BUFFER_SIZE = 6
    SEND_LIMIT = 2
    MAX_POST_CNT = 3
    MAX_SEND_RQ_SIZE = 3
    MaxPacket = 4
    MaxBytes = 10
SPECIFICATION Spec
INVARIANT UnsentIsExact
\* The core thread may hang in Disconnect.
CHECK_DEADLOCK FALSE
