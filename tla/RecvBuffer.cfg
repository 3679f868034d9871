\* The largest packet is one byte less than the buffer, as 65535 and 65536 are.
CONSTANTS
    m_capacity = 6
    HEADER = 2
    PacketSizes = {2, 5}
    MaxPacket = 5
    MaxBytes = 14
SPECIFICATION FairSpec
INVARIANTS
    PacketsIntact
    RoomToReceive
    MovesApart
PROPERTIES
    AllReceived
\* The session ends, and the peer stops sending.
CHECK_DEADLOCK FALSE
