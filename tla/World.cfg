\* Two players, on either side of the border of two zones, one of the sides
\* beyond the border of the map.  Three packets: both move to where they see
\* each other and one leaves again, or one logs out in between.
CONSTANTS
    Players = {p1, p2}
    Positions = {1, 4}
    SECTOR_WIDTH = 1
    ZONE_WIDTH = 2
    MAP_WIDTH = 4
    VIEW_DISTANCE = 2
    MaxPackets = 3
SPECIFICATION Spec
SYMMETRY PlayerSymmetry
INVARIANTS
    LoginCountIsExact
    SectorsHoldSerialPlayers
    KnownIsSeen
    MutualViewIsNear
    NobodyStays
\* Everybody left, or the process crashed.
CHECK_DEADLOCK FALSE
