\* Two players in the view of each other on the two sides of a zone's border.
CONSTANTS
    Players = {p1, p2}
    Positions = {3, 4, 7}
    SECTOR_WIDTH = 1
    ZONE_WIDTH = 4
    MAP_WIDTH = 8
    VIEW_DISTANCE = 2
    MaxPackets = 3
SPECIFICATION Spec
SYMMETRY PlayerSymmetry
INVARIANT SectorsHoldTheirPlayers
CHECK_DEADLOCK FALSE
