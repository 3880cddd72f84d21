\* Three places, one with a path that is too long for a packet; files that end within a
\* packet and at its boundary; every failure.
SPECIFICATION LiveSpec

CONSTANTS
    Paths <- MCPaths
    NoPath <- MCNoPath
    Above <- MCAbove
    LongPaths <- MCLong
    PacketSize = 2
    MaxSize = 5
    MaxChanges = 0

PROPERTIES
    ReceiverEnds
    FaultlessCompletes

\* both sides do end
CHECK_DEADLOCK FALSE
