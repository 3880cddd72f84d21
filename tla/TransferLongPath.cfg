\* Two places for files, one of which has a path that is too long for a packet.
SPECIFICATION AnySpec

CONSTANTS
    Paths <- MCPaths
    NoPath <- MCNoPath
    Above <- MCAbove
    LongPaths <- MCLong
    PacketSize = 1
    MaxSize = 1
    MaxChanges = 0

INVARIANTS
    CommittedIsOverlay

\* both sides do end
CHECK_DEADLOCK FALSE
