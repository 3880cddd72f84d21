\* Every tree of three places, before and after, every failure, one change of the source.
SPECIFICATION AnySpec

CONSTANTS
    Paths <- MCPaths
    NoPath <- MCNoPath
    Above <- MCAbove
    LongPaths = {}
    PacketSize = 1
    MaxSize = 1
    MaxChanges = 1

INVARIANTS
    TypeOK
    CommittedIsOverlay
    AnnouncedIsSent
    TransferredIsSource

PROPERTIES
    OverlaySpec

\* both sides do end
CHECK_DEADLOCK FALSE
