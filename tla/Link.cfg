\* The whole link with every failure; the numbers fit one window, and the hard cap
\* is above the window.
SPECIFICATION Spec

CONSTANTS
    N = 2
    InitialCwnd = 2
    MaxCwnd = 2
    MaxInFlight = 2
    Unit = 4
    Window = 1
    Cap = 2

INVARIANTS
    TypeOK
    OrderInv
    DeliveredInOrder
    AckedIsKept
    DrainedMeansDelivered

PROPERTIES
    ChannelSpec

\* a closed or failed endpoint does stop
CHECK_DEADLOCK FALSE
