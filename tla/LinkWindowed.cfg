\* Healthy endpoints, more messages than the window holds, a sender that never
\* spans more than the window, and the hard cap of the source (equal to the window).
SPECIFICATION HealthyWindowedSpec

CONSTANTS
    N = 3
    InitialCwnd = 2
    MaxCwnd = 2
    MaxInFlight = 2
    Unit = 4
    Window = 2
    Cap = 2

INVARIANTS
    KeepInv
    DeliveredInOrder
    AckedIsKept
    DrainedMeansDelivered

PROPERTIES
    BufferedIsFlushed

\* a closed or failed endpoint does stop
CHECK_DEADLOCK FALSE
