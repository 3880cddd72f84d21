\* Healthy endpoints and a fair-lossy network.
SPECIFICATION LiveSpec

CONSTANTS
    N = 2
    InitialCwnd = 1
    MaxCwnd = 2
    MaxInFlight = 2
    Unit = 4
    Window = 1
    Cap = 2

PROPERTIES
    EveryMessageDelivered
    BlockedSendReturns

\* a closed or failed endpoint does stop
CHECK_DEADLOCK FALSE
