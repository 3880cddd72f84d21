\* The sending half against a peer that may acknowledge anything, and may be dead.
SPECIFICATION MCFairSpec

CONSTANTS
    N = 3
    InitialCwnd = 2
    MaxCwnd = 3
    MaxInFlight = 2
    Unit = 4

INVARIANTS
    SendTypeOK
    BlockedMeansFull
    DrainMeansWaiting
    DrainedMeansConfirmed
    InFlightBounded

PROPERTIES
    KeptUntilConfirmed
    CloseReturns
    BlockedSendReturns

\* a closed or failed endpoint does stop
CHECK_DEADLOCK FALSE
