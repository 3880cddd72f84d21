\* The sender runs ahead of the window (which the code does not prevent).
SPECIFICATION HealthySpec

CONSTANTS
    N = 3
    InitialCwnd = 2
    MaxCwnd = 2
    MaxInFlight = 2
    Unit = 4
    Window = 1
    Cap = 9

INVARIANTS
    OutOfWindowIsResent

\* a closed or failed endpoint does stop
CHECK_DEADLOCK FALSE
