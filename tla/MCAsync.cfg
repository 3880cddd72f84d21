\* Three coroutines on one queue of six values, and four on one value.
SPECIFICATION AsyncSpec

CONSTANTS
    c1 = c1
    c2 = c2
    c3 = c3
    c4 = c4
    Consumers = {c1, c2, c3}
    N = 6
    Waiters = {c1, c2, c3, c4}
    Values = {0, 1}

INVARIANTS
    TypeOK
    NobodyWaitsInVain
    NothingLost
    ValueTypeOK
