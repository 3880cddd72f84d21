\* The user of the receiver takes longer than IDLE_TIMEOUT.
SPECIFICATION UnhurriedUserSpec

CONSTANTS
    i1 = i1
    r = r
    First = i1
    Initiators = {i1}
    Responder = r
    NoPeer = none
    Pairs = {1, 2}
    Messages = 1
    Nonces = {"junk"}
    Again = {FALSE}

INVARIANTS
    AnswerCounts

\* The endpoints stop when their dialogue has ended.
CHECK_DEADLOCK FALSE
