\* One sender with every fault and a restart of its loops between its messages, or two
\* senders that write to the port of one receiver; the network keeps everything.
SPECIFICATION KeepingSpec

CONSTANTS
    i1 = i1
    i2 = i2
    r = r
    First = i1
    Initiators = {i1, i2}
    Responder = r
    NoPeer = none
    Pairs = {1, 2, 3}
    Messages = 2
    Nonces = {"junk", "lucky"}
    Again = {TRUE}

INVARIANTS
    TypeOK
    Decryptable
    ConsentFirst

\* The endpoints stop when their dialogue has ended.
CHECK_DEADLOCK FALSE
