\* One sender.  Nothing fails but the network; or one of the two processes is ended, the
\* peer falls silent, the user does not answer.  Ciphertext that is not opened would be
\* taken for a packet.
SPECIFICATION LiveSpec

CONSTANTS
    i1 = i1
    r = r
    First = i1
    Initiators = {i1}
    Responder = r
    NoPeer = none
    Pairs = {1, 2}
    Messages = 1
    Nonces = {"lucky"}
    Again = {FALSE}

INVARIANTS
    HandedIsPlain

PROPERTIES
    DialogueCompletes
    ConnectedEnds

\* The endpoints stop when their dialogue has ended.
CHECK_DEADLOCK FALSE
