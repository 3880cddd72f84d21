----------------------------- MODULE MCSendHalf -----------------------------
(***************************************************************************)
(* The sending half alone, against the most liberal peer: any sequence     *)
(* number given out so far may be acknowledged at any time, or never.      *)
(***************************************************************************)
EXTENDS SendHalf

MCInit == SendInit /\ net = {} /\ acks = {}

MCNext ==
    /\ \/ SendNext
       \/ handshake_initiator
       \/ \E s \in 0 .. (sequence_counter - 1) : ack_handler(s)
    /\ UNCHANGED acks

MCSpec == MCInit /\ [][MCNext]_<<sendVars, netVars>>

Alone(action) == action /\ UNCHANGED acks

\* The strand runs what is posted to it, the close timer expires, and a peer that leaves
\* a send blocked is sooner or later not heard for IDLE_TIMEOUT; nothing else is asked of
\* the network or of the peer.
MCFairSpec ==
    /\ MCSpec
    /\ WF_<<sendVars, netVars>>(Alone(wait_in_flight_drained))
    /\ WF_<<sendVars, netVars>>(Alone(DrainTimeout))
    /\ WF_<<sendVars, netVars>>(Alone(wait_in_flight_drained_done))
    /\ WF_<<sendVars, netVars>>(Alone(stop_loops))
    /\ WF_<<sendVars, netVars>>(pc = "blocked" /\ Alone(IdleTimeout))

\* A close() that has begun ends, even if the peer is dead or acknowledges too little for
\* ever: the drain has a timer and every wake-up of the drain leads on to stop_loops.
CloseReturns == pc = "drain_posted" ~> pc = "closed"

\* A send_packet that waits for the window returns, even when no ACK will ever come: the
\* error of the loop wakes it.
BlockedSendReturns == pc = "blocked" ~> pc # "blocked"
=============================================================================
