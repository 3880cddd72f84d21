------------------------------- MODULE MCLink -------------------------------
(***************************************************************************)
(* The link under further conditions (healthy endpoints, a sender that     *)
(* stays within the window) and under fairness.                            *)
(***************************************************************************)
EXTENDS LinkInvariants

\* Neither endpoint fails and B does not stop.
Healthy == /\ pc # "failed" /\ ~loop_error
           /\ phase \in {"listening", "open"}

HealthySpec == Init /\ [][Next /\ Healthy']_vars

HealthyWindowedSpec == Init /\ [][Next /\ Healthy' /\ SenderWithinWindow']_vars

-----------------------------------------------------------------------------
(* Fairness.  Posted handlers run, asynchronous sends complete, timers expire. *)

OnA(action) == action /\ UNCHANGED <<receiveVars, acks>>

SenderFairness ==
    /\ WF_vars(OnA(send_packet)) /\ WF_vars(OnA(send_packet_done \/ send_packet_error))
    /\ WF_vars(OnA(timeout_loop))
    /\ \A s \in 0 .. N : WF_vars(OnA(Age(s)))
    /\ WF_vars(OnA(\E s \in timed_out : resend_packet(s)))
    /\ WF_vars(OnA(\E s \in resending : resend_packet_done(s)))

\* What is sent again and again gets through (a fair-lossy network), and B's
\* HANDSHAKE does.
NetworkFairness ==
    /\ \A s \in 0 .. N :
          SF_vars(\E p \in net : p.seq = s /\ DeliverPacket(p) /\ net' = net \ {p})
    /\ \A s \in 0 .. N : SF_vars(DeliverAck(s) /\ s \in acks /\ acks' = acks \ {s})
    /\ WF_vars(AnswerArrives)

LiveSpec == HealthySpec /\ SenderFairness /\ NetworkFairness

-----------------------------------------------------------------------------

\* Every message that send() took is delivered in the end, however often packets
\* and ACKs are lost, unless A's close() gives up first.
EveryMessageDelivered ==
    \A i \in 1 .. N : Len(sent) >= i ~> Len(delivered) >= i \/ pc = "closed"

\* A send_packet that waits for the window returns: ACK after ACK makes room for it.
BlockedSendReturns == pc = "blocked" ~> pc \in {"idle", "failed"}
=============================================================================
