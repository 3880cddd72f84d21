-------------------------------- MODULE Link --------------------------------
(***************************************************************************)
(* One direction of a FileHopZ connection, end to end: the sending half of *)
(* endpoint A, the receiving half of endpoint B, and the UDP service       *)
(* between them.  B's own HANDSHAKE travels in the other direction, over a *)
(* link of the same kind; here it may reach A once B has answered.         *)
(***************************************************************************)
EXTENDS SendHalf, ReceiveHalf

vars == <<sendVars, receiveVars, netVars>>

\* The type of every variable; the network carries only packets that send_packet
\* has numbered and ACKs of them.
TypeOK ==
    /\ SendTypeOK /\ ReceiveTypeOK
    /\ \A p \in net : p \in [type : {"DATA", "HANDSHAKE"},
                             seq : 0 .. (sequence_counter - 1), body : Nat]
    /\ acks \subseteq 0 .. (sequence_counter - 1)

Init == SendInit /\ ReceiveInit /\ net = {} /\ acks = {}

\* A step of A that needs no datagram.
SenderStep == SendNext /\ UNCHANGED <<receiveVars, acks>>

\* B answers once.  After a restart of A's loops only B's application packets can
\* come; they are 8 bytes long (receiver.cpp:89-97), never the size of a key.
AnswerArrives ==
    /\ phase # "listening"
    /\ handshake_initiator
    /\ connection_encrypted => pc' = "failed"
    /\ UNCHANGED <<receiveVars, acks>>

\* The network hands a datagram over, and may keep it to hand it over again.
DeliverPacket(p) ==
    /\ receive_handshake(p) \/ receive_data(p) \/ reject_data(p)
    /\ net' \in {net, net \ {p}}
    /\ UNCHANGED sendVars

DeliverAck(s) ==
    /\ ack_handler(s)
    /\ acks' \in {acks, acks \ {s}}
    /\ UNCHANGED receiveVars

ReceiverStep ==
    /\ ReceiverFails \/ ReceiverStops
    /\ UNCHANGED <<sendVars, net>>

Lose ==
    /\ LosePacket \/ LoseAck
    /\ UNCHANGED <<sendVars, receiveVars>>

Next ==
    \/ SenderStep
    \/ AnswerArrives
    \/ \E p \in net : DeliverPacket(p)
    \/ \E s \in acks : DeliverAck(s)
    \/ ReceiverStep
    \/ Lose

Spec == Init /\ [][Next]_vars

-----------------------------------------------------------------------------
(* Behaviours with further conditions on every step. *)

\* The packets A may still have to resend lie within one window of the receiver.
\* The code does not ensure it: it limits how many packets are in flight, not how
\* far their numbers are apart.
SenderWithinWindow ==
    \A s \in DOMAIN in_flight :
        in_flight[s].type = "DATA" => sequence_counter - s <= Window

WindowedSpec == Init /\ [][Next /\ SenderWithinWindow']_vars

-----------------------------------------------------------------------------
(* properties *)

\* What receive_chunks_loop hands to the application is the messages in the order
\* of the send calls, without a gap and without a repetition, whatever the network
\* loses, repeats or reorders and whichever endpoint fails.
DeliveredInOrder ==
    /\ Len(delivered) <= Len(sent)
    /\ \A i \in 1 .. Len(delivered) : delivered[i] = i

Channel == INSTANCE FifoChannel WITH accepted <- Len(sent), handed <- delivered

\* The link implements the channel its two applications see.
ChannelSpec == Channel!Spec

\* receive_loop acknowledges before receive_chunks_loop has decided what to do with
\* the packet: a message whose ACK is under way or has arrived must be delivered
\* or waiting in the buffer, for nobody will send it again.
AckedIsKept ==
    phase = "open" =>
        \A s \in (acks \union confirmed) \intersect 1 .. Len(sent) :
            s < expected_sequence \/ s \in DOMAIN packets_buffer

\* When close() learns that everything is drained, B's stream (if it still runs)
\* has handed over every message: an empty in_flight_ on one side says that the
\* reorder buffer of the other is empty.
DrainedMeansDelivered ==
    drained /\ phase = "open" => Len(delivered) = Len(sent)

\* A packet waits in the reorder buffer until it is flushed: the hard cap never
\* throws it away.
BufferedIsFlushed ==
    [][\A s \in DOMAIN packets_buffer :
          s \in DOMAIN packets_buffer' \/ s < expected_sequence']_vars

\* The comment in receive_chunks_loop: a packet outside the window is dropped
\* because the sender will send it again after its timeout.
OutOfWindowIsResent ==
    phase = "open" /\ pc # "closed" =>
        \A s \in received_packets \intersect 1 .. Len(sent) :
            OutOfWindow(s) => s \in DOMAIN in_flight
=============================================================================
