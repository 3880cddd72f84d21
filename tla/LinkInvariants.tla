--------------------------- MODULE LinkInvariants ---------------------------
(***************************************************************************)
(* The inductive invariants behind the safety properties of the link: what *)
(* must hold between any two steps for DeliveredInOrder, ChannelSpec,      *)
(* AckedIsKept and DrainedMeansDelivered to hold in every step.            *)
(***************************************************************************)
EXTENDS Link

-----------------------------------------------------------------------------
(* where the sender is *)

\* Before the first handshake has succeeded nothing was sent, and send_packet is
\* about to give out the number 0, or has done so.
Unencrypted ==
    ~connection_encrypted =>
        /\ sent = << >> /\ ~loops_running
        /\ pc \in {"idle", "send_posted", "blocked", "sending", "handshake", "failed"}
        /\ pc = "idle" =>
              sequence_counter = 0 /\ ~loops_started /\ ~aborting /\ ~stream_error
        /\ pc \in {"send_posted", "blocked", "sending"} => call = "HANDSHAKE"
        /\ pc \in {"send_posted", "blocked"} /\ ~loop_error => sequence_counter = 0
        /\ pc \in {"sending", "handshake"} /\ ~loop_error => sequence_counter = 1

\* The stream's loop runs only over healthy loops of an encrypted transport; a
\* message is sent, and waits for the window, only over them; then the next number
\* is that of the next message.
Running ==
    /\ loops_started => ~loop_error
    /\ loops_running => loops_started /\ connection_encrypted
    /\ pc \in {"send_posted", "blocked", "sending", "handshake"} /\ ~loop_error =>
          loops_started
    /\ pc \in {"blocked", "handshake"} => ~loop_error
    /\ pc \in {"send_posted", "blocked"} /\ call = "DATA" /\ ~loop_error => loops_running
    /\ pc \in {"send_posted", "blocked", "sending"} /\ call = "HANDSHAKE" => ~loops_running
    /\ pc \in {"handshake", "stop_posted", "closed"} => ~loops_running
    /\ pc \in {"idle", "send_posted", "blocked", "sending"} /\ loops_running =>
          sequence_counter = Len(sent) + 1

\* A call of send in progress was admitted by the bound of the model.
Admitted ==
    /\ Len(sent) <= N
    /\ \/ pc \in {"send_posted", "blocked", "handshake"}
       \/ pc = "sending" /\ call = "HANDSHAKE"
       => Len(sent) < N

Control == Unencrypted /\ Running /\ Admitted

-----------------------------------------------------------------------------
(* what the packets carry *)

\* Message i has the sequence number i, and so has every DATA packet that carries it.
Numbering ==
    /\ \A i \in 1 .. Len(sent) : sent[i] = i
    /\ \A p \in net : p.type = "DATA" => p.body = p.seq /\ p.seq \in 1 .. Len(sent)
    /\ \A s \in DOMAIN in_flight :
          in_flight[s].type = "DATA" =>
              in_flight[s].body = s /\ s \in 1 .. Len(sent)

\* receive_chunks_loop has handed over the messages below expected_sequence and
\* buffers messages that were sent.
Stream ==
    /\ Len(delivered) = expected_sequence - 1
    /\ \A i \in 1 .. Len(delivered) : delivered[i] = i
    /\ \A s \in DOMAIN packets_buffer : packets_buffer[s] = s /\ s <= Len(sent)
    /\ expected_sequence <= Len(sent) + 1

\* The inductive invariant behind ordered delivery: control, numbering and stream
\* state of the two endpoints fit together in every state, restarts included.
OrderInv == TypeOK /\ Control /\ Numbering /\ Stream

-----------------------------------------------------------------------------
(* what becomes of a message *)

\* A HANDSHAKE never has the number of a message; no packet is ahead of the counter.
Traffic ==
    /\ Len(sent) > 0 => sequence_counter > Len(sent)
    /\ received_packets \subseteq 0 .. (sequence_counter - 1)
    /\ \A p \in net : p.type = "HANDSHAKE" => p.seq \notin 1 .. Len(sent)
    /\ \A s \in DOMAIN in_flight :
          in_flight[s].type = "HANDSHAKE" => s \notin 1 .. Len(sent)

\* Until its endpoint fails or closes, every message is in flight or acknowledged.
Accounted ==
    pc \notin {"failed", "closed"} =>
        \A i \in 1 .. Len(sent) :
            i \in confirmed \/ (i \in DOMAIN in_flight /\ in_flight[i].type = "DATA")

\* A drain that succeeded has found in_flight_ empty.
DrainHonest ==
    drained => /\ pc \in {"stop_posted", "closed"}
               /\ \A i \in 1 .. Len(sent) : i \in confirmed

\* Until B has taken the HANDSHAKE it has acknowledged nothing.
Silent ==
    phase = "listening" =>
        /\ ~connection_encrypted
        /\ received_packets = {} /\ acks = {} /\ confirmed = {}

\* What B has acknowledged it has received; what it has received it has handed over
\* or buffered; and what A sends stays inside the window.
Kept ==
    phase = "open" =>
        /\ (acks \union confirmed) \intersect 1 .. Len(sent) \subseteq received_packets
        /\ \A s \in received_packets \intersect 1 .. Len(sent) :
              s < expected_sequence \/ s \in DOMAIN packets_buffer
        /\ Len(sent) <= expected_sequence + Window - 1

\* The inductive invariant behind AckedIsKept and DrainedMeansDelivered: an
\* acknowledged message is safe at the receiver as long as A stays inside the window.
KeepInv == OrderInv /\ Traffic /\ Accounted /\ DrainHonest /\ Silent /\ Kept
=============================================================================
