----------------------------- MODULE ReceiveHalf -----------------------------
(***************************************************************************)
(* The receiving half of the other endpoint: the DATA and HANDSHAKE        *)
(* branches of ProtoHopZ::receive_loop with send_ack, and                  *)
(* ProtoStream::receive_chunks_loop, which puts the packets in order.      *)
(* receive_chunks_loop waits in received_packets_queue_.pop whenever a     *)
(* packet is pushed, and push resumes it inside receive_loop: one packet   *)
(* is acknowledged, checked, buffered and flushed in one action.           *)
(***************************************************************************)
EXTENDS Datagrams, Integers, Sequences

CONSTANTS
    Window,   \* SEQUENCE_WINDOW_SIZE of receive_chunks_loop
    Cap       \* PHZ::MAX_PACKETS_BUFFER

ASSUME ReceiveAssumption == Window \in Nat \ {0} /\ Cap \in Nat \ {0}

VARIABLES
    phase,               \* listening, open, failed (error stored) or stopped (closed)
    received_packets,    \* the sequence numbers pushed to received_packets_queue_
    packets_buffer,      \* seq -> body, the packets waiting for their turn
    expected_sequence,
    delivered            \* history: the bodies pushed to ready_chunks_, in order

streamVars  == <<packets_buffer, expected_sequence, delivered>>
receiveVars == <<phase, received_packets, streamVars>>

\* The type of every variable; what waits is ahead of expected_sequence and
\* inside the window.
ReceiveTypeOK ==
    /\ phase \in {"listening", "open", "failed", "stopped"}
    /\ received_packets \subseteq Nat
    /\ expected_sequence \in Nat \ {0}
    /\ DOMAIN packets_buffer \subseteq
          (expected_sequence + 1) .. (expected_sequence + Window)
    /\ \A s \in DOMAIN packets_buffer : packets_buffer[s] \in Nat
    /\ delivered \in Seq(Nat)

ReceiveInit ==
    /\ phase = "listening"
    /\ received_packets = {}
    /\ packets_buffer = [s \in {} |-> 0]
    /\ expected_sequence = 1
    /\ delivered = << >>

send_ack(s) == acks' = acks \union {s}

\* A HANDSHAKE: the first one is taken by handshake_responder, which answers, and
\* start_loops starts receive_chunks_loop; a later one the loop skips (not DATA).
receive_handshake(p) ==
    /\ phase \in {"listening", "open"} /\ p.type = "HANDSHAKE"
    /\ send_ack(p.seq)
    /\ received_packets' = received_packets \union {p.seq}
    /\ phase' = "open"
    /\ UNCHANGED streamVars

-----------------------------------------------------------------------------
(* ProtoStream::receive_chunks_loop *)

\* Mutant of OutOfWindow: the last number of the window does not belong to it.
OutOfWindow_OffByOne(s) == s >= expected_sequence + Window

OutOfWindow(s) == s > expected_sequence + Window

Discarded(s) == \/ s < expected_sequence
                \/ OutOfWindow(s)
                \/ s \in DOMAIN packets_buffer

\* Everything that has become consecutive leaves the buffer.
Flush(buffer, first) ==
    \E next \in first .. (first + Window + 1) :
        /\ \A s \in first .. (next - 1) : s \in DOMAIN buffer
        /\ next \notin DOMAIN buffer
        /\ expected_sequence' = next
        /\ delivered' = delivered \o [i \in 1 .. (next - first) |-> buffer[first + i - 1]]
        /\ packets_buffer' = Restrict(buffer, DOMAIN buffer \ (first .. (next - 1)))

\* Mutant of HardCapReached: the buffer is reset one entry too early.
HardCapReached_Early == Cardinality(DOMAIN packets_buffer) >= Cap - 1

HardCapReached == Cardinality(DOMAIN packets_buffer) >= Cap

\* Mutant of receive_chunk: packets are handed over as they come.
receive_chunk_Unordered(s, body) ==
    /\ delivered' = Append(delivered, body)
    /\ UNCHANGED <<packets_buffer, expected_sequence>>

\* The hard cap forgets the whole buffer and goes on from the packet at hand.
receive_chunk(s, body) ==
    \/ Discarded(s) /\ UNCHANGED streamVars
    \/ ~Discarded(s) /\ HardCapReached /\ Flush([x \in {s} |-> body], s)
    \/ ~Discarded(s) /\ ~HardCapReached
       /\ Flush(With(packets_buffer, s, body), expected_sequence)

-----------------------------------------------------------------------------
(* ProtoHopZ::receive_loop *)

\* A DATA packet: acknowledged first, then dropped as a duplicate, or handed on.
receive_data(p) ==
    /\ phase = "open" /\ p.type = "DATA"
    /\ send_ack(p.seq)
    /\ \/ /\ p.seq \in received_packets
          /\ UNCHANGED <<received_packets, streamVars>>
       \/ /\ p.seq \notin received_packets
          /\ received_packets' = received_packets \union {p.seq}
          /\ receive_chunk(p.seq, p.body)
    /\ UNCHANGED phase

\* decrypt_data refuses a packet that is already acknowledged: the loop ends with
\* an error, which store_loop_error passes on to the stream.
reject_data(p) ==
    /\ phase = "open" /\ p.type = "DATA"
    /\ p.seq \notin received_packets
    /\ send_ack(p.seq)
    /\ phase' = "failed"
    /\ UNCHANGED <<received_packets, streamVars>>

\* Any other failure of the loops of this endpoint (idle timeout, socket error).
ReceiverFails ==
    /\ phase \in {"listening", "open"}
    /\ phase' = "failed"
    /\ UNCHANGED <<received_packets, streamVars, acks>>

\* ProtoStream::close on this endpoint, up to the end of stop_loops.
ReceiverStops ==
    /\ phase \in {"open", "failed"}
    /\ phase' = "stopped"
    /\ received_packets' = {}
    /\ UNCHANGED <<streamVars, acks>>
=============================================================================
