------------------------------ MODULE LinkTypes ------------------------------
(***************************************************************************)
(* Type correctness of the link, for every value of its constants, and the *)
(* lemmas about its helpers that the other proofs cite.                    *)
(***************************************************************************)
EXTENDS Link, TLAPS

-----------------------------------------------------------------------------
(* helpers *)

\* With adds or replaces one entry of in_flight_ or packets_buffer.
LEMMA WithFacts ==
    ASSUME NEW f, NEW key, NEW value
    PROVE  /\ DOMAIN With(f, key, value) = DOMAIN f \union {key}
           /\ With(f, key, value)[key] = value
           /\ \A x \in DOMAIN f : x # key => With(f, key, value)[x] = f[x]
BY DEF With

\* Without removes one entry of in_flight_.
LEMMA WithoutFacts ==
    ASSUME NEW f, NEW key
    PROVE  /\ DOMAIN Without(f, key) = DOMAIN f \ {key}
           /\ \A x \in DOMAIN f \ {key} : Without(f, key)[x] = f[x]
BY DEF Without, Restrict

\* The window limits are naturals, one packet not above MAX_CWND.
LEMMA UnitFacts ==
    /\ Unit \in Nat /\ Unit >= 1
    /\ MaxCwnd * Unit \in Nat
    /\ Unit <= MaxCwnd * Unit
    /\ InitialCwnd * Unit \in Unit .. (MaxCwnd * Unit)
    /\ 2 * Unit \in Nat
BY SendAssumption

\* ack_handler keeps cwnd_ between one packet and MAX_CWND.
LEMMA GrowRange ==
    ASSUME cwnd \in Unit .. (MaxCwnd * Unit)
    PROVE  Grow(cwnd) \in Unit .. (MaxCwnd * Unit)
<1> DEFINE top == MaxCwnd * Unit
           step == (Unit * Unit) \div cwnd
<1>1. top \in Nat /\ Unit \in Nat /\ Unit >= 1 /\ Unit <= top
  BY UnitFacts
<1>2. cwnd \in Nat /\ cwnd >= 1 /\ cwnd >= Unit /\ cwnd <= top
  BY <1>1
<1>3. Unit * Unit \in Nat
  BY <1>1
<1>4. step \in Nat
  BY <1>2, <1>3
<1> HIDE DEF top, step
<1>5. Grow(cwnd) = MinOf(IF cwnd < ssthresh THEN cwnd + Unit ELSE cwnd + step, top)
  BY DEF Grow, top, step
<1>6. MinOf(IF cwnd < ssthresh THEN cwnd + Unit ELSE cwnd + step, top) \in Unit .. top
  BY <1>1, <1>2, <1>4 DEF MinOf
<1> QED
  BY <1>5, <1>6 DEF top

-----------------------------------------------------------------------------
(* the sending half *)

NetOK == \A p \in net : p \in [type : {"DATA", "HANDSHAKE"},
                              seq : 0 .. (sequence_counter - 1), body : Nat]

USE SendAssumption DEF SendTypeOK, NetOK, appVars, windowVars, timerVars, errorVars, PcStates

\* Register numbers one packet; flight is in_flight_ before it.
LEMMA RegisterType ==
    ASSUME SendTypeOK, NetOK, NEW flight,
           DOMAIN flight \subseteq 0 .. (sequence_counter - 1),
           \A s \in DOMAIN flight :
              flight[s] \in [type : {"DATA", "HANDSHAKE"}, body : Nat, late : BOOLEAN],
           Register(flight)
    PROVE  /\ sequence_counter' = sequence_counter + 1
           /\ current' \in Nat
           /\ pc' \in PcStates
           /\ sent' \in Seq(Nat)
           /\ DOMAIN in_flight' \subseteq 0 .. (sequence_counter' - 1)
           /\ \A s \in DOMAIN in_flight' :
                 in_flight'[s] \in [type : {"DATA", "HANDSHAKE"}, body : Nat, late : BOOLEAN]
           /\ NetOK'
<1> DEFINE body == IF call = "DATA" THEN Len(sent) + 1 ELSE 0
           entry == [type |-> call, body |-> body, late |-> FALSE]
<1>1. /\ sequence_counter' = sequence_counter + 1
      /\ current' = sequence_counter
  BY DEF Register
<1>2. body \in Nat
  OBVIOUS
<1>3. CASE /\ in_flight' = With(flight, sequence_counter, entry)
           /\ Emit(Packet(call, sequence_counter, body))
           /\ sent' = IF call = "DATA" THEN Append(sent, sequence_counter) ELSE sent
           /\ pc' = "sending"
  <2>0. in_flight' = With(flight, sequence_counter, entry)
    BY <1>3
  <2>1. /\ DOMAIN in_flight' = DOMAIN flight \union {sequence_counter}
        /\ in_flight'[sequence_counter] = entry
        /\ \A x \in DOMAIN flight : x # sequence_counter => in_flight'[x] = flight[x]
    <3> HIDE DEF body, entry
    <3> QED
      BY <2>0 DEF With
  <2>2. entry \in [type : {"DATA", "HANDSHAKE"}, body : Nat, late : BOOLEAN]
    BY <1>2
  <2> HIDE DEF body, entry
  <2>3. \A s \in DOMAIN in_flight' :
           in_flight'[s] \in [type : {"DATA", "HANDSHAKE"}, body : Nat, late : BOOLEAN]
    BY <2>1, <2>2
  <2>4. DOMAIN in_flight' \subseteq 0 .. (sequence_counter' - 1)
    BY <1>1, <2>1
  <2>5. NetOK'
    BY <1>1, <1>2, <1>3 DEF Emit, Packet
  <2>6. sent' \in Seq(Nat)
    BY <1>3
  <2> QED
    BY <1>1, <1>3, <2>3, <2>4, <2>5, <2>6
<1>4. CASE /\ in_flight' = flight /\ pc' = "failed" /\ UNCHANGED <<sent, net>>
  BY <1>1, <1>4
<1> QED
  BY <1>3, <1>4 DEF Register

LEMMA SendNextType ==
    ASSUME SendTypeOK, NetOK, SendNext
    PROVE  SendTypeOK' /\ NetOK'
<1>1. CASE send
  BY <1>1 DEF send, start_loops
<1>2. CASE send_packet
  <2>1. CASE Register(in_flight)
    BY <1>2, <2>1, RegisterType DEF send_packet
  <2> QED
    BY <1>2, <2>1 DEF send_packet
<1>3. CASE send_packet_done
  BY <1>3 DEF send_packet_done, Goto
<1>4. CASE send_packet_error
  <2>1. /\ DOMAIN in_flight' = DOMAIN in_flight \ {current}
        /\ \A x \in DOMAIN in_flight' : in_flight'[x] = in_flight[x]
    BY <1>4 DEF send_packet_error, Without, Restrict
  <2> QED
    BY <1>4, <2>1 DEF send_packet_error
<1>5. CASE timeout_loop
  <2>1. ssthresh' \in Nat
    BY <1>5, UnitFacts DEF timeout_loop, MaxOf
  <2>2. cwnd' \in Unit .. (MaxCwnd * Unit)
    BY <1>5, UnitFacts DEF timeout_loop
  <2>3. timed_out' \subseteq 0 .. (sequence_counter - 1)
    BY <1>5 DEF timeout_loop, LatePackets
  <2> QED
    BY <1>5, <2>1, <2>2, <2>3 DEF timeout_loop
<1>6. ASSUME NEW s \in DOMAIN in_flight, Age(s)
      PROVE  SendTypeOK' /\ NetOK'
  BY <1>6 DEF Age
<1>7. ASSUME NEW s \in timed_out, resend_packet(s)
      PROVE  SendTypeOK' /\ NetOK'
  BY <1>7 DEF resend_packet, Emit, Packet
<1>8. ASSUME NEW s \in resending, resend_packet_done(s)
      PROVE  SendTypeOK' /\ NetOK'
  BY <1>8 DEF resend_packet_done
<1>9. ASSUME store_loop_error, aborting' \in BOOLEAN
      PROVE  SendTypeOK' /\ NetOK'
  <2>1. pc' \in PcStates
    BY <1>9 DEF store_loop_error, WakeAll
  <2>2. stream_error' \in BOOLEAN
    BY <1>9 DEF store_loop_error
  <2>3. /\ loop_error' \in BOOLEAN /\ loops_started' \in BOOLEAN
        /\ loops_running' \in BOOLEAN
        /\ timed_out' = {} /\ resending' = {}
        /\ sequence_counter' = sequence_counter + 1
        /\ UNCHANGED <<call, current, sent, drained, windowVars, connection_encrypted,
                       confirmed, net>>
    BY <1>9 DEF store_loop_error
  <2> QED
    BY <1>9, <2>1, <2>2, <2>3
<1>10. CASE IdleTimeout \/ LoopFails
  BY <1>9, <1>10 DEF IdleTimeout, LoopFails
<1>11. CASE handle_loop_result
  BY <1>9, <1>11 DEF handle_loop_result
<1>12. CASE close
  BY <1>12 DEF close, Goto
<1>13. ASSUME NEW result \in BOOLEAN, close_drained(result)
       PROVE  SendTypeOK' /\ NetOK'
  BY <1>13 DEF close_drained
<1>14. CASE wait_in_flight_drained
  BY <1>13, <1>14 DEF wait_in_flight_drained, Goto
<1>15. CASE DrainTimeout
  BY <1>15 DEF DrainTimeout, Goto
<1>16. CASE wait_in_flight_drained_done
  BY <1>13, <1>16 DEF wait_in_flight_drained_done, DrainResult
<1>17. CASE stop_loops
  <2>1. DOMAIN in_flight' = {}
    BY <1>17 DEF stop_loops
  <2>2. /\ pc' \in PcStates
        /\ loops_started' \in BOOLEAN
        /\ timed_out' = {} /\ resending' = {}
        /\ sequence_counter' = sequence_counter + 1
        /\ UNCHANGED <<call, current, sent, drained, cwnd, ssthresh, loop_error,
                       connection_encrypted, loops_running, stream_error, aborting,
                       confirmed, net>>
    BY <1>17 DEF stop_loops
  <2> QED
    BY <2>1, <2>2
<1> QED
  BY <1>1, <1>2, <1>3, <1>4, <1>5, <1>6, <1>7, <1>8, <1>10, <1>11, <1>12, <1>14,
     <1>15, <1>16, <1>17 DEF SendNext

LEMMA HandshakeType ==
    ASSUME SendTypeOK, NetOK, handshake_initiator
    PROVE  SendTypeOK' /\ NetOK'
BY DEF handshake_initiator

LEMMA AckHandlerType ==
    ASSUME SendTypeOK, NetOK, NEW s \in 0 .. (sequence_counter - 1), ack_handler(s)
    PROVE  SendTypeOK' /\ NetOK'
<1> DEFINE left == Without(in_flight, s)
<1>1. CASE s \notin DOMAIN in_flight
  BY <1>1 DEF ack_handler
<1>2. CASE s \in DOMAIN in_flight
  <2>1. /\ DOMAIN left \subseteq 0 .. (sequence_counter - 1)
        /\ \A x \in DOMAIN left :
              left[x] \in [type : {"DATA", "HANDSHAKE"}, body : Nat, late : BOOLEAN]
    BY DEF Without, Restrict
  <2> HIDE DEF left
  <2>2. cwnd' \in Unit .. (MaxCwnd * Unit)
    BY <1>2, GrowRange DEF ack_handler
  <2>3. CASE Register(left)
    <3>1. /\ sequence_counter' = sequence_counter + 1
          /\ current' \in Nat
          /\ pc' \in PcStates
          /\ sent' \in Seq(Nat)
          /\ DOMAIN in_flight' \subseteq 0 .. (sequence_counter' - 1)
          /\ \A x \in DOMAIN in_flight' :
                in_flight'[x] \in [type : {"DATA", "HANDSHAKE"}, body : Nat, late : BOOLEAN]
          /\ NetOK'
      BY <2>1, <2>3, RegisterType
    <3>2. /\ confirmed' = confirmed \union {s}
          /\ UNCHANGED <<call, drained, ssthresh, timerVars, errorVars>>
      BY <1>2 DEF ack_handler
    <3> QED
      BY <2>2, <3>1, <3>2
  <2>4. CASE /\ in_flight' = left
             /\ pc' = IF pc = "draining" /\ DOMAIN left = {} THEN "drain_fired" ELSE pc
             /\ UNCHANGED <<current, sequence_counter, sent, net>>
    BY <1>2, <2>1, <2>2, <2>4 DEF ack_handler
  <2> QED
    BY <1>2, <2>3, <2>4 DEF ack_handler, SignalDrained, left
<1> QED
  BY <1>1, <1>2

-----------------------------------------------------------------------------
(* the receiving half *)

USE ReceiveAssumption DEF ReceiveTypeOK, streamVars

\* Flush hands over a run of buffered packets that starts at first and keeps the
\* rest, all of it beyond the new expected_sequence.
LEMMA FlushType ==
    ASSUME delivered \in Seq(Nat),
           NEW buffer, NEW first \in Nat \ {0},
           DOMAIN buffer \subseteq first .. (first + Window),
           \A s \in DOMAIN buffer : buffer[s] \in Nat,
           Flush(buffer, first)
    PROVE  /\ expected_sequence' \in Nat \ {0}
           /\ DOMAIN packets_buffer' \subseteq
                 (expected_sequence' + 1) .. (expected_sequence' + Window)
           /\ \A s \in DOMAIN packets_buffer' : packets_buffer'[s] \in Nat
           /\ delivered' \in Seq(Nat)
<1>1. PICK next \in first .. (first + Window + 1) :
        /\ \A s \in first .. (next - 1) : s \in DOMAIN buffer
        /\ next \notin DOMAIN buffer
        /\ expected_sequence' = next
        /\ delivered' = delivered \o [i \in 1 .. (next - first) |-> buffer[first + i - 1]]
        /\ packets_buffer' = Restrict(buffer, DOMAIN buffer \ (first .. (next - 1)))
  BY DEF Flush
<1>2. /\ next \in Nat \ {0}
      /\ DOMAIN packets_buffer' = DOMAIN buffer \ (first .. (next - 1))
      /\ \A s \in DOMAIN packets_buffer' : packets_buffer'[s] = buffer[s]
  BY <1>1 DEF Restrict
<1>3. DOMAIN packets_buffer' \subseteq (next + 1) .. (next + Window)
  <2> SUFFICES ASSUME NEW s \in DOMAIN packets_buffer'
               PROVE  s \in (next + 1) .. (next + Window)
    OBVIOUS
  <2>1. s \in DOMAIN buffer /\ s \notin first .. (next - 1)
    BY <1>2
  <2>2. s \in Nat /\ s >= first /\ s <= first + Window /\ s # next
    BY <1>1, <2>1
  <2>3. next \in Nat /\ next >= first
    BY <1>1
  <2> QED
    BY <2>1, <2>2, <2>3
<1>4. [i \in 1 .. (next - first) |-> buffer[first + i - 1]] \in Seq(Nat)
  <2>1. next - first \in Nat
    BY <1>1
  <2>2. \A i \in 1 .. (next - first) : buffer[first + i - 1] \in Nat
    BY <1>1
  <2> QED
    BY <2>1, <2>2
<1>5. delivered' \in Seq(Nat)
  <2> DEFINE run == [i \in 1 .. (next - first) |-> buffer[first + i - 1]]
  <2>1. run \in Seq(Nat) /\ delivered' = delivered \o run
    BY <1>1, <1>4
  <2> HIDE DEF run
  <2> QED
    BY <2>1
<1>6. \A s \in DOMAIN packets_buffer' : packets_buffer'[s] \in Nat
  BY <1>2
<1> QED
  BY <1>1, <1>2, <1>3, <1>5, <1>6

LEMMA ReceiveChunkType ==
    ASSUME ReceiveTypeOK, NEW s \in Nat, NEW body \in Nat, receive_chunk(s, body)
    PROVE  /\ expected_sequence' \in Nat \ {0}
           /\ DOMAIN packets_buffer' \subseteq
                 (expected_sequence' + 1) .. (expected_sequence' + Window)
           /\ \A x \in DOMAIN packets_buffer' : packets_buffer'[x] \in Nat
           /\ delivered' \in Seq(Nat)
<1>1. CASE UNCHANGED streamVars
  BY <1>1
<1>2. CASE ~Discarded(s) /\ Flush([x \in {s} |-> body], s)
  <2>1. s \in Nat \ {0}
    BY <1>2 DEF Discarded
  <2> QED
    BY <1>2, <2>1, FlushType
<1>3. CASE ~Discarded(s) /\ Flush(With(packets_buffer, s, body), expected_sequence)
  <2> DEFINE buffer == With(packets_buffer, s, body)
  <2>1. s \in expected_sequence .. (expected_sequence + Window)
    BY <1>3 DEF Discarded, OutOfWindow
  <2>2. /\ DOMAIN buffer = DOMAIN packets_buffer \union {s}
        /\ \A x \in DOMAIN buffer : buffer[x] \in Nat
    BY DEF With
  <2>3. Flush(buffer, expected_sequence)
    BY <1>3
  <2> HIDE DEF buffer
  <2>4. DOMAIN buffer \subseteq expected_sequence .. (expected_sequence + Window)
    BY <2>1, <2>2
  <2> QED
    BY <2>2, <2>3, <2>4, FlushType
<1> QED
  BY <1>1, <1>2, <1>3 DEF receive_chunk

LEMMA DeliverPacketType ==
    ASSUME TypeOK, NEW p \in net, DeliverPacket(p)
    PROVE  TypeOK'
<1> USE DEF TypeOK
<1>1. p \in [type : {"DATA", "HANDSHAKE"}, seq : 0 .. (sequence_counter - 1), body : Nat]
  OBVIOUS
<1>2. SendTypeOK' /\ NetOK'
  BY DEF DeliverPacket, sendVars
<1>3. acks' \subseteq 0 .. (sequence_counter' - 1)
  <2>1. acks' = acks \union {p.seq}
    BY DEF DeliverPacket, receive_handshake, receive_data, reject_data, send_ack
  <2> QED
    BY <1>1, <2>1 DEF DeliverPacket, sendVars
<1>4. ReceiveTypeOK'
  <2>1. CASE receive_handshake(p)
    <3>1. /\ received_packets' = received_packets \union {p.seq}
          /\ phase' = "open" /\ UNCHANGED streamVars
      BY <2>1 DEF receive_handshake
    <3>2. p.seq \in Nat
      BY <1>1
    <3>3. received_packets' \subseteq Nat
      BY <3>1, <3>2
    <3> QED
      BY <3>1, <3>3
  <2>2. CASE receive_data(p)
    <3>1. CASE UNCHANGED <<received_packets, streamVars>>
      BY <2>2, <3>1 DEF receive_data
    <3>2. CASE receive_chunk(p.seq, p.body)
      <4>1. p.seq \in Nat /\ p.body \in Nat
        BY <1>1
      <4>2. /\ expected_sequence' \in Nat \ {0}
            /\ DOMAIN packets_buffer' \subseteq
                  (expected_sequence' + 1) .. (expected_sequence' + Window)
            /\ \A x \in DOMAIN packets_buffer' : packets_buffer'[x] \in Nat
            /\ delivered' \in Seq(Nat)
        BY <3>2, <4>1, ReceiveChunkType
      <4>3. received_packets' \subseteq Nat
        BY <2>2, <4>1 DEF receive_data
      <4>4. phase' = phase
        BY <2>2 DEF receive_data
      <4> QED
        BY <4>2, <4>3, <4>4
    <3> QED
      BY <2>2, <3>1, <3>2 DEF receive_data
  <2>3. CASE reject_data(p)
    BY <2>3 DEF reject_data
  <2> QED
    BY <2>1, <2>2, <2>3 DEF DeliverPacket
<1> QED
  BY <1>2, <1>3, <1>4

-----------------------------------------------------------------------------
(* the link *)

\* Sequence numbers are never taken back, so what is under way keeps its type.
LEMMA CounterGrows ==
    ASSUME SendTypeOK,
           SendNext \/ handshake_initiator \/ (\E s \in acks : ack_handler(s))
    PROVE  sequence_counter' \in {sequence_counter, sequence_counter + 1}
BY DEF SendNext, send, start_loops, send_packet, Register, send_packet_done, Goto,
       send_packet_error, timeout_loop, Age, resend_packet, resend_packet_done,
       IdleTimeout, LoopFails, store_loop_error, handle_loop_result, close,
       wait_in_flight_drained, close_drained, DrainTimeout, wait_in_flight_drained_done,
       stop_loops, handshake_initiator, ack_handler

LEMMA TypeInit == Init => TypeOK
<1> SUFFICES ASSUME Init
             PROVE  TypeOK
  OBVIOUS
<1>1. SendTypeOK
  <2>1. DOMAIN in_flight = {}
    BY DEF Init, SendInit
  <2>2. cwnd \in Unit .. (MaxCwnd * Unit) /\ ssthresh \in Nat
    BY UnitFacts DEF Init, SendInit
  <2>3. sent \in Seq(Nat)
    BY DEF Init, SendInit
  <2> QED
    BY <2>1, <2>2, <2>3 DEF Init, SendInit
<1>2. ReceiveTypeOK
  <2>1. DOMAIN packets_buffer = {}
    BY DEF Init, ReceiveInit
  <2> QED
    BY <2>1 DEF Init, ReceiveInit
<1> QED
  BY <1>1, <1>2 DEF Init, TypeOK

\* What TypeOK says of the two halves and of the network, step by step.
LEMMA TypeParts ==
    ASSUME NetOK', SendTypeOK', ReceiveTypeOK', acks' \subseteq 0 .. (sequence_counter' - 1)
    PROVE  TypeOK'
BY DEF TypeOK

\* An ACK under way names a number given out, also when the counter has moved.
LEMMA AcksKept ==
    ASSUME SendTypeOK, acks \subseteq 0 .. (sequence_counter - 1), acks' \subseteq acks,
           sequence_counter' \in {sequence_counter, sequence_counter + 1}
    PROVE  acks' \subseteq 0 .. (sequence_counter' - 1)
<1> SUFFICES ASSUME NEW s \in acks'
             PROVE  s \in 0 .. (sequence_counter' - 1)
  OBVIOUS
<1>1. sequence_counter \in Nat
  OBVIOUS
<1>2. s \in 0 .. (sequence_counter - 1)
  OBVIOUS
<1>3. CASE sequence_counter' = sequence_counter
  BY <1>2, <1>3
<1>4. CASE sequence_counter' = sequence_counter + 1
  BY <1>1, <1>2, <1>4
<1> QED
  BY <1>3, <1>4

LEMMA TypeStep == TypeOK /\ [Next]_vars => TypeOK'
<1> SUFFICES ASSUME TypeOK, [Next]_vars
             PROVE  TypeOK'
  OBVIOUS
<1>0. SendTypeOK /\ ReceiveTypeOK /\ NetOK /\ acks \subseteq 0 .. (sequence_counter - 1)
  BY DEF TypeOK
<1>1. CASE SenderStep
  <2>1. SendNext /\ acks' = acks /\ UNCHANGED receiveVars
    BY <1>1 DEF SenderStep
  <2>2. ReceiveTypeOK'
    BY <1>0, <2>1 DEF receiveVars
  <2>3. acks' \subseteq 0 .. (sequence_counter' - 1)
    BY <1>0, <2>1, CounterGrows, AcksKept
  <2> QED
    BY <1>0, <2>1, <2>2, <2>3, SendNextType, TypeParts
<1>2. CASE AnswerArrives
  <2>1. handshake_initiator /\ acks' = acks /\ UNCHANGED receiveVars
    BY <1>2 DEF AnswerArrives
  <2>2. ReceiveTypeOK'
    BY <1>0, <2>1 DEF receiveVars
  <2>3. acks' \subseteq 0 .. (sequence_counter' - 1)
    BY <1>0, <2>1, CounterGrows, AcksKept
  <2> QED
    BY <1>0, <2>1, <2>2, <2>3, HandshakeType, TypeParts
<1>3. ASSUME NEW p \in net, DeliverPacket(p)
      PROVE  TypeOK'
  BY <1>3, DeliverPacketType
<1>4. ASSUME NEW s \in acks, DeliverAck(s)
      PROVE  TypeOK'
  <2>1. ack_handler(s) /\ acks' \subseteq acks /\ UNCHANGED receiveVars
    BY <1>4 DEF DeliverAck
  <2>2. ReceiveTypeOK'
    BY <1>0, <2>1 DEF receiveVars
  <2>3. acks' \subseteq 0 .. (sequence_counter' - 1)
    BY <1>0, <2>1, CounterGrows, AcksKept
  <2>4. s \in 0 .. (sequence_counter - 1)
    BY <1>0
  <2> QED
    BY <1>0, <2>1, <2>2, <2>3, <2>4, AckHandlerType, TypeParts
<1>5. CASE ReceiverStep
  <2>1. /\ UNCHANGED sendVars /\ net' = net /\ UNCHANGED streamVars
        /\ phase' \in {"failed", "stopped"}
        /\ received_packets' \in {received_packets, {}}
    BY <1>5 DEF ReceiverStep, ReceiverFails, ReceiverStops
  <2>3. SendTypeOK' /\ NetOK'
    BY <1>0, <2>1 DEF sendVars
  <2>4. received_packets' \subseteq Nat
    BY <1>0, <2>1
  <2>5. ReceiveTypeOK'
    BY <1>0, <2>1, <2>4
  <2>2. acks' = acks /\ sequence_counter' = sequence_counter
    BY <1>5 DEF ReceiverStep, ReceiverFails, ReceiverStops, sendVars
  <2> QED
    BY <1>0, <2>2, <2>3, <2>5, TypeParts
<1>6. CASE Lose
  <2>1. UNCHANGED sendVars /\ UNCHANGED receiveVars /\ net' \subseteq net /\ acks' \subseteq acks
    BY <1>6 DEF Lose, LosePacket, LoseAck
  <2>2. SendTypeOK' /\ sequence_counter' = sequence_counter
    BY <1>0, <2>1 DEF sendVars
  <2>3. ReceiveTypeOK'
    BY <1>0, <2>1 DEF receiveVars
  <2>4. NetOK'
    BY <1>0, <2>1, <2>2
  <2> QED
    BY <1>0, <2>1, <2>2, <2>3, <2>4, TypeParts
<1>7. CASE UNCHANGED vars
  <2>1. UNCHANGED sendVars /\ UNCHANGED receiveVars /\ UNCHANGED netVars
    BY <1>7 DEF vars
  <2>2. SendTypeOK' /\ sequence_counter' = sequence_counter
    BY <1>0, <2>1 DEF sendVars
  <2> QED
    BY <1>0, <2>1, <2>2, TypeParts DEF receiveVars, netVars
<1> QED
  BY <1>1, <1>2, <1>3, <1>4, <1>5, <1>6, <1>7 DEF Next

\* Every variable keeps its type in every behaviour of the link, for every number
\* of messages, window and limit: in particular cwnd_ stays between one packet and
\* MAX_CWND, and the reorder buffer stays ahead of expected_sequence and inside
\* the window.
THEOREM TypeCorrect == Spec => []TypeOK
BY TypeInit, TypeStep, PTL DEF Spec
=============================================================================
