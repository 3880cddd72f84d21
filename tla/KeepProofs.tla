----------------------------- MODULE KeepProofs -----------------------------
(***************************************************************************)
(* What becomes of a message, for every value of the constants: as long as *)
(* A's numbers stay inside the window, an acknowledged message is safe at  *)
(* B, the hard cap never fires, and a successful drain means delivery.     *)
(***************************************************************************)
EXTENDS LinkProofs

USE SendAssumption, ReceiveAssumption
    DEF SendTypeOK, ReceiveTypeOK, PcStates, appVars, windowVars, timerVars, errorVars, streamVars

-----------------------------------------------------------------------------
(* Every step, seen from A, either registers a packet or is quiet. *)

\* Only an ACK confirms a packet.
Confirms == confirmed \subseteq confirmed' /\ confirmed' \subseteq confirmed \union acks

\* Whatever leaves in_flight_ is confirmed, unless the endpoint fails or closes.
Retains == \/ pc' \in {"failed", "closed"}
           \/ DOMAIN in_flight \subseteq DOMAIN in_flight' \union confirmed'

\* A step in which send_packet takes the next number for its packet.
Registers ==
    /\ pc \in {"send_posted", "blocked"} /\ ~loop_error /\ pc' = "sending"
    /\ sequence_counter' = sequence_counter + 1
    /\ sent' = IF call = "DATA" THEN Append(sent, sequence_counter) ELSE sent
    /\ sequence_counter \in DOMAIN in_flight' /\ in_flight'[sequence_counter].type = call
    /\ \A s \in DOMAIN in_flight' \ {sequence_counter} :
          s \in DOMAIN in_flight /\ in_flight'[s].type = in_flight[s].type
    /\ \A p \in net' : p \in net \/ (p.seq = sequence_counter /\ p.type = call)
    /\ Retains /\ Confirms
    /\ UNCHANGED <<drained, connection_encrypted, receiveVars>> /\ acks' \subseteq acks

\* A step that gives out no number to a packet, and may end a drain.
Quiet ==
    /\ sequence_counter' \in {sequence_counter, sequence_counter + 1}
    /\ sent' = sent
    /\ \A s \in DOMAIN in_flight' :
          s \in DOMAIN in_flight /\ in_flight'[s].type = in_flight[s].type
    /\ \A p \in net' : \/ p \in net
                       \/ p.seq \in DOMAIN in_flight /\ p.type = in_flight[p.seq].type
    /\ Retains /\ Confirms
    /\ pc \in {"failed", "closed"} => pc' = pc
    /\ \/ drained' = drained /\ (pc = "stop_posted" => pc' \in {"stop_posted", "closed"})
       \/ pc \notin {"failed", "closed"} /\ pc' = "stop_posted"
          /\ (drained' => DOMAIN in_flight = {})
    /\ phase = "listening" => connection_encrypted' = connection_encrypted

\* Register over flight, which is in_flight_ without what has just been confirmed.
LEMMA RegisterKinds ==
    ASSUME SendTypeOK, NEW flight, Register(flight),
           pc \in {"send_posted", "blocked"}, ~loop_error,
           DOMAIN flight \subseteq DOMAIN in_flight,
           DOMAIN in_flight \subseteq DOMAIN flight \union confirmed',
           \A s \in DOMAIN flight : flight[s] = in_flight[s],
           Confirms, acks' \subseteq acks,
           UNCHANGED <<drained, connection_encrypted, receiveVars>>
    PROVE  Registers \/ Quiet
<1> DEFINE body == IF call = "DATA" THEN Len(sent) + 1 ELSE 0
           entry == [type |-> call, body |-> body, late |-> FALSE]
           packet == Packet(call, sequence_counter, body)
<1>1. CASE /\ in_flight' = With(flight, sequence_counter, entry)
           /\ net' = net \union {packet}
           /\ sent' = IF call = "DATA" THEN Append(sent, sequence_counter) ELSE sent
           /\ pc' = "sending"
           /\ sequence_counter' = sequence_counter + 1
  <2>1. entry.type = call /\ packet.type = call /\ packet.seq = sequence_counter
    BY DEF Packet
  <2> HIDE DEF entry, packet
  <2>2. /\ DOMAIN in_flight' = DOMAIN flight \union {sequence_counter}
        /\ in_flight'[sequence_counter] = entry
        /\ \A x \in DOMAIN flight : x # sequence_counter => in_flight'[x] = flight[x]
    BY <1>1 DEF With
  <2>3. Retains
    BY <2>2 DEF Retains
  <2>4. \A p \in net' : p \in net \/ (p.seq = sequence_counter /\ p.type = call)
    BY <1>1, <2>1
  <2>5. \A s \in DOMAIN in_flight' \ {sequence_counter} :
           s \in DOMAIN in_flight /\ in_flight'[s].type = in_flight[s].type
    BY <2>2
  <2> QED
    BY <1>1, <2>1, <2>2, <2>3, <2>4, <2>5 DEF Registers
<1>2. CASE in_flight' = flight /\ pc' = "failed" /\ UNCHANGED <<sent, net>>
           /\ sequence_counter' = sequence_counter + 1
  BY <1>2 DEF Quiet, Retains
<1> QED
  BY <1>1, <1>2 DEF Register, Emit

LEMMA SendNextKinds ==
    ASSUME SendTypeOK, Control, SendNext, UNCHANGED <<receiveVars, acks>>
    PROVE  Registers \/ Quiet
<1>1. CASE Register(in_flight) /\ pc = "send_posted" /\ ~loop_error
           /\ UNCHANGED <<drained, connection_encrypted, confirmed>>
  BY <1>1, RegisterKinds DEF Confirms
<1>2. CASE /\ UNCHANGED <<sent, net, in_flight, confirmed, connection_encrypted, drained>>
           /\ sequence_counter' \in {sequence_counter, sequence_counter + 1}
           /\ pc \in {"failed", "closed", "stop_posted"} => pc' = pc
  BY <1>2 DEF Quiet, Retains, Confirms
<1>3. CASE send_packet_error
  <2>1. DOMAIN in_flight' \subseteq DOMAIN in_flight
        /\ \A s \in DOMAIN in_flight' : in_flight'[s] = in_flight[s]
    BY <1>3 DEF send_packet_error, Without, Restrict
  <2> QED
    BY <1>3, <2>1 DEF send_packet_error, Quiet, Retains, Confirms
<1>4. ASSUME NEW s \in DOMAIN in_flight, Age(s)
      PROVE  Quiet
  BY <1>4 DEF Age, Quiet, Retains, Confirms
<1>5. ASSUME NEW s \in timed_out, resend_packet(s)
      PROVE  Quiet
  BY <1>5 DEF resend_packet, Emit, Packet, Quiet, Retains, Confirms
<1>6. ASSUME NEW s \in resending, resend_packet_done(s)
      PROVE  Quiet
  BY <1>6 DEF resend_packet_done, Quiet, Retains, Confirms
<1>7. CASE stop_loops
  <2>1. DOMAIN in_flight' = {}
    BY <1>7 DEF stop_loops
  <2> QED
    BY <1>7, <2>1 DEF stop_loops, Quiet, Retains, Confirms
<1>8. ASSUME NEW result \in BOOLEAN, close_drained(result),
             pc \in {"drain_posted", "drain_fired"}, result => DOMAIN in_flight = {}
      PROVE  Quiet
  BY <1>8 DEF close_drained, Quiet, Retains, Confirms
<1>9. CASE wait_in_flight_drained
  <2>1. CASE Goto("draining")
    BY <1>2, <1>9, <2>1 DEF Goto, wait_in_flight_drained
  <2> QED
    BY <1>8, <1>9, <2>1 DEF wait_in_flight_drained
<1>10. CASE wait_in_flight_drained_done
  BY <1>8, <1>10 DEF wait_in_flight_drained_done, DrainResult
<1>11. CASE store_loop_error
  BY <1>2, <1>11 DEF store_loop_error, WakeAll
<1>12. CASE send \/ send_packet_done \/ timeout_loop \/ close \/ DrainTimeout
  BY <1>2, <1>12 DEF send, start_loops, send_packet_done, timeout_loop, close, DrainTimeout, Goto
<1>13. CASE IdleTimeout \/ LoopFails \/ handle_loop_result
  BY <1>2, <1>11, <1>13 DEF IdleTimeout, LoopFails, handle_loop_result
<1>14. CASE send_packet
  BY <1>1, <1>2, <1>14 DEF send_packet
<1> QED
  BY <1>3, <1>4, <1>5, <1>6, <1>7, <1>9, <1>10, <1>12, <1>13, <1>14 DEF SendNext

LEMMA AckKinds ==
    ASSUME SendTypeOK, Control, NEW s \in acks, DeliverAck(s)
    PROVE  Registers \/ Quiet
<1> DEFINE left == Without(in_flight, s)
<1>1. /\ DOMAIN left = DOMAIN in_flight \ {s}
      /\ \A x \in DOMAIN left : left[x] = in_flight[x]
  BY DEF Without, Restrict
<1>2. ack_handler(s) /\ acks' \subseteq acks /\ UNCHANGED <<receiveVars, errorVars>>
  BY DEF DeliverAck, ack_handler
<1> HIDE DEF left
<1>3. CASE Register(left) /\ pc = "blocked" /\ confirmed' = confirmed \union {s}
           /\ drained' = drained
  <2>1. ~loop_error
    BY <1>3 DEF Control, Running
  <2>2. Confirms
    BY <1>3 DEF Confirms
  <2> QED
    BY <1>1, <1>2, <1>3, <2>1, <2>2, RegisterKinds
<1>4. CASE in_flight' = left /\ confirmed' = confirmed \union {s} /\ pc' = SignalDrained(left)
           /\ UNCHANGED <<sequence_counter, sent, net, drained>>
  BY <1>1, <1>2, <1>4 DEF Quiet, Retains, Confirms, SignalDrained
<1>5. CASE UNCHANGED <<appVars, windowVars, confirmed, net>>
  BY <1>2, <1>5 DEF Quiet, Retains, Confirms
<1> QED
  BY <1>2, <1>3, <1>4, <1>5 DEF ack_handler, Resumes, left

LEMMA NextKinds ==
    ASSUME TypeOK, Control, [Next]_vars
    PROVE  Registers \/ Quiet
<1>0. SendTypeOK
  BY DEF TypeOK
<1>1. CASE SenderStep
  BY <1>0, <1>1, SendNextKinds DEF SenderStep
<1>2. CASE AnswerArrives
  BY <1>2 DEF AnswerArrives, handshake_initiator, Quiet, Retains, Confirms
<1>3. CASE UNCHANGED sendVars /\ net' \subseteq net
  BY <1>3 DEF sendVars, Quiet, Retains, Confirms
<1>4. ASSUME NEW s \in acks, DeliverAck(s)
      PROVE  Registers \/ Quiet
  BY <1>0, <1>4, AckKinds
<1> QED
  BY <1>1, <1>2, <1>3, <1>4
     DEF Next, DeliverPacket, ReceiverStep, Lose, LosePacket, LoseAck, vars, netVars

-----------------------------------------------------------------------------
(* Traffic *)

\* B only receives what is on the network.
LEMMA ReceivedKnown ==
    ASSUME [Next]_vars, NEW s \in received_packets', s \notin received_packets
    PROVE  \E p \in net : p.seq = s
BY DEF Next, SenderStep, AnswerArrives, DeliverPacket, DeliverAck, ReceiverStep, Lose, vars,
       receiveVars, receive_handshake, receive_data, reject_data, ReceiverFails, ReceiverStops

LEMMA TrafficStep ==
    ASSUME TypeOK, Control, Traffic, [Next]_vars
    PROVE  Traffic'
<1>0. /\ SendTypeOK
      /\ \A p \in net : p.seq \in 0 .. (sequence_counter - 1)
  BY DEF TypeOK
<1>1. Len(sent) \in Nat /\ sequence_counter \in Nat
  BY <1>0
<1>2. CASE Registers
  <2>0. sequence_counter' = sequence_counter + 1
    BY <1>2 DEF Registers
  <2>1. received_packets' \subseteq 0 .. (sequence_counter' - 1)
    BY <1>1, <1>2, <2>0 DEF Registers, Traffic, receiveVars
  <2>2. CASE call = "DATA"
    <3>1. sequence_counter = Len(sent) + 1
      BY <1>2, <2>2 DEF Registers, Control, Running
    <3>2. Len(sent') = Len(sent) + 1
      BY <1>0, <1>2, <2>2 DEF Registers
    <3>3. \A p \in net' : p.type = "HANDSHAKE" => p.seq \notin 1 .. Len(sent')
      <4> SUFFICES ASSUME NEW p \in net', p.type = "HANDSHAKE"
                   PROVE  p.seq \notin 1 .. (Len(sent) + 1)
        BY <3>2
      <4>1. p \in net
        BY <1>2, <2>2 DEF Registers
      <4>2. p.seq \in 0 .. Len(sent) /\ p.seq \notin 1 .. Len(sent)
        BY <1>0, <3>1, <4>1 DEF Traffic
      <4> QED
        BY <1>1, <4>2
    <3>4. \A s \in DOMAIN in_flight' :
             in_flight'[s].type = "HANDSHAKE" => s \notin 1 .. Len(sent')
      <4> SUFFICES ASSUME NEW s \in DOMAIN in_flight', in_flight'[s].type = "HANDSHAKE"
                   PROVE  s \notin 1 .. (Len(sent) + 1)
        BY <3>2
      <4>1. s \in DOMAIN in_flight /\ in_flight[s].type = "HANDSHAKE"
        BY <1>2, <2>2 DEF Registers
      <4>2. s \in 0 .. Len(sent) /\ s \notin 1 .. Len(sent)
        BY <1>0, <3>1, <4>1 DEF Traffic
      <4> QED
        BY <1>1, <4>2
    <3> QED
      BY <1>1, <2>0, <2>1, <3>1, <3>2, <3>3, <3>4 DEF Traffic
  <2>3. CASE call = "HANDSHAKE"
    <3>1. sent' = sent
      BY <1>2, <2>3 DEF Registers
    <3>2. sequence_counter \notin 1 .. Len(sent)
      BY <1>1 DEF Traffic
    <3>3. \A p \in net' : p.type = "HANDSHAKE" => p.seq \notin 1 .. Len(sent')
      BY <1>2, <3>1, <3>2 DEF Registers, Traffic
    <3>4. \A s \in DOMAIN in_flight' :
             in_flight'[s].type = "HANDSHAKE" => s \notin 1 .. Len(sent')
      BY <1>2, <3>1, <3>2 DEF Registers, Traffic
    <3>5. Len(sent') > 0 => sequence_counter' > Len(sent')
      BY <1>1, <2>0, <3>1 DEF Traffic
    <3> QED
      BY <2>1, <3>3, <3>4, <3>5 DEF Traffic
  <2> QED
    BY <1>0, <2>2, <2>3
<1>3. CASE Quiet
  <2>1. sent' = sent /\ sequence_counter' \in Nat /\ sequence_counter' >= sequence_counter
    BY <1>1, <1>3 DEF Quiet
  <2>2. received_packets' \subseteq 0 .. (sequence_counter' - 1)
    <3> SUFFICES ASSUME NEW s \in received_packets'
                 PROVE  s \in 0 .. (sequence_counter' - 1)
      OBVIOUS
    <3>1. s \in 0 .. (sequence_counter - 1)
      <4>1. CASE s \in received_packets
        BY <4>1 DEF Traffic
      <4>2. CASE s \notin received_packets
        BY <1>0, <4>2, ReceivedKnown
      <4> QED
        BY <4>1, <4>2
    <3>2. PICK after \in Nat : after = sequence_counter'
      BY <2>1
    <3>3. after >= sequence_counter
      BY <2>1, <3>2
    <3>4. s \in 0 .. (after - 1)
      BY <1>1, <3>1, <3>3
    <3> QED
      BY <3>2, <3>4
  <2>3. /\ \A p \in net' : p.type = "HANDSHAKE" => p.seq \notin 1 .. Len(sent')
        /\ \A s \in DOMAIN in_flight' :
              in_flight'[s].type = "HANDSHAKE" => s \notin 1 .. Len(sent')
    BY <1>3, <2>1 DEF Quiet, Traffic
  <2>4. Len(sent') > 0 => sequence_counter' > Len(sent')
    BY <1>1, <2>1 DEF Traffic
  <2> QED
    BY <2>2, <2>3, <2>4 DEF Traffic
<1> QED
  BY <1>2, <1>3, NextKinds

-----------------------------------------------------------------------------
(* what A knows of its messages *)

\* A message leaves in_flight_ only when it is confirmed.
LEMMA AccountedStep ==
    ASSUME TypeOK, Control, Accounted, [Next]_vars
    PROVE  Accounted'
<1>0. SendTypeOK
  BY DEF TypeOK
<1>1. SUFFICES ASSUME pc' \notin {"failed", "closed"}, NEW i \in 1 .. Len(sent')
               PROVE  i \in confirmed' \/ (i \in DOMAIN in_flight' /\ in_flight'[i].type = "DATA")
  BY DEF Accounted
<1>2. CASE Registers
  <2>1. Retains /\ Confirms /\ pc \notin {"failed", "closed"}
    BY <1>2 DEF Registers
  <2>2. CASE i \in 1 .. Len(sent)
    <3>1. i \in confirmed \/ (i \in DOMAIN in_flight /\ in_flight[i].type = "DATA")
      BY <2>1, <2>2 DEF Accounted
    <3>2. CASE i \in DOMAIN in_flight'
      <4>1. i # sequence_counter
        BY <1>0, <2>1, <2>2, <3>1
      <4> QED
        BY <1>2, <2>1, <3>1, <3>2, <4>1 DEF Registers, Confirms
    <3> QED
      BY <1>1, <2>1, <3>1, <3>2 DEF Retains, Confirms
  <2>3. CASE i \notin 1 .. Len(sent)
    <3>1. call = "DATA"
      BY <1>0, <1>2, <2>3 DEF Registers
    <3>2. sequence_counter = Len(sent) + 1
      BY <1>2, <3>1 DEF Registers, Control, Running
    <3>3. Len(sent') = Len(sent) + 1
      BY <1>0, <1>2, <3>1 DEF Registers
    <3>4. i = sequence_counter
      BY <1>0, <2>3, <3>2, <3>3
    <3> QED
      BY <1>2, <3>1, <3>4 DEF Registers
  <2> QED
    BY <2>2, <2>3
<1>3. CASE Quiet
  <2>1. sent' = sent /\ Retains /\ Confirms /\ pc \notin {"failed", "closed"}
    BY <1>1, <1>3 DEF Quiet
  <2>2. i \in confirmed \/ (i \in DOMAIN in_flight /\ in_flight[i].type = "DATA")
    BY <2>1 DEF Accounted
  <2> QED
    BY <1>1, <1>3, <2>1, <2>2 DEF Quiet, Retains, Confirms
<1> QED
  BY <1>2, <1>3, NextKinds

\* A drain that ends with an empty in_flight_ ends with every message confirmed.
LEMMA DrainHonestStep ==
    ASSUME TypeOK, Control, Accounted, DrainHonest, [Next]_vars
    PROVE  DrainHonest'
<1>1. SUFFICES ASSUME drained'
               PROVE  /\ pc' \in {"stop_posted", "closed"}
                      /\ \A i \in 1 .. Len(sent') : i \in confirmed'
  BY DEF DrainHonest
<1>2. ~Registers
  BY <1>1 DEF Registers, DrainHonest
<1>3. Quiet
  BY <1>2, NextKinds
<1>4. sent' = sent /\ confirmed \subseteq confirmed'
  BY <1>3 DEF Quiet, Confirms
<1>5. CASE drained' = drained /\ (pc = "stop_posted" => pc' \in {"stop_posted", "closed"})
  BY <1>1, <1>3, <1>4, <1>5 DEF DrainHonest, Quiet
<1>6. CASE pc \notin {"failed", "closed"} /\ pc' = "stop_posted" /\ DOMAIN in_flight = {}
  BY <1>4, <1>6 DEF Accounted
<1> QED
  BY <1>1, <1>3, <1>5, <1>6 DEF Quiet

\* Nothing is acknowledged before B has taken a HANDSHAKE.
LEMMA SilentStep ==
    ASSUME TypeOK, Control, Silent, [Next]_vars
    PROVE  Silent'
<1>1. SUFFICES ASSUME phase' = "listening"
               PROVE  ~connection_encrypted' /\ received_packets' = {} /\ acks' = {}
                      /\ confirmed' = {}
  BY DEF Silent
<1>2. phase = "listening" /\ received_packets' = received_packets /\ acks' \subseteq acks
  BY <1>1 DEF Next, SenderStep, AnswerArrives, DeliverPacket, DeliverAck, ReceiverStep, Lose,
     LosePacket, LoseAck, vars, receiveVars, netVars, receive_handshake, receive_data,
     reject_data, ReceiverFails, ReceiverStops, send_ack
<1>3. Confirms /\ connection_encrypted' = connection_encrypted
  BY <1>2, NextKinds DEF Registers, Quiet
<1> QED
  BY <1>2, <1>3 DEF Silent, Confirms

-----------------------------------------------------------------------------
(* what B keeps *)

\* When A stays inside the window, the buffer never holds Window entries.
LEMMA CapNotReached ==
    ASSUME Cap >= Window, SendTypeOK, ReceiveTypeOK, Stream,
           Len(sent) <= expected_sequence + Window - 1
    PROVE  ~HardCapReached
<1> DEFINE ahead == (expected_sequence + 1) .. (expected_sequence + Window - 1)
<1>1. /\ expected_sequence \in Nat /\ Window \in Nat /\ Window >= 1 /\ Cap \in Nat
      /\ Len(sent) \in Nat
  OBVIOUS
<1>2. IsFiniteSet(ahead) /\ Cardinality(ahead) = Window - 1
  <2>1. expected_sequence + 1 \in Int /\ expected_sequence + Window - 1 \in Int
    BY <1>1
  <2>2. /\ IsFiniteSet(ahead)
        /\ Cardinality(ahead) =
             IF expected_sequence + 1 > expected_sequence + Window - 1 THEN 0
             ELSE (expected_sequence + Window - 1) - (expected_sequence + 1) + 1
    BY <2>1, FS_Interval
  <2> QED
    BY <1>1, <2>2
<1>3. DOMAIN packets_buffer \subseteq ahead
  BY <1>1 DEF Stream
<1> HIDE DEF ahead
<1>4. Cardinality(DOMAIN packets_buffer) <= Window - 1
  BY <1>2, <1>3, FS_Subset
<1>5. Cardinality(DOMAIN packets_buffer) \in Nat
  BY <1>2, <1>3, FS_Subset, FS_CardinalityType
<1> QED
  BY <1>1, <1>4, <1>5 DEF HardCapReached

\* What Flush is given is handed over or stays in the buffer.
LEMMA FlushKeeps ==
    ASSUME NEW buffer, NEW first \in Nat, Flush(buffer, first), NEW s \in DOMAIN buffer, s \in Nat
    PROVE  s < expected_sequence' \/ s \in DOMAIN packets_buffer'
<1>1. PICK next \in first .. (first + Window + 1) :
        /\ expected_sequence' = next
        /\ packets_buffer' = Restrict(buffer, DOMAIN buffer \ (first .. (next - 1)))
  BY DEF Flush
<1>2. next \in Nat
  BY <1>1
<1>3. DOMAIN packets_buffer' = DOMAIN buffer \ (first .. (next - 1))
  BY <1>1 DEF Restrict
<1>4. CASE s \in first .. (next - 1)
  BY <1>1, <1>2, <1>4
<1>5. CASE s \notin first .. (next - 1)
  BY <1>3, <1>5
<1> QED
  BY <1>4, <1>5

\* receive_chunks_loop loses neither what it holds nor the packet at hand.
LEMMA ReceiveChunkKeeps ==
    ASSUME Cap >= Window, SendTypeOK, ReceiveTypeOK, Stream,
           Len(sent) <= expected_sequence + Window - 1,
           NEW s \in 1 .. Len(sent), receive_chunk(s, s),
           NEW t, t \in DOMAIN packets_buffer \/ t = s
    PROVE  t < expected_sequence \/ t < expected_sequence' \/ t \in DOMAIN packets_buffer'
<1>0. s \in Nat /\ expected_sequence \in Nat /\ Len(sent) \in Nat /\ t \in Nat
  OBVIOUS
<1>1. CASE Discarded(s) /\ UNCHANGED streamVars
  <2>1. ~OutOfWindow(s)
    BY <1>0 DEF OutOfWindow
  <2> QED
    BY <1>1, <2>1 DEF Discarded
<1>2. CASE Flush(With(packets_buffer, s, s), expected_sequence)
  <2>1. t \in DOMAIN With(packets_buffer, s, s)
    BY DEF With
  <2> QED
    BY <1>0, <1>2, <2>1, FlushKeeps
<1> QED
  BY <1>1, <1>2, CapNotReached DEF receive_chunk

\* The message receive_chunks_loop waits for is neither received nor acknowledged.
LEMMA ExpectedUnseen ==
    ASSUME TypeOK, Kept, phase = "open", expected_sequence \in 1 .. Len(sent)
    PROVE  expected_sequence \notin received_packets \union acks \union confirmed
<1>1. expected_sequence \in Nat
  BY DEF TypeOK
<1>2. expected_sequence \notin DOMAIN packets_buffer
  BY <1>1 DEF TypeOK
<1>3. expected_sequence \notin received_packets
  BY <1>1, <1>2 DEF Kept
<1> QED
  BY <1>3 DEF Kept

\* A new message inside the window is still new to B.
LEMMA KeptWhenSent ==
    ASSUME KeepInv, Registers, SenderWithinWindow', Accounted', phase = "open"
    PROVE  Kept'
<1>0. /\ SendTypeOK /\ ReceiveTypeOK /\ TypeOK /\ Kept /\ Traffic /\ Control
      /\ acks \subseteq 0 .. (sequence_counter - 1)
      /\ Len(sent) \in Nat
  BY DEF KeepInv, OrderInv, TypeOK
<1>1. /\ acks' \union confirmed' \subseteq acks \union confirmed
      /\ received_packets' = received_packets /\ UNCHANGED streamVars
      /\ expected_sequence' = expected_sequence /\ packets_buffer' = packets_buffer
      /\ sequence_counter' = sequence_counter + 1
  BY DEF Registers, Confirms, receiveVars
<1>2. CASE call = "HANDSHAKE"
  <2>1. sent' = sent
    BY <1>2 DEF Registers
  <2> QED
    BY <1>0, <1>1, <2>1 DEF Kept
<1>3. CASE call = "DATA"
  <2> DEFINE new == Len(sent) + 1
  <2>1. sequence_counter = new /\ Len(sent') = new
    BY <1>0, <1>3 DEF Registers, Control, Running
  <2>2. new \notin acks \union confirmed \union received_packets
    BY <1>0, <2>1 DEF Traffic
  <2>3. 1 .. Len(sent') = 1 .. Len(sent) \union {new}
    BY <1>0, <2>1
  <2>4. (acks' \union confirmed') \intersect 1 .. Len(sent') \subseteq received_packets'
    BY <1>0, <1>1, <2>2, <2>3 DEF Kept
  <2>5. \A s \in received_packets' \intersect 1 .. Len(sent') :
           s < expected_sequence' \/ s \in DOMAIN packets_buffer'
    BY <1>0, <1>1, <2>2, <2>3 DEF Kept
  <2>6. new <= expected_sequence + Window - 1
    <3>1. CASE expected_sequence \notin 1 .. Len(sent)
      BY <1>0, <3>1
    <3>2. CASE expected_sequence \in 1 .. Len(sent)
      <4>1. expected_sequence \notin confirmed'
        BY <1>0, <1>1, <3>2, ExpectedUnseen
      <4>2. expected_sequence \in 1 .. Len(sent')
        BY <2>3, <3>2
      <4>3. pc' = "sending"
        BY DEF Registers
      <4>4. expected_sequence \in DOMAIN in_flight' /\ in_flight'[expected_sequence].type = "DATA"
        BY <4>1, <4>2, <4>3 DEF Accounted
      <4>5. sequence_counter' - expected_sequence <= Window
        BY <4>4 DEF SenderWithinWindow
      <4> QED
        BY <1>0, <1>1, <2>1, <4>5
    <3> QED
      BY <3>1, <3>2
  <2> HIDE DEF new
  <2> QED
    BY <1>1, <2>1, <2>4, <2>5, <2>6 DEF Kept
<1> QED
  BY <1>0, <1>2, <1>3

\* A packet of A is kept when it is acknowledged.
LEMMA KeptWhenReceived ==
    ASSUME Cap >= Window, KeepInv, NEW p \in net, receive_data(p), UNCHANGED sendVars,
           [Next]_vars
    PROVE  Kept'
<1>0. /\ SendTypeOK /\ ReceiveTypeOK /\ Kept /\ Stream /\ Numbering /\ OrderInv
      /\ Len(sent) \in Nat /\ expected_sequence \in Nat
  <2>1. SendTypeOK /\ ReceiveTypeOK /\ Kept /\ Stream /\ Numbering /\ OrderInv
    BY DEF KeepInv, OrderInv, TypeOK
  <2> QED
    BY <2>1
<1>1. /\ phase = "open" /\ acks' = acks \union {p.seq}
      /\ sent' = sent /\ confirmed' = confirmed
      /\ p.body = p.seq /\ p.seq \in 1 .. Len(sent)
  BY <1>0 DEF receive_data, send_ack, Numbering, sendVars
<1>2. PICK after \in Nat : after = expected_sequence'
  BY <1>0, OrderStep DEF OrderInv, TypeOK
<1>3. after >= expected_sequence
  BY <1>0, <1>2, StreamStep
<1>4. /\ \A s \in received_packets \intersect 1 .. Len(sent) :
            s < expected_sequence \/ s \in DOMAIN packets_buffer
      /\ Len(sent) <= expected_sequence + Window - 1
      /\ (acks \union confirmed) \intersect 1 .. Len(sent) \subseteq received_packets
  BY <1>0, <1>1 DEF Kept
<1>5. CASE p.seq \in received_packets /\ UNCHANGED <<received_packets, streamVars>>
  BY <1>1, <1>4, <1>5 DEF Kept
<1>6. CASE /\ received_packets' = received_packets \union {p.seq}
           /\ receive_chunk(p.seq, p.body)
  <2>1. receive_chunk(p.seq, p.seq)
    BY <1>1, <1>6
  <2>2. \A s \in received_packets' \intersect 1 .. Len(sent) :
           s < after \/ s \in DOMAIN packets_buffer'
    <3> SUFFICES ASSUME NEW s \in received_packets' \intersect 1 .. Len(sent)
                 PROVE  s < after \/ s \in DOMAIN packets_buffer'
      OBVIOUS
    <3>0. s \in Nat
      BY <1>0
    <3>1. CASE s \in DOMAIN packets_buffer \/ s = p.seq
      <4>1. s < expected_sequence \/ s < after \/ s \in DOMAIN packets_buffer'
        BY <1>0, <1>1, <1>2, <1>4, <2>1, <3>1, ReceiveChunkKeeps
      <4> QED
        BY <1>0, <1>3, <3>0, <4>1
    <3>2. CASE s < expected_sequence
      BY <1>0, <1>2, <1>3, <3>0, <3>2
    <3> QED
      BY <1>4, <1>6, <3>1, <3>2
  <2>3. Len(sent) <= after + Window - 1
    BY <1>0, <1>2, <1>3, <1>4
  <2>4. (acks' \union confirmed') \intersect 1 .. Len(sent) \subseteq received_packets'
    BY <1>1, <1>4, <1>6
  <2> QED
    BY <1>1, <1>2, <2>2, <2>3, <2>4 DEF Kept
<1> QED
  BY <1>5, <1>6 DEF receive_data

LEMMA KeptStep ==
    ASSUME Cap >= Window, KeepInv, [Next]_vars, SenderWithinWindow', Accounted'
    PROVE  Kept'
<1>0. SendTypeOK /\ Kept /\ Traffic /\ Silent /\ Control /\ TypeOK
  BY DEF KeepInv, OrderInv, TypeOK
<1>1. SUFFICES ASSUME phase' = "open"
               PROVE  Kept'
  BY DEF Kept
<1>2. CASE UNCHANGED receiveVars /\ acks' \subseteq acks
  <2>1. CASE Registers
    BY <1>1, <1>2, <2>1, KeptWhenSent DEF receiveVars
  <2>2. CASE Quiet
    <3>1. sent' = sent /\ acks' \union confirmed' \subseteq acks \union confirmed
      BY <1>2, <2>2 DEF Quiet, Confirms
    <3> QED
      BY <1>0, <1>1, <1>2, <3>1 DEF Kept, receiveVars
  <2> QED
    BY <1>0, <2>1, <2>2, NextKinds
<1>3. ASSUME NEW p \in net, DeliverPacket(p)
      PROVE  Kept'
  <2>1. UNCHANGED sendVars /\ sent' = sent /\ confirmed' = confirmed
    BY <1>3 DEF DeliverPacket, sendVars
  <2>2. CASE receive_data(p)
    BY <2>1, <2>2, KeptWhenReceived
  <2>3. CASE receive_handshake(p)
    <3>1. /\ acks' = acks \union {p.seq} /\ received_packets' = received_packets \union {p.seq}
          /\ UNCHANGED streamVars /\ phase \in {"listening", "open"}
      BY <2>3 DEF receive_handshake, send_ack
    <3>2. p.seq \notin 1 .. Len(sent)
      BY <1>0, <2>3 DEF receive_handshake, Traffic
    <3>3. CASE phase = "open"
      BY <1>0, <2>1, <3>1, <3>2, <3>3 DEF Kept
    <3>4. CASE phase = "listening"
      <4>1. sent = << >>
        BY <1>0, <3>4 DEF Silent, Control, Unencrypted
      <4>2. Len(sent') = 0 /\ 1 .. Len(sent') = {}
        BY <2>1, <4>1
      <4>3. expected_sequence' \in Nat \ {0}
        BY <1>0, <3>1 DEF TypeOK
      <4>4. PICK after \in Nat \ {0} : after = expected_sequence'
        BY <4>3
      <4>5. Len(sent') <= after + Window - 1
        <5>1. 0 <= after + Window - 1
          OBVIOUS
        <5> QED
          BY <4>2, <5>1
      <4>6. Len(sent') <= (expected_sequence + Window - 1)'
        BY <4>4, <4>5
      <4> QED
        BY <4>2, <4>6 DEF Kept
    <3> QED
      BY <3>1, <3>3, <3>4
  <2> QED
    BY <1>1, <1>3, <2>2, <2>3 DEF DeliverPacket, reject_data
<1> QED
  BY <1>1, <1>2, <1>3 DEF Next, SenderStep, AnswerArrives, DeliverAck, ReceiverStep,
     ReceiverFails, ReceiverStops, Lose, LosePacket, LoseAck, vars, netVars

-----------------------------------------------------------------------------
(* theorems *)

LEMMA KeepInit == Init => KeepInv
<1> SUFFICES ASSUME Init
             PROVE  KeepInv
  OBVIOUS
<1>1. /\ DOMAIN in_flight = {} /\ net = {} /\ acks = {} /\ Len(sent) = 0 /\ confirmed = {}
      /\ drained = FALSE /\ connection_encrypted = FALSE /\ received_packets = {}
      /\ phase = "listening"
  BY DEF Init, SendInit, ReceiveInit
<1> QED
  BY <1>1, OrderInit DEF KeepInv, Traffic, Accounted, DrainHonest, Silent, Kept

LEMMA KeepStep ==
    ASSUME Cap >= Window, KeepInv, [Next]_vars, SenderWithinWindow'
    PROVE  KeepInv'
<1>1. TypeOK /\ Control /\ OrderInv
  BY DEF KeepInv, OrderInv
<1>2. OrderInv' /\ Traffic' /\ Accounted' /\ DrainHonest' /\ Silent'
  BY <1>1, OrderStep, TrafficStep, AccountedStep, DrainHonestStep, SilentStep DEF KeepInv
<1> QED
  BY <1>2, KeptStep DEF KeepInv

\* In every state of a link whose sender spans at most one window, each message has its
\* place: in flight or confirmed at A; handed over or buffered at B once B has received it.
THEOREM KeepCorrect ==
    ASSUME Cap >= Window
    PROVE  WindowedSpec => []KeepInv
<1>1. KeepInv /\ [Next /\ SenderWithinWindow']_vars => KeepInv'
  <2> SUFFICES ASSUME KeepInv, [Next /\ SenderWithinWindow']_vars
               PROVE  KeepInv'
    OBVIOUS
  <2>1. CASE Next /\ SenderWithinWindow'
    BY <2>1, KeepStep
  <2>2. CASE UNCHANGED vars
    BY <2>2 DEF vars, sendVars, receiveVars, netVars, KeepInv, OrderInv, TypeOK, Control,
       Unencrypted, Running, Admitted, Numbering, Stream, Traffic, Accounted, DrainHonest,
       Silent, Kept
  <2> QED
    BY <2>1, <2>2
<1> QED
  BY <1>1, KeepInit, PTL DEF WindowedSpec

LEMMA KeepInvImplies ==
    ASSUME KeepInv
    PROVE  AckedIsKept /\ DrainedMeansDelivered
<1>0. TypeOK /\ ReceiveTypeOK /\ Kept /\ DrainHonest /\ Stream /\ Len(sent) \in Nat
      /\ expected_sequence \in Nat \ {0}
  BY DEF KeepInv, OrderInv, TypeOK
<1>1. AckedIsKept
  BY <1>0 DEF AckedIsKept, Kept
<1>2. DrainedMeansDelivered
  <2>1. SUFFICES ASSUME drained, phase = "open"
                 PROVE  Len(delivered) = Len(sent)
    BY DEF DrainedMeansDelivered
  <2>2. expected_sequence \notin 1 .. Len(sent)
    BY <1>0, <2>1, ExpectedUnseen DEF DrainHonest
  <2> QED
    BY <1>0, <2>2 DEF Stream
<1> QED
  BY <1>1, <1>2

\* receive_loop acknowledges before receive_chunks_loop decides; as long as A stays
\* inside the window, no acknowledged message is dropped all the same.
THEOREM AcknowledgedIsKept ==
    ASSUME Cap >= Window
    PROVE  WindowedSpec => []AckedIsKept
BY KeepCorrect, KeepInvImplies, PTL

\* When wait_in_flight_drained reports success to close(), the open stream of the
\* peer has handed over every message send() took.
THEOREM DrainedIsDelivered ==
    ASSUME Cap >= Window
    PROVE  WindowedSpec => []DrainedMeansDelivered
BY KeepCorrect, KeepInvImplies, PTL

LEMMA BufferStep ==
    ASSUME Cap >= Window, KeepInv, [Next]_vars,
           NEW s \in DOMAIN packets_buffer
    PROVE  s \in DOMAIN packets_buffer' \/ s < expected_sequence'
<1>0. /\ SendTypeOK /\ ReceiveTypeOK /\ Kept /\ Stream /\ Numbering
      /\ s \in Nat /\ s > expected_sequence
  <2>1. SendTypeOK /\ ReceiveTypeOK /\ Kept /\ Stream /\ Numbering
    BY DEF KeepInv, OrderInv, TypeOK
  <2> QED
    BY <2>1
<1>1. CASE UNCHANGED streamVars
  BY <1>1
<1>2. ASSUME NEW p \in net, receive_data(p), receive_chunk(p.seq, p.body)
      PROVE  s \in DOMAIN packets_buffer' \/ s < expected_sequence'
  <2>1. p.body = p.seq /\ p.seq \in 1 .. Len(sent)
    BY <1>0, <1>2 DEF receive_data, Numbering
  <2>2. receive_chunk(p.seq, p.seq) /\ Len(sent) <= expected_sequence + Window - 1
    BY <1>0, <1>2, <2>1 DEF receive_data, Kept
  <2>3. s < expected_sequence \/ s < expected_sequence' \/ s \in DOMAIN packets_buffer'
    BY <1>0, <2>1, <2>2, ReceiveChunkKeeps
  <2> QED
    BY <1>0, <2>3
<1> QED
  BY <1>1, <1>2 DEF Next, SenderStep, AnswerArrives, DeliverAck, DeliverPacket, ReceiverStep,
     ReceiverFails, ReceiverStops, Lose, vars, receiveVars, receive_handshake, receive_data,
     reject_data

\* A packet that waits for its turn is handed over in the end or keeps waiting: as
\* long as A stays inside the window, the hard cap never throws it away.
THEOREM BufferIsKept ==
    ASSUME Cap >= Window
    PROVE  WindowedSpec => BufferedIsFlushed
<1>1. KeepInv /\ [Next /\ SenderWithinWindow']_vars =>
        [\A s \in DOMAIN packets_buffer :
            s \in DOMAIN packets_buffer' \/ s < expected_sequence']_vars
  BY BufferStep
<1> QED
  BY <1>1, KeepCorrect, PTL DEF WindowedSpec, BufferedIsFlushed

-----------------------------------------------------------------------------
(* the drain, whatever the sender spans *)

\* When close() learns "drained", the peer has acknowledged every message, whatever
\* the race between the signal, the timer and a loop error; no bound on the window
\* is needed for that.
THEOREM HonestDrain == Spec => []DrainedMeansConfirmed
<1> DEFINE HonestInv == TypeOK /\ Control /\ Numbering /\ Accounted /\ DrainHonest
<1>1. Init => HonestInv
  <2> SUFFICES ASSUME Init
               PROVE  HonestInv
    OBVIOUS
  <2>1. drained = FALSE /\ Len(sent) = 0 /\ sent = << >> /\ DOMAIN in_flight = {} /\ net = {}
    BY DEF Init, SendInit
  <2>2. Control
    BY DEF Init, SendInit, Control, Unencrypted, Running, Admitted
  <2> QED
    BY <2>1, <2>2, TypeInit DEF Numbering, Accounted, DrainHonest
<1>2. HonestInv /\ [Next]_vars => HonestInv'
  BY TypeStep, ControlStep, NumberingStep, AccountedStep, DrainHonestStep
<1>3. HonestInv => DrainedMeansConfirmed
  <2> SUFFICES ASSUME HonestInv, drained, NEW i \in 1 .. Len(sent)
               PROVE  sent[i] \in confirmed
    BY DEF DrainedMeansConfirmed
  <2>1. sent[i] = i
    BY DEF Numbering
  <2> QED
    BY <2>1 DEF DrainHonest
<1> HIDE DEF HonestInv
<1> QED
  BY <1>1, <1>2, <1>3, PTL DEF Spec
=============================================================================
