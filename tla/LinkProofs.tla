----------------------------- MODULE LinkProofs -----------------------------
(***************************************************************************)
(* Ordered delivery over the link, for every value of its constants: the   *)
(* inductive invariant OrderInv, DeliveredInOrder, and the refinement of   *)
(* FifoChannel.                                                            *)
(***************************************************************************)
EXTENDS LinkInvariants, LinkTypes, FiniteSetTheorems

USE SendAssumption DEF SendTypeOK, PcStates, appVars, windowVars, timerVars, errorVars, Control

-----------------------------------------------------------------------------
(* control *)

\* send_packet gives out a number only when Control lets it.
LEMMA RegisterControl ==
    ASSUME SendTypeOK, Control, NEW flight, Register(flight),
           pc \in {"send_posted", "blocked"}, ~loop_error,
           UNCHANGED <<call, errorVars>>
    PROVE  Control'
<1>1. CASE /\ sequence_counter' = sequence_counter + 1
           /\ sent' = IF call = "DATA" THEN Append(sent, sequence_counter) ELSE sent
           /\ pc' = "sending"
  <2>1. CASE call = "DATA"
    <3>1. Len(sent') = Len(sent) + 1 /\ connection_encrypted /\ loops_running
      BY <1>1, <2>1 DEF Unencrypted, Running
    <3>2. sequence_counter' = Len(sent') + 1
      BY <1>1, <2>1, <3>1 DEF Running
    <3> QED
      BY <1>1, <2>1, <3>1, <3>2 DEF Unencrypted, Running, Admitted
  <2>2. CASE call = "HANDSHAKE"
    BY <1>1, <2>2 DEF Unencrypted, Running, Admitted
  <2> QED
    BY <2>1, <2>2
<1>2. CASE /\ connection_encrypted /\ pc' = "failed" /\ sent' = sent
  BY <1>2 DEF Unencrypted, Running, Admitted
<1> QED
  BY <1>1, <1>2 DEF Register

\* A stored loop error stops whatever was going on.
LEMMA StoreErrorControl ==
    ASSUME SendTypeOK, Control, store_loop_error, aborting' \in BOOLEAN,
           loops_started \/ aborting
    PROVE  Control'
<1>1. /\ loop_error' = TRUE /\ loops_started' = FALSE /\ loops_running' = FALSE
      /\ sequence_counter' = sequence_counter + 1
      /\ UNCHANGED <<call, sent, connection_encrypted>>
  BY DEF store_loop_error
<1>2. /\ pc' \in PcStates \ {"blocked", "handshake"}
      /\ pc' \in {pc, "failed", "drain_fired"}
      /\ pc' = "drain_fired" => pc \in {"draining", "drain_fired"}
  BY DEF store_loop_error, WakeAll
<1>3. Unencrypted'
  BY <1>1, <1>2 DEF Unencrypted
<1>4. Running'
  BY <1>1, <1>2 DEF Running
<1>5. Admitted'
  BY <1>1, <1>2 DEF Admitted
<1> QED
  BY <1>3, <1>4, <1>5

LEMMA SendNextControl ==
    ASSUME SendTypeOK, Control, SendNext
    PROVE  Control'
<1> USE DEF Unencrypted, Running, Admitted
<1>1. CASE send
  <2>1. CASE loops_running /\ call' = "DATA" /\ pc' = "send_posted" /\ UNCHANGED errorVars
    BY <1>1, <2>1 DEF send
  <2>2. CASE start_loops
    BY <1>1, <2>2 DEF send, start_loops
  <2> QED
    BY <1>1, <2>1, <2>2 DEF send
<1>2. CASE send_packet
  <2>1. CASE Register(in_flight) /\ ~loop_error
    BY <1>2, <2>1, RegisterControl DEF send_packet
  <2>2. CASE pc' = "failed" /\ UNCHANGED <<sequence_counter, sent>>
    BY <1>2, <2>2 DEF send_packet
  <2>3. CASE pc' = "blocked" /\ ~loop_error /\ UNCHANGED <<sequence_counter, sent>>
    BY <1>2, <2>3 DEF send_packet
  <2> QED
    BY <1>2, <2>1, <2>2, <2>3 DEF send_packet
<1>3. CASE send_packet_done
  BY <1>3 DEF send_packet_done, Goto
<1>4. CASE send_packet_error
  BY <1>4 DEF send_packet_error
<1>5. CASE timeout_loop
  BY <1>5 DEF timeout_loop
<1>6. ASSUME NEW s \in DOMAIN in_flight, Age(s)
      PROVE  Control'
  BY <1>6 DEF Age
<1>7. ASSUME NEW s \in timed_out, resend_packet(s)
      PROVE  Control'
  BY <1>7 DEF resend_packet
<1>8. ASSUME NEW s \in resending, resend_packet_done(s)
      PROVE  Control'
  BY <1>8 DEF resend_packet_done
<1>9. CASE IdleTimeout \/ LoopFails
  BY <1>9, StoreErrorControl DEF IdleTimeout, LoopFails
<1>10. CASE handle_loop_result
  <2>1. CASE store_loop_error /\ UNCHANGED aborting
    BY <1>10, <2>1, StoreErrorControl DEF handle_loop_result
  <2>2. CASE UNCHANGED <<appVars, loops_started, loop_error, connection_encrypted,
                         loops_running, stream_error>> /\ aborting' = FALSE
    BY <2>2
  <2> QED
    BY <1>10, <2>1, <2>2 DEF handle_loop_result
<1>11. CASE close
  BY <1>11 DEF close, Goto
<1>12. ASSUME NEW result \in BOOLEAN, close_drained(result), pc \in {"drain_posted", "drain_fired"}
       PROVE  Control'
  BY <1>12 DEF close_drained
<1>13. CASE wait_in_flight_drained
  <2>1. CASE Goto("draining")
    BY <1>13, <2>1 DEF wait_in_flight_drained, Goto
  <2> QED
    BY <1>12, <1>13, <2>1 DEF wait_in_flight_drained
<1>14. CASE DrainTimeout
  BY <1>14 DEF DrainTimeout, Goto
<1>15. CASE wait_in_flight_drained_done
  BY <1>12, <1>15 DEF wait_in_flight_drained_done, DrainResult
<1>16. CASE stop_loops
  BY <1>16 DEF stop_loops
<1> QED
  BY <1>1, <1>2, <1>3, <1>4, <1>5, <1>6, <1>7, <1>8, <1>9, <1>10, <1>11, <1>13, <1>14,
     <1>15, <1>16 DEF SendNext

\* The only answer that counts is the one to the first HANDSHAKE.
LEMMA AnswerControl ==
    ASSUME SendTypeOK, Control, AnswerArrives
    PROVE  Control'
<1> USE DEF Unencrypted, Running, Admitted
<1>1. pc = "handshake" /\ ~loop_error /\ loops_started /\ ~loops_running
  BY DEF AnswerArrives, handshake_initiator
<1>2. CASE pc' = "failed" /\ UNCHANGED <<call, connection_encrypted, loops_running>>
  BY <1>1, <1>2 DEF AnswerArrives, handshake_initiator
<1>3. CASE pc' = "send_posted" /\ call' = "DATA" /\ connection_encrypted' = TRUE
           /\ loops_running' = TRUE
  <2>1. ~connection_encrypted
    BY <1>3 DEF AnswerArrives
  <2>2. sequence_counter = 1 /\ sent = << >>
    BY <1>1, <2>1
  <2>3. Len(sent') = 0 /\ sequence_counter' = 1
    BY <2>2 DEF AnswerArrives, handshake_initiator
  <2> QED
    BY <1>1, <1>3, <2>2, <2>3 DEF AnswerArrives, handshake_initiator
<1> QED
  BY <1>2, <1>3 DEF AnswerArrives, handshake_initiator

LEMMA AckControl ==
    ASSUME SendTypeOK, Control, NEW s \in Nat, ack_handler(s)
    PROVE  Control'
<1> USE DEF Unencrypted, Running, Admitted
<1>1. CASE Register(Without(in_flight, s)) /\ pc = "blocked" /\ loops_started
           /\ UNCHANGED <<call, errorVars>>
  BY <1>1, RegisterControl
<1>2. CASE pc' \in {pc, "drain_fired"} /\ (pc' = "drain_fired" => pc \in {"draining", "drain_fired"})
           /\ UNCHANGED <<call, sequence_counter, sent, errorVars>>
  BY <1>2
<1> QED
  BY <1>1, <1>2 DEF ack_handler, Resumes, SignalDrained

\* A step that leaves the sending half alone leaves Control alone.
LEMMA ControlKept == Control /\ UNCHANGED sendVars => Control'
BY DEF sendVars, Unencrypted, Running, Admitted

LEMMA ControlStep ==
    ASSUME TypeOK, Control, [Next]_vars
    PROVE  Control'
<1>0. SendTypeOK
  BY DEF TypeOK
<1>1. CASE SenderStep
  BY <1>0, <1>1, SendNextControl DEF SenderStep
<1>2. CASE AnswerArrives
  BY <1>0, <1>2, AnswerControl
<1>3. CASE UNCHANGED sendVars
  BY <1>3, ControlKept
<1>4. ASSUME NEW s \in acks, DeliverAck(s)
      PROVE  Control'
  <2>1. s \in Nat
    BY DEF TypeOK
  <2> QED
    BY <1>0, <1>4, <2>1, AckControl DEF DeliverAck
<1> QED
  BY <1>1, <1>2, <1>3, <1>4 DEF Next, DeliverPacket, ReceiverStep, Lose, vars

-----------------------------------------------------------------------------
(* numbering *)

\* send_packet numbers message i with i, and everything registered before keeps its
\* number; flight is in_flight_ before the call.
LEMMA RegisterNumbering ==
    ASSUME SendTypeOK, Control, Numbering, NEW flight, Register(flight),
           pc \in {"send_posted", "blocked"}, ~loop_error,
           \A s \in DOMAIN flight :
              flight[s].type = "DATA" => flight[s].body = s /\ s \in 1 .. Len(sent)
    PROVE  Numbering'
<1> DEFINE body == IF call = "DATA" THEN Len(sent) + 1 ELSE 0
           entry == [type |-> call, body |-> body, late |-> FALSE]
           packet == Packet(call, sequence_counter, body)
<1>1. CASE /\ in_flight' = With(flight, sequence_counter, entry)
           /\ net' = net \union {packet}
           /\ sent' = IF call = "DATA" THEN Append(sent, sequence_counter) ELSE sent
  <2>1. /\ DOMAIN in_flight' = DOMAIN flight \union {sequence_counter}
        /\ in_flight'[sequence_counter] = entry
        /\ \A x \in DOMAIN flight : x # sequence_counter => in_flight'[x] = flight[x]
    <3> HIDE DEF entry, packet
    <3> QED
      BY <1>1 DEF With
  <2>2. entry.type = call /\ entry.body = body /\ packet.type = call
        /\ packet.seq = sequence_counter /\ packet.body = body
    BY DEF Packet
  <2>3. Len(sent) \in Nat
    OBVIOUS
  <2>4. CASE call = "DATA"
    <3>1. sequence_counter = Len(sent) + 1
      BY <2>4 DEF Running
    <3>2. body = sequence_counter
      BY <2>4, <3>1
    <3>3. /\ Len(sent') = Len(sent) + 1
          /\ \A i \in 1 .. Len(sent) : sent'[i] = sent[i]
          /\ sent'[Len(sent) + 1] = sequence_counter
      BY <1>1, <2>4
    <3> HIDE DEF body, entry, packet
    <3>4. \A i \in 1 .. Len(sent') : sent'[i] = i
      <4> SUFFICES ASSUME NEW i \in 1 .. Len(sent')
                   PROVE  sent'[i] = i
        OBVIOUS
      <4>1. CASE i \in 1 .. Len(sent)
        BY <3>3, <4>1 DEF Numbering
      <4>2. CASE i = Len(sent) + 1
        BY <3>1, <3>3, <4>2
      <4> QED
        BY <2>3, <3>3, <4>1, <4>2
    <3>5. \A p \in net' : p.type = "DATA" => p.body = p.seq /\ p.seq \in 1 .. Len(sent')
      BY <1>1, <2>2, <2>3, <3>1, <3>2, <3>3 DEF Numbering
    <3>6. \A s \in DOMAIN in_flight' :
             in_flight'[s].type = "DATA" => in_flight'[s].body = s /\ s \in 1 .. Len(sent')
      BY <2>1, <2>2, <2>3, <3>1, <3>2, <3>3
    <3> QED
      BY <3>4, <3>5, <3>6 DEF Numbering
  <2>5. CASE call = "HANDSHAKE"
    <3>1. sent' = sent
      BY <1>1, <2>5
    <3> HIDE DEF body, entry, packet
    <3>2. \A p \in net' : p.type = "DATA" => p.body = p.seq /\ p.seq \in 1 .. Len(sent')
      BY <1>1, <2>2, <2>5, <3>1 DEF Numbering
    <3>3. \A s \in DOMAIN in_flight' :
             in_flight'[s].type = "DATA" => in_flight'[s].body = s /\ s \in 1 .. Len(sent')
      BY <2>1, <2>2, <2>5, <3>1
    <3> QED
      BY <3>1, <3>2, <3>3 DEF Numbering
  <2> QED
    BY <2>4, <2>5
<1>2. CASE in_flight' = flight /\ UNCHANGED <<sent, net>>
  BY <1>2 DEF Numbering
<1> QED
  BY <1>1, <1>2 DEF Register, Emit

\* A step that sends nothing new and registers nothing new keeps the numbering.
LEMMA NumberingKept ==
    ASSUME Numbering, sent' = sent, net' \subseteq net,
           DOMAIN in_flight' \subseteq DOMAIN in_flight,
           \A s \in DOMAIN in_flight' : /\ in_flight'[s].type = in_flight[s].type
                                        /\ in_flight'[s].body = in_flight[s].body
    PROVE  Numbering'
BY DEF Numbering

LEMMA SendNextNumbering ==
    ASSUME SendTypeOK, Control, Numbering, SendNext
    PROVE  Numbering'
<1>1. CASE Register(in_flight) /\ pc = "send_posted" /\ ~loop_error
  BY <1>1, RegisterNumbering DEF Numbering
<1>2. CASE UNCHANGED <<sent, net, in_flight>>
  BY <1>2, NumberingKept
<1>3. CASE send_packet_error
  BY <1>3, NumberingKept DEF send_packet_error, Without, Restrict
<1>4. ASSUME NEW s \in DOMAIN in_flight, Age(s)
      PROVE  Numbering'
  BY <1>4, NumberingKept DEF Age
<1>5. ASSUME NEW s \in timed_out, resend_packet(s)
      PROVE  Numbering'
  <2>1. CASE s \in DOMAIN in_flight /\ net' = net \union {Packet(in_flight[s].type, s, in_flight[s].body)}
    <3> DEFINE packet == Packet(in_flight[s].type, s, in_flight[s].body)
    <3>1. packet.type = "DATA" => packet.body = packet.seq /\ packet.seq \in 1 .. Len(sent)
      BY <2>1 DEF Packet, Numbering
    <3>2. net' = net \union {packet} /\ UNCHANGED <<sent, in_flight>>
      BY <1>5, <2>1 DEF resend_packet
    <3> HIDE DEF packet
    <3> QED
      BY <3>1, <3>2 DEF Numbering
  <2>2. CASE net' = net
    BY <1>5, <2>2, NumberingKept DEF resend_packet
  <2> QED
    BY <1>5, <2>1, <2>2 DEF resend_packet, Emit
<1>6. ASSUME NEW s \in resending, resend_packet_done(s)
      PROVE  Numbering'
  BY <1>6, NumberingKept DEF resend_packet_done
<1>7. CASE stop_loops
  <2>1. DOMAIN in_flight' = {} /\ sent' = sent /\ net' = net
    BY <1>7 DEF stop_loops
  <2> QED
    BY <2>1, NumberingKept
<1>8. CASE send \/ send_packet_done \/ timeout_loop \/ IdleTimeout \/ LoopFails
           \/ handle_loop_result \/ close \/ wait_in_flight_drained \/ DrainTimeout
           \/ wait_in_flight_drained_done
  <2>1. UNCHANGED <<sent, net, in_flight>>
    BY <1>8 DEF send, send_packet_done, timeout_loop, IdleTimeout, LoopFails,
                store_loop_error, handle_loop_result, close, wait_in_flight_drained, Goto,
                close_drained, DrainTimeout, wait_in_flight_drained_done
  <2> QED
    BY <1>2, <2>1
<1>9. CASE send_packet
  BY <1>1, <1>2, <1>9 DEF send_packet
<1> QED
  BY <1>3, <1>4, <1>5, <1>6, <1>7, <1>8, <1>9 DEF SendNext

LEMMA AckNumbering ==
    ASSUME SendTypeOK, Control, Numbering, NEW s \in Nat, ack_handler(s)
    PROVE  Numbering'
<1> DEFINE left == Without(in_flight, s)
<1>1. /\ DOMAIN left \subseteq DOMAIN in_flight
      /\ \A x \in DOMAIN left : left[x] = in_flight[x]
  BY DEF Without, Restrict
<1> HIDE DEF left
<1>2. CASE Register(left) /\ pc = "blocked" /\ loops_started
  <2>1. \A x \in DOMAIN left :
           left[x].type = "DATA" => left[x].body = x /\ x \in 1 .. Len(sent)
    BY <1>1 DEF Numbering
  <2> QED
    BY <1>2, <2>1, RegisterNumbering DEF Running
<1>3. CASE in_flight' \in {left, in_flight} /\ UNCHANGED <<sent, net>>
  BY <1>1, <1>3, NumberingKept
<1> QED
  BY <1>2, <1>3 DEF ack_handler, Resumes, left

LEMMA NumberingStep ==
    ASSUME TypeOK, Control, Numbering, [Next]_vars
    PROVE  Numbering'
<1>0. SendTypeOK
  BY DEF TypeOK
<1>1. CASE SenderStep
  BY <1>0, <1>1, SendNextNumbering DEF SenderStep
<1>2. CASE AnswerArrives
  BY <1>2, NumberingKept DEF AnswerArrives, handshake_initiator
<1>3. CASE UNCHANGED sendVars /\ net' \subseteq net
  BY <1>3, NumberingKept DEF sendVars
<1>4. ASSUME NEW s \in acks, DeliverAck(s)
      PROVE  Numbering'
  <2>1. s \in Nat
    BY DEF TypeOK
  <2> QED
    BY <1>0, <1>4, <2>1, AckNumbering DEF DeliverAck
<1> QED
  BY <1>1, <1>2, <1>3, <1>4
     DEF Next, DeliverPacket, ReceiverStep, Lose, LosePacket, LoseAck, vars, netVars

-----------------------------------------------------------------------------
(* the reorder buffer *)

USE ReceiveAssumption DEF ReceiveTypeOK, streamVars

\* Flushing a buffer that holds message s under the number s hands over the next
\* messages in order.
LEMMA FlushOrder ==
    ASSUME NEW top \in Nat, NEW buffer,
           delivered \in Seq(Nat), expected_sequence \in Nat \ {0},
           Len(delivered) = expected_sequence - 1,
           \A i \in 1 .. Len(delivered) : delivered[i] = i,
           \A s \in DOMAIN buffer : buffer[s] = s /\ s <= top,
           expected_sequence <= top + 1,
           Flush(buffer, expected_sequence)
    PROVE  /\ Len(delivered') = expected_sequence' - 1
           /\ \A i \in 1 .. Len(delivered') : delivered'[i] = i
           /\ \A s \in DOMAIN packets_buffer' : packets_buffer'[s] = s /\ s <= top
           /\ expected_sequence' <= top + 1
           /\ expected_sequence' >= expected_sequence
<1> DEFINE first == expected_sequence
<1>1. PICK next \in first .. (first + Window + 1) :
        /\ \A s \in first .. (next - 1) : s \in DOMAIN buffer
        /\ expected_sequence' = next
        /\ delivered' = delivered \o [i \in 1 .. (next - first) |-> buffer[first + i - 1]]
        /\ packets_buffer' = Restrict(buffer, DOMAIN buffer \ (first .. (next - 1)))
  BY DEF Flush
<1>2. first \in Nat /\ next \in Nat /\ next >= first /\ next - first \in Nat
  BY <1>1
<1> DEFINE run == [i \in 1 .. (next - first) |-> buffer[first + i - 1]]
<1>3. \A i \in 1 .. (next - first) : run[i] = first + i - 1
  <2> SUFFICES ASSUME NEW i \in 1 .. (next - first)
               PROVE  run[i] = first + i - 1
    OBVIOUS
  <2>1. first + i - 1 \in first .. (next - 1)
    BY <1>2
  <2> QED
    BY <1>1, <2>1
<1>4. run \in Seq(Nat) /\ Len(run) = next - first
  <2> DEFINE length == next - first
  <2>1. length \in Nat
    BY <1>2
  <2>2. \A i \in 1 .. length : first + i - 1 \in Nat
    BY <1>2
  <2>3. run = [i \in 1 .. length |-> run[i]]
    OBVIOUS
  <2>4. \A i \in 1 .. length : run[i] = first + i - 1
    BY <1>3
  <2> HIDE DEF run, length
  <2>5. run \in [1 .. length -> Nat]
    BY <2>2, <2>3, <2>4
  <2>6. run \in Seq(Nat) /\ Len(run) = length
    BY <2>1, <2>5
  <2> QED
    BY <2>6 DEF length
<1>5. delivered' = delivered \o run
  BY <1>1
<1> HIDE DEF run
<1>6. Len(delivered') = next - 1
  <2>1. Len(delivered \o run) = Len(delivered) + Len(run)
    BY <1>4
  <2> QED
    BY <1>2, <1>4, <1>5, <2>1
<1>7. \A i \in 1 .. Len(delivered') : delivered'[i] = i
  <2> SUFFICES ASSUME NEW i \in 1 .. Len(delivered')
               PROVE  delivered'[i] = i
    OBVIOUS
  <2>1. CASE i <= Len(delivered)
    BY <1>4, <1>5, <2>1
  <2>2. CASE i > Len(delivered)
    <3>1. i - Len(delivered) \in 1 .. (next - first)
      BY <1>2, <1>6, <2>2
    <3>2. delivered'[i] = run[i - Len(delivered)]
      BY <1>4, <1>5, <1>6, <2>2, <3>1
    <3> QED
      BY <1>2, <1>3, <3>1, <3>2
  <2> QED
    BY <2>1, <2>2
<1>8. next <= top + 1
  <2>1. CASE next = first
    BY <2>1
  <2>2. CASE next > first
    <3>1. next - 1 \in first .. (next - 1)
      BY <1>2, <2>2
    <3> QED
      BY <1>1, <1>2, <3>1
  <2> QED
    BY <1>2, <2>1, <2>2
<1>9. \A s \in DOMAIN packets_buffer' : packets_buffer'[s] = s /\ s <= top
  BY <1>1 DEF Restrict
<1> QED
  BY <1>1, <1>2, <1>6, <1>7, <1>8, <1>9

\* The hard cap can only fire on the packet that is expected: a buffer of Window
\* entries ahead of expected_sequence holds all of them.
LEMMA CapMeansExpected ==
    ASSUME Cap >= Window, ReceiveTypeOK, HardCapReached,
           NEW s \in Nat, ~Discarded(s)
    PROVE  s = expected_sequence
<1> DEFINE ahead == (expected_sequence + 1) .. (expected_sequence + Window)
<1>1. expected_sequence \in Nat /\ Window \in Nat /\ Cap \in Nat
  OBVIOUS
<1>2. s >= expected_sequence /\ s <= expected_sequence + Window /\ s \notin DOMAIN packets_buffer
  BY <1>1 DEF Discarded, OutOfWindow
<1>3. IsFiniteSet(ahead) /\ Cardinality(ahead) = Window
  <2>1. expected_sequence + 1 \in Int /\ expected_sequence + Window \in Int
    BY <1>1
  <2>2. /\ IsFiniteSet(ahead)
        /\ Cardinality(ahead) =
             IF expected_sequence + 1 > expected_sequence + Window THEN 0
             ELSE (expected_sequence + Window) - (expected_sequence + 1) + 1
    BY <2>1, FS_Interval
  <2> QED
    BY <1>1, <2>2
<1>4. SUFFICES ASSUME s # expected_sequence PROVE FALSE
  OBVIOUS
<1>5. s \in ahead
  BY <1>1, <1>2, <1>4
<1>6. DOMAIN packets_buffer \subseteq ahead \ {s}
  BY <1>2
<1> HIDE DEF ahead
<1>7. IsFiniteSet(ahead \ {s}) /\ Cardinality(ahead \ {s}) = Window - 1
  BY <1>3, <1>5, FS_RemoveElement
<1>8. Cardinality(DOMAIN packets_buffer) <= Window - 1
  BY <1>6, <1>7, FS_Subset
<1>9. Cardinality(DOMAIN packets_buffer) >= Window
  <2>1. Cardinality(DOMAIN packets_buffer) \in Nat
    BY <1>6, <1>7, FS_Subset, FS_CardinalityType
  <2> QED
    BY <1>1, <2>1 DEF HardCapReached
<1>10. Cardinality(DOMAIN packets_buffer) \in Nat
  BY <1>6, <1>7, FS_Subset, FS_CardinalityType
<1> QED
  BY <1>1, <1>8, <1>9, <1>10

\* receive_chunks_loop keeps Stream when the packet carries message s.
LEMMA ReceiveChunkOrder ==
    ASSUME Cap >= Window, ReceiveTypeOK, SendTypeOK, Stream,
           NEW s \in 1 .. Len(sent), receive_chunk(s, s), sent' = sent
    PROVE  Stream' /\ expected_sequence' >= expected_sequence
<1>1. s \in Nat /\ Len(sent) \in Nat
  OBVIOUS
<1>2. CASE UNCHANGED streamVars
  <2>1. /\ expected_sequence' = expected_sequence /\ delivered' = delivered
        /\ packets_buffer' = packets_buffer
    BY <1>2
  <2>2. expected_sequence \in Nat
    OBVIOUS
  <2>3. expected_sequence' >= expected_sequence
    BY <2>1, <2>2
  <2>4. Stream'
    BY <2>1 DEF Stream
  <2> QED
    BY <2>3, <2>4
<1>3. CASE ~Discarded(s) /\ HardCapReached /\ Flush([x \in {s} |-> s], s)
  <2> DEFINE buffer == [x \in {s} |-> s]
  <2>1. s = expected_sequence
    BY <1>1, <1>3, CapMeansExpected
  <2>2. \A x \in DOMAIN buffer : buffer[x] = x /\ x <= Len(sent)
    OBVIOUS
  <2>3. Flush(buffer, expected_sequence)
    BY <1>3, <2>1
  <2> HIDE DEF buffer
  <2>4. /\ Len(delivered') = expected_sequence' - 1
        /\ \A i \in 1 .. Len(delivered') : delivered'[i] = i
        /\ \A x \in DOMAIN packets_buffer' : packets_buffer'[x] = x /\ x <= Len(sent)
        /\ expected_sequence' <= Len(sent) + 1 /\ expected_sequence' >= expected_sequence
    BY <1>1, <2>2, <2>3, FlushOrder DEF Stream
  <2> QED
    BY <2>4 DEF Stream
<1>4. CASE Flush(With(packets_buffer, s, s), expected_sequence)
  <2> DEFINE buffer == With(packets_buffer, s, s)
  <2>1. \A x \in DOMAIN buffer : buffer[x] = x /\ x <= Len(sent)
    BY DEF With, Stream
  <2>2. Flush(buffer, expected_sequence)
    BY <1>4
  <2> HIDE DEF buffer
  <2>3. /\ Len(delivered') = expected_sequence' - 1
        /\ \A i \in 1 .. Len(delivered') : delivered'[i] = i
        /\ \A x \in DOMAIN packets_buffer' : packets_buffer'[x] = x /\ x <= Len(sent)
        /\ expected_sequence' <= Len(sent) + 1 /\ expected_sequence' >= expected_sequence
    BY <1>1, <2>1, <2>2, FlushOrder DEF Stream
  <2> QED
    BY <2>3 DEF Stream
<1> QED
  BY <1>2, <1>3, <1>4 DEF receive_chunk

\* A step accepts one more message, hands something over, or does neither.
LEMMA StepKinds ==
    ASSUME TypeOK, Control, [Next]_vars
    PROVE  \/ sent' = sent
           \/ /\ Len(sent) < N /\ Len(sent') = Len(sent) + 1
              /\ UNCHANGED streamVars
<1>0. SendTypeOK
  BY DEF TypeOK
<1>1. ASSUME NEW flight, Register(flight), pc \in {"send_posted", "blocked"}
      PROVE  sent' = sent \/ (Len(sent) < N /\ Len(sent') = Len(sent) + 1)
  BY <1>0, <1>1 DEF Register, Admitted
<1>2. CASE SenderStep
  <2>1. CASE send_packet
    <3>1. CASE Register(in_flight)
      BY <1>1, <1>2, <2>1, <3>1 DEF send_packet, SenderStep, receiveVars
    <3> QED
      BY <2>1, <3>1 DEF send_packet
  <2>2. CASE ~send_packet
    BY <1>2, <2>2 DEF SenderStep, SendNext, send, send_packet_done, send_packet_error, Age,
         resend_packet, resend_packet_done, stop_loops, timeout_loop, IdleTimeout, LoopFails,
         store_loop_error, handle_loop_result, close, wait_in_flight_drained, Goto,
         close_drained, DrainTimeout, wait_in_flight_drained_done
  <2> QED
    BY <2>1, <2>2
<1>3. CASE AnswerArrives
  BY <1>3 DEF AnswerArrives, handshake_initiator
<1>4. ASSUME NEW s \in acks, DeliverAck(s)
      PROVE  \/ sent' = sent
             \/ Len(sent) < N /\ Len(sent') = Len(sent) + 1 /\ UNCHANGED streamVars
  <2>1. CASE Register(Without(in_flight, s)) /\ pc = "blocked"
    BY <1>1, <1>4, <2>1 DEF DeliverAck, receiveVars
  <2> QED
    BY <1>4, <2>1 DEF DeliverAck, ack_handler, Resumes
<1>5. CASE UNCHANGED sendVars
  BY <1>5 DEF sendVars
<1> QED
  BY <1>2, <1>3, <1>4, <1>5 DEF Next, DeliverPacket, ReceiverStep, Lose, vars

LEMMA StreamStep ==
    ASSUME Cap >= Window, OrderInv, [Next]_vars
    PROVE  Stream' /\ expected_sequence' >= expected_sequence
<1>0. SendTypeOK /\ ReceiveTypeOK /\ Control /\ Numbering /\ Stream /\ TypeOK
  BY DEF OrderInv, TypeOK
<1>1. CASE UNCHANGED streamVars
  <2>0. Len(sent) \in Nat
    BY <1>0
  <2>1. Len(sent') >= Len(sent) /\ Len(sent') \in Nat
    BY <1>0, <2>0, StepKinds
  <2> QED
    BY <1>0, <1>1, <2>1 DEF Stream
<1>2. ASSUME NEW p \in net, DeliverPacket(p)
      PROVE  Stream' /\ expected_sequence' >= expected_sequence
  <2>1. sent' = sent
    BY <1>2 DEF DeliverPacket, sendVars
  <2>2. CASE receive_data(p) /\ receive_chunk(p.seq, p.body)
    <3>1. p.body = p.seq /\ p.seq \in 1 .. Len(sent)
      BY <1>0, <2>2 DEF receive_data, Numbering
    <3>2. receive_chunk(p.seq, p.seq)
      BY <2>2, <3>1
    <3> QED
      BY <1>0, <2>1, <3>1, <3>2, ReceiveChunkOrder
  <2> QED
    BY <1>1, <1>2, <2>2 DEF DeliverPacket, receive_handshake, receive_data, reject_data
<1> QED
  BY <1>1, <1>2 DEF Next, SenderStep, AnswerArrives, DeliverAck, ReceiverStep,
     ReceiverFails, ReceiverStops, Lose, vars, receiveVars

-----------------------------------------------------------------------------
(* ordered delivery *)

LEMMA OrderInit == Init => OrderInv
<1> SUFFICES ASSUME Init
             PROVE  OrderInv
  OBVIOUS
<1>1. DOMAIN in_flight = {} /\ net = {} /\ sent = << >>
  BY DEF Init, SendInit
<1>2. DOMAIN packets_buffer = {} /\ delivered = << >> /\ expected_sequence = 1
  BY DEF Init, ReceiveInit
<1>3. Control
  BY DEF Init, SendInit, Unencrypted, Running, Admitted
<1>4. Numbering
  BY <1>1 DEF Numbering
<1>5. Stream
  BY <1>1, <1>2 DEF Stream
<1> QED
  BY <1>3, <1>4, <1>5, TypeInit DEF OrderInv

LEMMA OrderStep ==
    ASSUME Cap >= Window, OrderInv, [Next]_vars
    PROVE  OrderInv'
BY TypeStep, ControlStep, NumberingStep, StreamStep DEF OrderInv

\* Control state, numbering and stream of the two endpoints fit together in every state of
\* the link, restarts included: message i always travels with the number i, and
\* receive_chunks_loop has handed over exactly the messages below expected_sequence.  The
\* hard cap of the code equals its window, so Cap >= Window holds there.
THEOREM OrderCorrect ==
    ASSUME Cap >= Window
    PROVE  Spec => []OrderInv
<1>1. OrderInv /\ [Next]_vars => OrderInv'
  BY OrderStep
<1> QED
  BY <1>1, OrderInit, PTL DEF Spec

LEMMA OrderInvImplies == OrderInv => DeliveredInOrder
<1> SUFFICES ASSUME OrderInv
             PROVE  DeliveredInOrder
  OBVIOUS
<1>1. expected_sequence \in Nat /\ Len(sent) \in Nat
  BY DEF OrderInv, TypeOK
<1> QED
  BY <1>1 DEF OrderInv, Stream, DeliveredInOrder

\* Whatever the network loses, repeats or reorders, and whichever endpoint fails,
\* restarts or stops: what receive_chunks_loop hands over is the messages in the
\* order of the send calls, without a gap or a repetition.
THEOREM OrderedDelivery ==
    ASSUME Cap >= Window
    PROVE  Spec => []DeliveredInOrder
BY OrderCorrect, OrderInvImplies, PTL

-----------------------------------------------------------------------------
(* the link implements FifoChannel *)

LEMMA ChannelInit == Init => Channel!Init
BY DEF Init, SendInit, ReceiveInit, Channel!Init

\* A sequence whose entries are their own positions is the first messages.
LEMMA InOrderIsFirst ==
    ASSUME NEW seq \in Seq(Nat), \A i \in 1 .. Len(seq) : seq[i] = i
    PROVE  seq = [i \in 1 .. Len(seq) |-> i]
<1>1. seq = [i \in 1 .. Len(seq) |-> seq[i]]
  OBVIOUS
<1> QED
  BY <1>1

LEMMA ChannelStep ==
    ASSUME Cap >= Window, OrderInv, [Next]_vars
    PROVE  [Channel!Next]_(Channel!channelVars)
<1>0. /\ SendTypeOK /\ ReceiveTypeOK /\ Control /\ Stream /\ TypeOK
      /\ SendTypeOK' /\ ReceiveTypeOK' /\ Stream'
  BY OrderStep DEF OrderInv, TypeOK
<1>1. CASE Len(sent) < N /\ Len(sent') = Len(sent) + 1 /\ UNCHANGED streamVars
  BY <1>1 DEF Channel!Next, Channel!Accept
<1>2. CASE sent' = sent
  <2>1. delivered = Channel!FirstMessages(Len(delivered))
    <3>1. delivered \in Seq(Nat) /\ \A i \in 1 .. Len(delivered) : delivered[i] = i
      BY <1>0 DEF Stream
    <3> QED
      BY <3>1, InOrderIsFirst DEF Channel!FirstMessages
  <2>2. delivered' = Channel!FirstMessages(Len(delivered'))
    <3>1. delivered' \in Seq(Nat) /\ \A i \in 1 .. Len(delivered') : delivered'[i] = i
      BY <1>0 DEF Stream
    <3> QED
      BY <3>1, InOrderIsFirst DEF Channel!FirstMessages
  <2>3. /\ Len(delivered) \in Nat /\ Len(delivered') \in Nat
        /\ Len(delivered') >= Len(delivered)
        /\ Len(delivered') <= Len(sent)
    <3>1. PICK before \in Nat : before = expected_sequence
      BY <1>0
    <3>2. PICK after \in Nat : after = expected_sequence'
      BY <1>0
    <3>3. after >= before
      BY <3>1, <3>2, StreamStep
    <3>4. Len(delivered) = before - 1 /\ Len(delivered') = after - 1
      BY <1>0, <3>1, <3>2 DEF Stream
    <3>5. after <= Len(sent) + 1
      BY <1>0, <1>2, <3>2 DEF Stream
    <3>6. Len(delivered) \in Nat /\ Len(delivered') \in Nat /\ Len(sent) \in Nat
      BY <1>0
    <3> QED
      BY <3>3, <3>4, <3>5, <3>6
  <2>4. CASE Len(delivered') = Len(delivered)
    BY <1>2, <2>1, <2>2, <2>4 DEF Channel!channelVars
  <2>5. CASE Len(delivered') > Len(delivered)
    <3>1. Len(delivered') \in (Len(delivered) + 1) .. Len(sent)
      BY <1>0, <2>3, <2>5
    <3> QED
      BY <1>2, <2>2, <3>1 DEF Channel!Next, Channel!Hand
  <2> QED
    BY <2>3, <2>4, <2>5
<1> QED
  BY <1>0, <1>1, <1>2, StepKinds

\* The link implements the channel its two applications see: every step is an
\* Accept, a Hand or a stutter of FifoChannel.
THEOREM LinkImplementsChannel ==
    ASSUME Cap >= Window
    PROVE  Spec => ChannelSpec
<1>1. OrderInv /\ [Next]_vars => [Channel!Next]_(Channel!channelVars)
  BY ChannelStep
<1> QED
  BY <1>1, ChannelInit, OrderCorrect, PTL DEF Spec, ChannelSpec, Channel!Spec
=============================================================================
