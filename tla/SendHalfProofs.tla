--------------------------- MODULE SendHalfProofs ---------------------------
(***************************************************************************)
(* The waits of the sending half, for every window and every limit: no     *)
(* wake-up is lost in send_packet or in wait_in_flight_drained, in_flight_ *)
(* stays within its bounds and keeps every packet until it is confirmed.   *)
(* The peer may acknowledge any number given out so far, at any time.      *)
(***************************************************************************)
EXTENDS MCSendHalf, LinkTypes, FiniteSetTheorems

USE SendAssumption DEF SendTypeOK, PcStates, appVars, windowVars, timerVars, errorVars

-----------------------------------------------------------------------------
(* the invariant *)

\* Whoever calls send_packet or close finds the loops running or their error stored:
\* otherwise the stream has not been started, or it is closed.
LoopsKnown ==
    \/ loops_started \/ loop_error
    \/ pc = "closed"
    \/ pc = "idle" /\ ~loops_running /\ ~stream_error

\* A wait that nothing would end is a lost wake-up: the window really is full, or
\* something is in flight, and the loops that would report an error are alive.
Waits == LoopsKnown /\ BlockedMeansFull /\ DrainMeansWaiting

HalfInv == SendTypeOK /\ NetOK /\ Waits /\ InFlightBounded

\* What the sending half does, of its own accord or with a datagram of its peer.
HalfStep ==
    \/ SendNext
    \/ handshake_initiator
    \/ \E s \in 0 .. (sequence_counter - 1) : ack_handler(s)

-----------------------------------------------------------------------------
(* the window *)

\* What is in flight can be counted.
LEMMA FlightFinite ==
    ASSUME SendTypeOK
    PROVE  IsFiniteSet(DOMAIN in_flight) /\ Cardinality(DOMAIN in_flight) \in Nat
<1>1. IsFiniteSet(0 .. (sequence_counter - 1))
  BY FS_Interval
<1> QED
  BY <1>1, FS_Subset, FS_CardinalityType

\* A window is at least one packet and at most MAX_CWND packets.
LEMMA WindowRange ==
    ASSUME NEW window \in Unit .. (MaxCwnd * Unit)
    PROVE  window \div Unit \in 1 .. MaxCwnd
<1>1. Unit \in Nat \ {0} /\ MaxCwnd \in Nat
  OBVIOUS
<1>2. window \in Nat /\ Unit <= window /\ window <= MaxCwnd * Unit
  BY UnitFacts
<1> DEFINE q == window \div Unit
<1>3. q \in Nat /\ q * Unit <= window /\ window < q * Unit + Unit
  BY <1>1, <1>2
<1> HIDE DEF q
<1>4. q >= 1
  BY <1>1, <1>2, <1>3
<1>5. q <= MaxCwnd
  BY <1>1, <1>2, <1>3
<1> QED
  BY <1>3, <1>4, <1>5 DEF q

\* An empty in_flight_ never blocks.
LEMMA EmptyIsOpen ==
    ASSUME NEW flight, NEW window \in Unit .. (MaxCwnd * Unit), DOMAIN flight = {}
    PROVE  WindowOpen(flight, window)
BY WindowRange, FS_EmptySet DEF WindowOpen

\* A collapsed window is full as soon as anything is in flight.
LEMMA OnePacketIsFull ==
    ASSUME SendTypeOK, DOMAIN in_flight # {}
    PROVE  ~WindowOpen(in_flight, Unit)
<1>1. Cardinality(DOMAIN in_flight) \in Nat /\ Cardinality(DOMAIN in_flight) # 0
  BY FlightFinite, FS_EmptySet
<1>2. Unit \div Unit = 1
  OBVIOUS
<1> QED
  BY <1>1, <1>2 DEF WindowOpen

-----------------------------------------------------------------------------
(* the waits *)

\* send_packet that gets through no longer waits.
LEMMA RegisterWaits ==
    ASSUME Waits, NEW flight, Register(flight), pc \in {"send_posted", "blocked"},
           UNCHANGED errorVars
    PROVE  Waits'
<1>1. pc' \in {"sending", "failed"}
  BY DEF Register
<1>2. loops_started \/ loop_error
  BY DEF Waits, LoopsKnown
<1> QED
  BY <1>1, <1>2 DEF Waits, LoopsKnown, BlockedMeansFull, DrainMeansWaiting

\* A stored loop error ends every wait.
LEMMA StoreErrorWaits ==
    ASSUME SendTypeOK, store_loop_error
    PROVE  Waits'
<1>1. loop_error' = TRUE /\ pc' \notin {"blocked", "draining"}
  BY DEF store_loop_error, WakeAll
<1> QED
  BY <1>1 DEF Waits, LoopsKnown, BlockedMeansFull, DrainMeansWaiting

LEMMA SendNextWaits ==
    ASSUME HalfInv, SendNext
    PROVE  Waits'
<1>0. SendTypeOK /\ Waits
  BY DEF HalfInv
<1> USE DEF LoopsKnown, BlockedMeansFull, DrainMeansWaiting
<1>1. CASE send
  <2>1. pc = "idle" /\ pc' \in {"send_posted", "failed"}
    BY <1>1 DEF send, start_loops
  <2>2. loops_started' \/ loop_error'
    BY <1>0, <1>1, <2>1 DEF send, start_loops, Waits
  <2> QED
    BY <2>1, <2>2 DEF Waits
<1>2. CASE send_packet
  <2>1. CASE Register(in_flight)
    BY <1>0, <1>2, <2>1, RegisterWaits DEF send_packet
  <2>2. CASE pc' = "failed" /\ loop_error
    BY <1>2, <2>2 DEF send_packet, Waits
  <2>3. CASE ~loop_error /\ ~WindowOpen(in_flight, cwnd) /\ pc' = "blocked" /\ in_flight' = in_flight
    <3>1. DOMAIN in_flight # {}
      BY <1>0, <2>3, EmptyIsOpen
    <3>2. loops_started
      BY <1>0, <1>2, <2>3 DEF send_packet, Waits
    <3>3. UNCHANGED <<in_flight, cwnd, loops_started, loop_error>>
      BY <1>2, <2>3 DEF send_packet
    <3> QED
      BY <2>3, <3>1, <3>2, <3>3 DEF Waits, WindowOpen
  <2> QED
    BY <1>2, <2>1, <2>2, <2>3 DEF send_packet
<1>3. CASE send_packet_done
  BY <1>0, <1>3 DEF send_packet_done, Goto, Waits
<1>4. CASE send_packet_error
  BY <1>0, <1>4 DEF send_packet_error, Waits
<1>5. CASE timeout_loop
  <2>1. /\ cwnd' = Unit /\ loops_started
        /\ UNCHANGED <<pc, in_flight, loops_started, loop_error, loops_running, stream_error>>
    BY <1>5 DEF timeout_loop
  <2>2. DOMAIN in_flight # {} => ~WindowOpen(in_flight, Unit)
    BY <1>0, OnePacketIsFull
  <2> QED
    BY <1>0, <2>1, <2>2 DEF Waits, WindowOpen
<1>6. ASSUME NEW s \in DOMAIN in_flight, Age(s) \/ resend_packet_done(s) \/ resend_packet(s)
      PROVE  Waits'
  <2>1. /\ DOMAIN in_flight' = DOMAIN in_flight
        /\ UNCHANGED <<pc, cwnd, loops_started, loop_error, loops_running, stream_error>>
    BY <1>6 DEF Age, resend_packet, resend_packet_done
  <2> QED
    BY <1>0, <2>1 DEF Waits, WindowOpen
<1>7. ASSUME NEW s, s \notin DOMAIN in_flight, resend_packet(s) \/ resend_packet_done(s)
      PROVE  Waits'
  <2>1. UNCHANGED <<pc, in_flight, cwnd, loops_started, loop_error, loops_running, stream_error>>
    BY <1>7 DEF resend_packet, resend_packet_done
  <2> QED
    BY <1>0, <2>1 DEF Waits, WindowOpen
<1>8. CASE IdleTimeout \/ LoopFails
  BY <1>0, <1>8, StoreErrorWaits DEF IdleTimeout, LoopFails
<1>9. CASE handle_loop_result
  <2>1. CASE store_loop_error
    BY <1>0, <2>1, StoreErrorWaits
  <2>2. CASE UNCHANGED <<appVars, windowVars, loops_started, loop_error, loops_running, stream_error>>
    BY <1>0, <2>2 DEF Waits, WindowOpen
  <2> QED
    BY <1>9, <2>1, <2>2 DEF handle_loop_result
<1>10. CASE close
  <2>1. loops_started \/ loop_error
    BY <1>0, <1>10 DEF close, Waits
  <2> QED
    BY <1>10, <2>1 DEF close, Goto, Waits
<1>11. CASE wait_in_flight_drained
  <2>1. loops_started \/ loop_error
    BY <1>0, <1>11 DEF wait_in_flight_drained, Waits
  <2>2. CASE ~loop_error /\ DOMAIN in_flight # {} /\ Goto("draining")
    BY <2>1, <2>2 DEF Goto, Waits
  <2>3. ASSUME NEW result, close_drained(result)
        PROVE  Waits'
    BY <2>1, <2>3 DEF close_drained, Waits
  <2> QED
    BY <1>11, <2>2, <2>3 DEF wait_in_flight_drained
<1>12. CASE DrainTimeout
  BY <1>0, <1>12 DEF DrainTimeout, Goto, Waits
<1>13. CASE wait_in_flight_drained_done
  BY <1>0, <1>13 DEF wait_in_flight_drained_done, close_drained, Waits
<1>14. CASE stop_loops
  BY <1>14 DEF stop_loops, Waits
<1> QED
  BY <1>1, <1>2, <1>3, <1>4, <1>5, <1>6, <1>7, <1>8, <1>9, <1>10, <1>11, <1>12, <1>13,
     <1>14 DEF SendNext

LEMMA HandshakeWaits ==
    ASSUME HalfInv, handshake_initiator
    PROVE  Waits'
<1>1. loops_started \/ loop_error
  BY DEF HalfInv, Waits, LoopsKnown, handshake_initiator
<1> QED
  BY <1>1 DEF handshake_initiator, Waits, LoopsKnown, BlockedMeansFull, DrainMeansWaiting

\* An ACK wakes who can go on, and nobody it leaves waiting waits in vain.
LEMMA AckWaits ==
    ASSUME HalfInv, NEW s \in 0 .. (sequence_counter - 1), ack_handler(s)
    PROVE  Waits'
<1> DEFINE left == Without(in_flight, s)
<1>0. SendTypeOK /\ Waits
  BY DEF HalfInv
<1>1. UNCHANGED errorVars
  BY DEF ack_handler
<1>2. CASE s \notin DOMAIN in_flight
  <2>1. UNCHANGED <<pc, in_flight, cwnd>>
    BY <1>2 DEF ack_handler
  <2> QED
    BY <1>0, <1>1, <2>1 DEF Waits, LoopsKnown, BlockedMeansFull, DrainMeansWaiting, WindowOpen
<1>3. CASE s \in DOMAIN in_flight
  <2>1. cwnd' = Grow(cwnd) /\ cwnd' \in Unit .. (MaxCwnd * Unit)
    BY <1>0, <1>3, GrowRange DEF ack_handler
  <2> HIDE DEF left
  <2>2. CASE pc = "blocked" /\ Register(left)
    BY <1>0, <1>1, <2>2, RegisterWaits
  <2>3. CASE /\ ~(pc = "blocked" /\ WindowOpen(left, cwnd'))
             /\ in_flight' = left
             /\ pc' = IF pc = "draining" /\ DOMAIN left = {} THEN "drain_fired" ELSE pc
    <3>1. LoopsKnown'
      BY <1>0, <1>1, <2>3 DEF Waits, LoopsKnown
    <3>2. BlockedMeansFull'
      <4>1. SUFFICES ASSUME pc' = "blocked"
                     PROVE  /\ ~WindowOpen(in_flight, cwnd)'
                            /\ DOMAIN in_flight' # {}
                            /\ loops_started' /\ ~loop_error'
        BY DEF BlockedMeansFull
      <4>2. pc = "blocked" /\ ~WindowOpen(left, cwnd')
        BY <2>3, <4>1
      <4>3. DOMAIN left # {}
        BY <2>1, <4>2, EmptyIsOpen
      <4>4. loops_started /\ ~loop_error
        BY <1>0, <4>2 DEF Waits, BlockedMeansFull
      <4> QED
        BY <1>1, <2>3, <4>2, <4>3, <4>4 DEF WindowOpen
    <3>3. DrainMeansWaiting'
      BY <1>0, <1>1, <2>3 DEF Waits, DrainMeansWaiting
    <3> QED
      BY <3>1, <3>2, <3>3 DEF Waits
  <2> QED
    BY <1>3, <2>1, <2>2, <2>3 DEF ack_handler, Resumes, SignalDrained, left
<1> QED
  BY <1>2, <1>3

-----------------------------------------------------------------------------
(* the bounds of in_flight_ *)

\* The window is checked before a packet is registered, also by the ACK that has just
\* taken another one away.
LEMMA RegisterBounded ==
    ASSUME NEW flight, NEW window \in Unit .. (MaxCwnd * Unit),
           IsFiniteSet(DOMAIN flight), WindowOpen(flight, window), Register(flight)
    PROVE  InFlightBounded'
<1>1. /\ Cardinality(DOMAIN flight) \in Nat
      /\ Cardinality(DOMAIN flight) < MaxCwnd
      /\ Cardinality(DOMAIN flight) < MaxInFlight
  BY WindowRange, FS_CardinalityType DEF WindowOpen
<1>2. CASE in_flight' = flight
  BY <1>1, <1>2 DEF InFlightBounded, MinOf
<1>3. ASSUME NEW entry, in_flight' = With(flight, sequence_counter, entry)
      PROVE  InFlightBounded'
  <2>1. DOMAIN in_flight' = DOMAIN flight \union {sequence_counter}
    BY <1>3, WithFacts
  <2>2. Cardinality(DOMAIN in_flight') <= Cardinality(DOMAIN flight) + 1
    BY <1>1, <2>1, FS_AddElement
  <2>3. Cardinality(DOMAIN in_flight') \in Nat
    BY <2>1, FS_AddElement, FS_CardinalityType
  <2> QED
    BY <1>1, <2>2, <2>3 DEF InFlightBounded, MinOf
<1> QED
  BY <1>2, <1>3 DEF Register

\* Nothing else makes in_flight_ larger.
LEMMA ShrinkBounded ==
    ASSUME SendTypeOK, InFlightBounded, DOMAIN in_flight' \subseteq DOMAIN in_flight
    PROVE  InFlightBounded'
<1>1. IsFiniteSet(DOMAIN in_flight) /\ Cardinality(DOMAIN in_flight) \in Nat
  BY FlightFinite
<1>2. /\ Cardinality(DOMAIN in_flight') <= Cardinality(DOMAIN in_flight)
      /\ Cardinality(DOMAIN in_flight') \in Nat
  BY <1>1, FS_Subset, FS_CardinalityType
<1> QED
  BY <1>1, <1>2 DEF InFlightBounded, MinOf

\* A packet that leaves in_flight_ is the one whose async_send_to has failed, or the
\* stream is closed.
Released(s) == \/ pc = "sending" /\ pc' = "failed" /\ s = current
               \/ pc' = "closed"

\* A step of the half's own registers a packet through an open window, or registers none.
LEMMA SendNextFlight ==
    ASSUME SendTypeOK, SendNext
    PROVE  \/ WindowOpen(in_flight, cwnd) /\ Register(in_flight)
           \/ /\ DOMAIN in_flight' \subseteq DOMAIN in_flight
              /\ \A s \in DOMAIN in_flight \ DOMAIN in_flight' : Released(s)
<1>1. CASE send_packet
  BY <1>1 DEF send_packet
<1>2. CASE send_packet_error
  <2>1. /\ DOMAIN in_flight' = DOMAIN in_flight \ {current}
        /\ pc = "sending" /\ pc' = "failed"
    BY <1>2, WithoutFacts DEF send_packet_error
  <2> QED
    BY <2>1 DEF Released
<1>3. CASE stop_loops
  <2>1. DOMAIN in_flight' = {} /\ pc' = "closed"
    BY <1>3 DEF stop_loops
  <2> QED
    BY <2>1 DEF Released
<1>4. CASE \/ \E s \in DOMAIN in_flight : Age(s)
           \/ \E s \in timed_out : resend_packet(s)
           \/ \E s \in resending : resend_packet_done(s)
  <2>1. DOMAIN in_flight' = DOMAIN in_flight
    BY <1>4 DEF Age, resend_packet, resend_packet_done
  <2> QED
    BY <2>1
<1>5. CASE \/ send \/ send_packet_done \/ timeout_loop \/ IdleTimeout \/ LoopFails
           \/ handle_loop_result \/ close \/ wait_in_flight_drained \/ DrainTimeout
           \/ wait_in_flight_drained_done
  <2>1. in_flight' = in_flight
    BY <1>5 DEF send, send_packet_done, Goto, timeout_loop, IdleTimeout, LoopFails,
       store_loop_error, handle_loop_result, close, wait_in_flight_drained, close_drained,
       DrainTimeout, wait_in_flight_drained_done
  <2> QED
    BY <2>1
<1> QED
  BY <1>1, <1>2, <1>3, <1>4, <1>5 DEF SendNext

\* An ACK takes its own packet away, and may let a waiting one through.
LEMMA AckFlight ==
    ASSUME SendTypeOK, NEW s \in 0 .. (sequence_counter - 1), ack_handler(s)
    PROVE  \/ in_flight' = in_flight
           \/ /\ s \in confirmed'
              /\ DOMAIN Without(in_flight, s) = DOMAIN in_flight \ {s}
              /\ \/ in_flight' = Without(in_flight, s)
                 \/ WindowOpen(Without(in_flight, s), Grow(cwnd)) /\ Register(Without(in_flight, s))
BY WithoutFacts DEF ack_handler, Resumes

LEMMA BoundedStep ==
    ASSUME HalfInv, HalfStep
    PROVE  InFlightBounded'
<1>0. SendTypeOK /\ InFlightBounded
  BY DEF HalfInv
<1>1. IsFiniteSet(DOMAIN in_flight)
  BY <1>0, FlightFinite
<1>2. CASE SendNext
  BY <1>0, <1>1, <1>2, SendNextFlight, RegisterBounded, ShrinkBounded
<1>3. CASE handshake_initiator
  BY <1>0, <1>3, ShrinkBounded DEF handshake_initiator
<1>4. ASSUME NEW s \in 0 .. (sequence_counter - 1), ack_handler(s)
      PROVE  InFlightBounded'
  <2> DEFINE left == Without(in_flight, s)
  <2> HIDE DEF left
  <2>1. Grow(cwnd) \in Unit .. (MaxCwnd * Unit)
    BY <1>0, GrowRange
  <2>2. CASE in_flight' = in_flight
    BY <1>0, <2>2, ShrinkBounded
  <2>3. CASE DOMAIN left = DOMAIN in_flight \ {s} /\ in_flight' = left
    BY <1>0, <2>3, ShrinkBounded
  <2>4. CASE /\ DOMAIN left = DOMAIN in_flight \ {s}
             /\ WindowOpen(left, Grow(cwnd)) /\ Register(left)
    <3>1. IsFiniteSet(DOMAIN left)
      BY <1>1, <2>4, FS_RemoveElement
    <3> QED
      BY <2>1, <2>4, <3>1, RegisterBounded
  <2> QED
    BY <1>0, <1>4, <2>2, <2>3, <2>4, AckFlight DEF left
<1> QED
  BY <1>2, <1>3, <1>4 DEF HalfStep

\* Whatever is registered stays in in_flight_ until it is confirmed or released.
LEMMA KeepsFlight ==
    ASSUME SendTypeOK, HalfStep
    PROVE  \A s \in DOMAIN in_flight \ DOMAIN in_flight' : s \in confirmed' \/ Released(s)
<1>1. ASSUME NEW flight, Register(flight)
      PROVE  DOMAIN flight \subseteq DOMAIN in_flight'
  <2>1. CASE in_flight' = flight
    BY <2>1
  <2>2. ASSUME NEW entry, in_flight' = With(flight, sequence_counter, entry)
        PROVE  DOMAIN flight \subseteq DOMAIN in_flight'
    <3>1. DOMAIN in_flight' = DOMAIN flight \union {sequence_counter}
      BY <2>2 DEF With
    <3> QED
      BY <3>1
  <2> QED
    BY <1>1, <2>1, <2>2 DEF Register
<1>2. CASE SendNext
  BY <1>1, <1>2, SendNextFlight
<1>3. CASE handshake_initiator
  BY <1>3 DEF handshake_initiator
<1>4. ASSUME NEW s \in 0 .. (sequence_counter - 1), ack_handler(s)
      PROVE  \A x \in DOMAIN in_flight \ DOMAIN in_flight' : x \in confirmed'
  BY <1>1, <1>4, AckFlight
<1> QED
  BY <1>2, <1>3, <1>4 DEF HalfStep

-----------------------------------------------------------------------------
(* the invariant over the half alone and over the whole link *)

LEMMA HalfStart ==
    ASSUME SendInit, net = {}, SendTypeOK
    PROVE  HalfInv
<1>1. NetOK
  BY DEF NetOK
<1>2. DOMAIN in_flight = {}
  BY DEF SendInit
<1>3. InFlightBounded
  BY <1>2, FS_EmptySet DEF InFlightBounded, MinOf
<1>4. Waits
  BY DEF SendInit, Waits, LoopsKnown, BlockedMeansFull, DrainMeansWaiting
<1> QED
  BY <1>1, <1>3, <1>4 DEF HalfInv

LEMMA HalfTypes ==
    ASSUME SendTypeOK, NetOK, HalfStep
    PROVE  SendTypeOK' /\ NetOK'
<1>1. CASE SendNext
  BY <1>1, SendNextType
<1>2. CASE handshake_initiator
  BY <1>2, HandshakeType
<1>3. ASSUME NEW s \in 0 .. (sequence_counter - 1), ack_handler(s)
      PROVE  SendTypeOK' /\ NetOK'
  BY <1>3, AckHandlerType
<1> QED
  BY <1>1, <1>2, <1>3 DEF HalfStep

LEMMA HalfInvStep ==
    ASSUME HalfInv, HalfStep
    PROVE  HalfInv'
<1>1. SendTypeOK' /\ NetOK'
  BY HalfTypes DEF HalfInv
<1>2. Waits'
  BY SendNextWaits, HandshakeWaits, AckWaits DEF HalfStep
<1>3. InFlightBounded'
  BY BoundedStep
<1> QED
  BY <1>1, <1>2, <1>3 DEF HalfInv

\* The parts of the invariant read only the variables of the half.
LEMMA WaitsKept ==
    ASSUME Waits, InFlightBounded, UNCHANGED sendVars
    PROVE  Waits' /\ InFlightBounded'
BY DEF sendVars, Waits, LoopsKnown, BlockedMeansFull, DrainMeansWaiting, InFlightBounded,
       WindowOpen

LEMMA HalfCorrect == MCSpec => []HalfInv
<1>1. MCInit => HalfInv
  <2>1. MCInit => SendTypeOK
    <3>1. SUFFICES ASSUME MCInit
                   PROVE  SendTypeOK
      OBVIOUS
    <3>2. DOMAIN in_flight = {} /\ sent \in Seq(Nat)
      BY <3>1 DEF MCInit, SendInit
    <3>3. cwnd \in Unit .. (MaxCwnd * Unit) /\ ssthresh \in Nat
      BY <3>1, UnitFacts DEF MCInit, SendInit
    <3> QED
      BY <3>1, <3>2, <3>3 DEF MCInit, SendInit
  <2> QED
    BY <2>1, HalfStart DEF MCInit
<1>2. HalfInv /\ [MCNext]_<<sendVars, netVars>> => HalfInv'
  <2>1. SUFFICES ASSUME HalfInv, [MCNext]_<<sendVars, netVars>>
                 PROVE  HalfInv'
    OBVIOUS
  <2>2. CASE MCNext
    BY <2>1, <2>2, HalfInvStep DEF MCNext, HalfStep
  <2>3. CASE UNCHANGED <<sendVars, netVars>>
    <3>1. SendTypeOK' /\ NetOK'
      BY <2>1, <2>3 DEF sendVars, netVars, HalfInv, NetOK
    <3> QED
      BY <2>1, <2>3, <3>1, WaitsKept DEF HalfInv
  <2> QED
    BY <2>1, <2>2, <2>3
<1> QED
  BY <1>1, <1>2, PTL DEF MCSpec

\* Over the whole link the half meets only ACKs that B has sent.
LEMMA LinkHalf == Spec => []HalfInv
<1>1. Init => HalfInv
  BY TypeInit, HalfStart DEF Init, TypeOK
<1>2. TypeOK /\ TypeOK' /\ HalfInv /\ [Next]_vars => HalfInv'
  <2>1. SUFFICES ASSUME TypeOK, TypeOK', HalfInv, [Next]_vars
                 PROVE  HalfInv'
    OBVIOUS
  <2>2. HalfStep \/ UNCHANGED sendVars
    BY <2>1 DEF TypeOK, Next, SenderStep, AnswerArrives, DeliverPacket, DeliverAck,
       ReceiverStep, Lose, HalfStep, vars
  <2>3. CASE HalfStep
    BY <2>1, <2>3, HalfInvStep
  <2>4. CASE UNCHANGED sendVars
    BY <2>1, <2>4, WaitsKept DEF HalfInv, TypeOK, NetOK
  <2> QED
    BY <2>2, <2>3, <2>4
<1> QED
  BY <1>1, <1>2, TypeCorrect, PTL DEF Spec

-----------------------------------------------------------------------------
(* theorems *)

\* Every variable of the half keeps its type, whatever the peer acknowledges.
THEOREM HalfTyped == MCSpec => []SendTypeOK
<1>1. HalfInv => SendTypeOK
  BY DEF HalfInv
<1> QED
  BY <1>1, HalfCorrect, PTL

\* send_packet never waits in cwnd_.wait with room in the window, with nothing in flight,
\* or over loops that have ended, for every window: timeout_loop shrinks cwnd_ without
\* waking anybody, and needs to wake nobody.
THEOREM NoLostWakeUp == MCSpec => []BlockedMeansFull
<1>1. HalfInv => BlockedMeansFull
  BY DEF HalfInv, Waits
<1> QED
  BY <1>1, HalfCorrect, PTL

\* close() never waits in wait_in_flight_drained for something that has happened.
THEOREM NoIdleDrain == MCSpec => []DrainMeansWaiting
<1>1. HalfInv => DrainMeansWaiting
  BY DEF HalfInv, Waits
<1> QED
  BY <1>1, HalfCorrect, PTL

\* in_flight_ never holds more than MAX_CWND or MAX_IN_FLIGHT packets.
THEOREM WindowHolds == MCSpec => []InFlightBounded
<1>1. HalfInv => InFlightBounded
  BY DEF HalfInv
<1> QED
  BY <1>1, HalfCorrect, PTL

\* A registered packet leaves in_flight_ by its own ACK, by the failure of its own
\* async_send_to, or in stop_loops.
THEOREM NothingForgotten == MCSpec => KeptUntilConfirmed
<1>1. HalfInv /\ [MCNext]_<<sendVars, netVars>> =>
         [\A s \in DOMAIN in_flight \ DOMAIN in_flight' :
             \/ s \in confirmed'
             \/ pc = "sending" /\ pc' = "failed" /\ s = current
             \/ pc' = "closed"]_sendVars
  BY KeepsFlight DEF HalfInv, MCNext, HalfStep, Released
<1> QED
  BY <1>1, HalfCorrect, PTL DEF MCSpec, KeptUntilConfirmed

\* The same over the whole link.
THEOREM LinkWaits == Spec => [](BlockedMeansFull /\ DrainMeansWaiting /\ InFlightBounded)
<1>1. HalfInv => BlockedMeansFull /\ DrainMeansWaiting /\ InFlightBounded
  BY DEF HalfInv, Waits
<1> QED
  BY <1>1, LinkHalf, PTL
=============================================================================
