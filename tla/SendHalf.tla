------------------------------ MODULE SendHalf ------------------------------
(***************************************************************************)
(* The sending half of one endpoint: ProtoStream::send and close over      *)
(* ProtoHopZ::send_packet, ack_handler, timeout_loop, resend_packet,       *)
(* wait_in_flight_drained, start_loops, stop_loops and store_loop_error.   *)
(* One application coroutine calls it.  All coroutines share one           *)
(* io_context thread, so the code between two co_awaits is one action;     *)
(* Async_value::notify_one and set resume their waiter inside the caller,  *)
(* so what the waiter does next is part of the waking action.  Operations  *)
(* have the names of the source; an operation that suspends is several     *)
(* actions, the later ones with a suffix.                                  *)
(***************************************************************************)
EXTENDS Datagrams, Integers, Sequences

CONSTANTS
    N,            \* bound of the model: messages the application sends
    InitialCwnd,  \* PHZ::INITIAL_CWND
    MaxCwnd,      \* PHZ::MAX_CWND
    MaxInFlight,  \* PHZ::MAX_IN_FLIGHT
    Unit          \* one packet of the (double) congestion window, in fixed point

ASSUME SendAssumption ==
    /\ N \in Nat
    /\ InitialCwnd \in Nat \ {0} /\ MaxCwnd \in Nat \ {0} /\ MaxInFlight \in Nat \ {0}
    /\ InitialCwnd <= MaxCwnd
    /\ Unit \in Nat \ {0}

VARIABLES
    pc,                   \* where the application coroutine is (see PcStates)
    call,                 \* type of the packet send_packet is sending
    current,              \* the sequence number inside async_send_to
    sequence_counter,     \* below 2^32 in the model: it never wraps here
    in_flight,            \* seq -> [type, body, late]; late: TIMEOUT has passed since send_time
    cwnd, ssthresh,       \* in multiples of 1/Unit
    timed_out,            \* what is left of timeout_loop's snapshot
    resending,            \* {} or {the seq inside resend_packet's async_send_to}
    loops_started, loop_error, connection_encrypted,       \* ProtoHopZ
    loops_running, stream_error,                           \* ProtoStream
    aborting,             \* a cancelled loop has not run its completion handler yet
    sent,                 \* history: sent[i] is the sequence number of message i
    confirmed,            \* history: the sequence numbers ack_handler has erased
    drained               \* history: what close() got from wait_in_flight_drained

appVars    == <<pc, call, current, sequence_counter, sent, drained>>
windowVars == <<in_flight, cwnd, ssthresh>>
timerVars  == <<timed_out, resending>>
errorVars  == <<loops_started, loop_error, connection_encrypted, loops_running,
                stream_error, aborting>>
sendVars   == <<appVars, windowVars, timerVars, errorVars, confirmed>>

PcStates == { "idle",         \* between two calls
              "send_posted",  \* post(strand_) at the head of send_packet
              "blocked",      \* cwnd_.wait in send_packet
              "sending",      \* async_send_to in send_packet
              "handshake",    \* receive_packet in handshake_initiator
              "failed",       \* a call returned an error: the application stops
              "drain_posted", \* post(strand_) at the head of wait_in_flight_drained
              "draining",     \* the parallel_group of drained_signal_ and the timer
              "drain_fired",  \* one of the two has fired
              "stop_posted",  \* post(strand_) at the head of stop_loops
              "closed" }

MaxOf(a, b) == IF a >= b THEN a ELSE b
MinOf(a, b) == IF a <= b THEN a ELSE b

\* The type of every variable; in_flight and timeout_loop's snapshot only hold
\* sequence numbers send_packet has given out, and update() keeps cwnd_ between
\* one packet and MAX_CWND.
SendTypeOK ==
    /\ pc \in PcStates
    /\ call \in {"DATA", "HANDSHAKE"}
    /\ current \in Nat
    /\ sequence_counter \in Nat
    /\ DOMAIN in_flight \subseteq 0 .. (sequence_counter - 1)
    /\ \A s \in DOMAIN in_flight :
          in_flight[s] \in [type : {"DATA", "HANDSHAKE"}, body : Nat, late : BOOLEAN]
    /\ cwnd \in Unit .. (MaxCwnd * Unit)
    /\ ssthresh \in Nat
    /\ timed_out \subseteq 0 .. (sequence_counter - 1)
    /\ resending \subseteq 0 .. (sequence_counter - 1)
    /\ loops_started \in BOOLEAN /\ loop_error \in BOOLEAN
    /\ connection_encrypted \in BOOLEAN
    /\ loops_running \in BOOLEAN /\ stream_error \in BOOLEAN
    /\ aborting \in BOOLEAN /\ drained \in BOOLEAN
    /\ sent \in Seq(Nat)
    /\ confirmed \subseteq 0 .. (sequence_counter - 1)

SendInit ==
    /\ pc = "idle" /\ call = "DATA" /\ current = 0
    /\ sequence_counter = 0
    /\ in_flight = [s \in {} |-> 0]
    /\ cwnd = InitialCwnd * Unit /\ ssthresh = InitialCwnd * Unit
    /\ timed_out = {} /\ resending = {}
    /\ loops_started = FALSE /\ loop_error = FALSE /\ connection_encrypted = FALSE
    /\ loops_running = FALSE /\ stream_error = FALSE /\ aborting = FALSE
    /\ sent = << >> /\ confirmed = {} /\ drained = FALSE

\* The application coroutine goes to state `to` and nothing else changes.
Goto(to) ==
    /\ pc' = to
    /\ UNCHANGED <<call, current, sequence_counter, sent, drained, windowVars, timerVars,
                   errorVars, confirmed, net>>

-----------------------------------------------------------------------------
(* ProtoStream::send and ProtoHopZ::send_packet *)

\* Mutant of WindowOpen: admits one packet too many.
WindowOpen_OffByOne(flight, window) ==
    /\ Cardinality(DOMAIN flight) <= window \div Unit
    /\ Cardinality(DOMAIN flight) <= MaxInFlight

\* The two limits of send_packet's wait loop.
WindowOpen(flight, window) ==
    /\ Cardinality(DOMAIN flight) < window \div Unit
    /\ Cardinality(DOMAIN flight) < MaxInFlight

\* The rest of send_packet up to its async_send_to: the packet takes the next
\* sequence number and is registered before it is handed to the socket.  When
\* encrypt_data fails, or its result is too large, the number is lost.
Register(flight) ==
    LET body == IF call = "DATA" THEN Len(sent) + 1 ELSE 0
    IN  /\ sequence_counter' = sequence_counter + 1
        /\ current' = sequence_counter
        /\ \/ /\ in_flight' = With(flight, sequence_counter,
                                   [type |-> call, body |-> body, late |-> FALSE])
              /\ Emit(Packet(call, sequence_counter, body))
              /\ sent' = IF call = "DATA" THEN Append(sent, sequence_counter) ELSE sent
              /\ pc' = "sending"
           \/ /\ connection_encrypted
              /\ in_flight' = flight
              /\ pc' = "failed"
              /\ UNCHANGED <<sent, net>>

\* ProtoStream::start_loops before its handshake: the errors stored so far are
\* cleared, the transport's loops start, and crypto_context_.init() may fail.
start_loops ==
    /\ ~loops_running
    /\ stream_error' = FALSE /\ loop_error' = FALSE /\ loops_started' = TRUE
    /\ call' = "HANDSHAKE"
    /\ pc' \in {"send_posted", "failed"}
    /\ UNCHANGED <<connection_encrypted, loops_running, aborting>>

send ==
    /\ pc = "idle" /\ Len(sent) < N
    /\ \/ /\ loops_running
          /\ call' = "DATA" /\ pc' = "send_posted"
          /\ UNCHANGED errorVars
       \/ start_loops
    /\ UNCHANGED <<current, sequence_counter, sent, drained, windowVars, timerVars,
                   confirmed, net>>

send_packet ==
    /\ pc = "send_posted"
    /\ \/ /\ loop_error
          /\ pc' = "failed"
          /\ UNCHANGED <<current, sequence_counter, sent, in_flight, net>>
       \/ /\ ~loop_error /\ ~WindowOpen(in_flight, cwnd)
          /\ pc' = "blocked"
          /\ UNCHANGED <<current, sequence_counter, sent, in_flight, net>>
       \/ /\ ~loop_error /\ WindowOpen(in_flight, cwnd)
          /\ Register(in_flight)
    /\ UNCHANGED <<call, drained, cwnd, ssthresh, timerVars, errorVars, confirmed>>

\* async_send_to has completed.  A DATA send returns to the application.  After a
\* HANDSHAKE, handshake_initiator waits in receive_packet; if the loops have
\* failed meanwhile, their wake packet is already there.
send_packet_done ==
    /\ pc = "sending"
    /\ Goto(CASE call = "DATA" -> "idle"
              [] call = "HANDSHAKE" /\ loop_error -> "failed"
              [] OTHER -> "handshake")

\* async_send_to has failed, or was cancelled by socket_.cancel.
send_packet_error ==
    /\ pc = "sending"
    /\ pc' = "failed"
    /\ in_flight' = Without(in_flight, current)
    /\ UNCHANGED <<call, current, sequence_counter, sent, drained, cwnd, ssthresh,
                   timerVars, errorVars, confirmed, net>>

\* handshake_initiator takes the first packet from the peer; a packet of another
\* size than a key, or a key that OpenSSL rejects, fails the call.  Otherwise
\* start_loops starts receive_chunks_loop and send goes on with its message.
handshake_initiator ==
    /\ pc = "handshake"
    /\ \/ /\ connection_encrypted' = TRUE /\ loops_running' = TRUE
          /\ call' = "DATA" /\ pc' = "send_posted"
       \/ /\ pc' = "failed"
          /\ UNCHANGED <<call, connection_encrypted, loops_running>>
    /\ UNCHANGED <<current, sequence_counter, sent, drained, windowVars, timerVars,
                   loops_started, loop_error, stream_error, aborting, confirmed, net>>

-----------------------------------------------------------------------------
(* ProtoHopZ::ack_handler *)

\* Mutant of Grow: std::min with MAX_CWND is missing.
Grow_NoCap(window) ==
    IF window < ssthresh THEN window + Unit ELSE window + (Unit * Unit) \div window

\* Slow start below ssthresh, then 1/cwnd for each ACK, never above MAX_CWND.
Grow(window) ==
    MinOf(IF window < ssthresh THEN window + Unit ELSE window + (Unit * Unit) \div window,
          MaxCwnd * Unit)

\* Mutant of Resumes: the ACK forgets notify_one.
Resumes_LostWakeup(left, window) == FALSE

\* notify_one: a blocked send_packet looks at the window again and gets through.
Resumes(left, window) == pc = "blocked" /\ WindowOpen(left, window)

\* Mutant of SignalDrained: nobody sets the signal.
SignalDrained_Never(left) == pc

\* drained_signal_.set(true), which ends the wait of a drain.
SignalDrained(left) == IF pc = "draining" /\ DOMAIN left = {} THEN "drain_fired" ELSE pc

ack_handler(s) ==
    LET left == Without(in_flight, s)
        grown == Grow(cwnd)
    IN  /\ loops_started
        /\ \/ /\ s \notin DOMAIN in_flight       \* already acknowledged
              /\ UNCHANGED <<appVars, windowVars, confirmed, net>>
           \/ /\ s \in DOMAIN in_flight
              /\ cwnd' = grown
              /\ confirmed' = confirmed \union {s}
              /\ \/ /\ Resumes(left, grown)
                    /\ Register(left)
                 \/ /\ ~Resumes(left, grown)
                    /\ in_flight' = left
                    /\ pc' = SignalDrained(left)
                    /\ UNCHANGED <<current, sequence_counter, sent, net>>
              /\ UNCHANGED <<call, drained, ssthresh>>
        /\ UNCHANGED <<timerVars, errorVars>>

-----------------------------------------------------------------------------
(* ProtoHopZ::timeout_loop and resend_packet *)

\* TIMEOUT passes for one packet in flight.
Age(s) ==
    /\ loops_started
    /\ s \in DOMAIN in_flight /\ ~in_flight[s].late
    /\ in_flight' = [in_flight EXCEPT ![s].late = TRUE]
    /\ UNCHANGED <<appVars, cwnd, ssthresh, timerVars, errorVars, confirmed, net>>

\* Mutant of LatePackets: only a HANDSHAKE is ever found late.
LatePackets_HandshakeOnly ==
    {s \in DOMAIN in_flight : in_flight[s].late /\ in_flight[s].type = "HANDSHAKE"}

\* The snapshot timeout_loop takes of in_flight_.
LatePackets == {s \in DOMAIN in_flight : in_flight[s].late}

\* One pass of the loop finds late packets: the window collapses, no waiter is
\* woken, and the late sequence numbers are remembered.
timeout_loop ==
    /\ loops_started /\ timed_out = {} /\ resending = {} /\ LatePackets # {}
    /\ timed_out' = LatePackets
    /\ ssthresh' = MaxOf(cwnd \div 2, 2 * Unit)
    /\ cwnd' = Unit
    /\ UNCHANGED <<appVars, in_flight, resending, errorVars, confirmed, net>>

\* The next remembered number, skipped when it was acknowledged meanwhile.
resend_packet(s) ==
    /\ s \in timed_out /\ resending = {}
    /\ timed_out' = timed_out \ {s}
    /\ \/ /\ s \in DOMAIN in_flight
          /\ resending' = {s}
          /\ Emit(Packet(in_flight[s].type, s, in_flight[s].body))
       \/ /\ s \notin DOMAIN in_flight
          /\ UNCHANGED <<resending, net>>
    /\ UNCHANGED <<appVars, windowVars, errorVars, confirmed>>

\* Its async_send_to has completed; the ACK may have come first.
resend_packet_done(s) ==
    /\ s \in resending
    /\ resending' = {}
    /\ in_flight' = IF s \in DOMAIN in_flight THEN [in_flight EXCEPT ![s].late = FALSE]
                                              ELSE in_flight
    /\ UNCHANGED <<appVars, cwnd, ssthresh, timed_out, errorVars, confirmed, net>>

-----------------------------------------------------------------------------
(* failures of the background loops *)

\* Mutant of WakeAll: cwnd_.notify_one is forgotten.
WakeAll_NoNotify == CASE pc = "handshake" -> "failed"
                      [] pc = "draining" -> "drain_fired"
                      [] OTHER -> pc

\* Every waiter is woken: cwnd_.notify_one, drained_signal_.set and the wake
\* packet for handshake_initiator.
WakeAll == CASE pc \in {"blocked", "handshake"} -> "failed"
             [] pc = "draining" -> "drain_fired"
             [] OTHER -> pc

\* The loops stop, the waiters are woken, and the wake packet makes
\* receive_chunks_loop, if it runs, store the error in the stream.
store_loop_error ==
    /\ loop_error' = TRUE /\ loops_started' = FALSE
    /\ stream_error' = (stream_error \/ loops_running)
    /\ loops_running' = FALSE
    /\ timed_out' = {} /\ resending' = {}
    /\ sequence_counter' = sequence_counter + 1
    /\ pc' = WakeAll
    /\ UNCHANGED <<call, current, sent, drained, windowVars, connection_encrypted,
                   confirmed, net>>

\* No packet from the peer for IDLE_TIMEOUT.
IdleTimeout ==
    /\ loops_started /\ connection_encrypted
    /\ store_loop_error
    /\ aborting' = TRUE

\* A socket operation of a loop fails, or a packet of the peer is unacceptable.
LoopFails ==
    /\ loops_started
    /\ store_loop_error
    /\ aborting' = TRUE

\* The completion handler of the loop that store_loop_error cancelled.  It stores
\* operation_aborted, unless an error is stored, stop_loops is done, or the loop
\* ended by the exception of a cancelled co_await, which carries no error code.
handle_loop_result ==
    /\ aborting
    /\ \/ /\ aborting' = FALSE
          /\ UNCHANGED <<appVars, windowVars, timerVars, loops_started, loop_error,
                         connection_encrypted, loops_running, stream_error, confirmed, net>>
       \/ /\ ~loop_error /\ pc # "closed"
          /\ store_loop_error
          /\ UNCHANGED aborting

-----------------------------------------------------------------------------
(* ProtoStream::close *)

close == /\ pc = "idle" /\ (loops_running \/ stream_error)
         /\ Goto("drain_posted")

\* What close does when wait_in_flight_drained returns, up to stop_loops' post.
close_drained(result) ==
    /\ drained' = result
    /\ loops_running' = FALSE
    /\ pc' = "stop_posted"
    /\ UNCHANGED <<call, current, sequence_counter, sent, windowVars, timerVars,
                   loops_started, loop_error, connection_encrypted, stream_error,
                   aborting, confirmed, net>>

wait_in_flight_drained ==
    /\ pc = "drain_posted"
    /\ \/ loop_error /\ close_drained(FALSE)
       \/ ~loop_error /\ DOMAIN in_flight = {} /\ close_drained(TRUE)
       \/ ~loop_error /\ DOMAIN in_flight # {} /\ Goto("draining")

\* Mutant of DrainTimeout: wait_in_flight_drained has no timer.
DrainTimeout_Missing == FALSE

\* CLOSE_DRAIN_TIMEOUT.
DrainTimeout == pc = "draining" /\ Goto("drain_fired")

\* Mutant of DrainResult: whatever has fired counts as drained.
DrainResult_Fired == TRUE

\* What wait_in_flight_drained finds when the parallel_group resumes it, some time
\* after one of the two has fired.
DrainResult == DOMAIN in_flight = {} /\ ~loop_error

wait_in_flight_drained_done ==
    /\ pc = "drain_fired"
    /\ close_drained(DrainResult)

stop_loops ==
    /\ pc = "stop_posted"
    /\ pc' = "closed"
    /\ sequence_counter' = sequence_counter + 1
    /\ in_flight' = [s \in {} |-> 0]
    /\ timed_out' = {} /\ resending' = {}
    /\ loops_started' = FALSE
    /\ UNCHANGED <<call, current, sent, drained, cwnd, ssthresh, loop_error,
                   connection_encrypted, loops_running, stream_error, aborting,
                   confirmed, net>>

-----------------------------------------------------------------------------

\* The steps of this half that need no datagram from the peer.
SendNext ==
    \/ send \/ send_packet \/ send_packet_done \/ send_packet_error
    \/ timeout_loop
    \/ \E s \in DOMAIN in_flight : Age(s)
    \/ \E s \in timed_out : resend_packet(s)
    \/ \E s \in resending : resend_packet_done(s)
    \/ IdleTimeout \/ LoopFails \/ handle_loop_result
    \/ close \/ wait_in_flight_drained \/ DrainTimeout \/ wait_in_flight_drained_done
    \/ stop_loops

-----------------------------------------------------------------------------
(* properties *)

\* No lost wake-up in send_packet: while it waits in cwnd_.wait the window really
\* is full, something in flight can still free it, and no loop error is stored,
\* although timeout_loop shrinks cwnd_ without waking anybody.
BlockedMeansFull ==
    pc = "blocked" => /\ ~WindowOpen(in_flight, cwnd)
                      /\ DOMAIN in_flight # {}
                      /\ loops_started /\ ~loop_error

\* No lost wake-up in wait_in_flight_drained: it keeps waiting only while there
\* is something in flight and the loops that could empty it are alive.
DrainMeansWaiting ==
    pc = "draining" => DOMAIN in_flight # {} /\ loops_started /\ ~loop_error

\* close() learns "drained" only if the peer has acknowledged every message that
\* send() took, whatever the race between the signal, the timer and a loop error.
DrainedMeansConfirmed ==
    drained => \A i \in 1 .. Len(sent) : sent[i] \in confirmed

\* What is in flight never exceeds MAX_CWND or MAX_IN_FLIGHT, although the window
\* is checked before a wait and used after it.
InFlightBounded ==
    Cardinality(DOMAIN in_flight) <= MinOf(MaxInFlight, MaxCwnd)

\* A registered packet is never forgotten: it leaves in_flight_ only when its own
\* ACK arrives, when its own async_send_to fails, or in stop_loops.
KeptUntilConfirmed ==
    [][\A s \in DOMAIN in_flight \ DOMAIN in_flight' :
          \/ s \in confirmed'
          \/ pc = "sending" /\ pc' = "failed" /\ s = current
          \/ pc' = "closed"]_sendVars
=============================================================================
