----------------------------- MODULE Connection -----------------------------
(***************************************************************************)
(* Whole endpoints: processes that send (initiators) and one that receives *)
(* (the responder), each an application coroutine (Sender, Receiver) over  *)
(* ProtoStream over ProtoHopZ with its Crypto_context.  The module follows *)
(* a dialogue from the handshake to the exit of the processes: keys, the   *)
(* moment each side begins to encrypt, the peer's address, silence, the    *)
(* user's answer, a restart of the loops.  The congestion window, the      *)
(* retransmission times and the drain are SendHalf's, the reorder window   *)
(* and its cap ReceiveHalf's, the contents of a transfer Transfer's.       *)
(*                                                                         *)
(* An endpoint is a record.  Async_queue::push resumes its waiter inside   *)
(* the call, so a datagram runs receive_loop, receive_chunks_loop and the  *)
(* application in one step: each of these is an operator that gives the    *)
(* endpoint after its part (or the set of its outcomes).                   *)
(***************************************************************************)
EXTENDS CryptoContext, Integers, FiniteSets, Sequences, SequencesExt

CONSTANTS
    Initiators, Responder,   \* the endpoints, named by their addresses
    NoPeer,                  \* the responder's peer_endpoint_ before the first packet
    Pairs,                   \* bound of the model: the key pairs that can be generated
    Messages,                \* bound of the model: messages of a transfer
    Nonces,                  \* "junk", "lucky": what a nonce looks like, taken for a header
    Again                    \* bound of the model: may a datagram arrive again (FALSE: no)

ASSUME ConnectionAssumption ==
    /\ Responder \notin Initiators
    /\ NoPeer \notin Initiators \union {Responder}
    /\ Pairs \subseteq Nat \ {NoPair}
    /\ Messages \in Nat \ {0}
    /\ Nonces \subseteq {"junk", "lucky"} /\ Nonces # {}
    /\ Again \subseteq BOOLEAN /\ Again # {}

VARIABLES
    ep,      \* endpoint -> its state (see Fresh)
    net,     \* the datagrams that may still arrive
    drawn    \* history: the key pairs generated so far

vars == <<ep, net, drawn>>

Endpoints == Initiators \union {Responder}

\* Where the application coroutine is.
AtStates == { "start",       \* nothing called yet
              "posted",      \* post(strand_) at the head of send_packet
              "writing",     \* async_send_to in send_packet
              "handshake",   \* receive_packet in handshake_initiator or _responder
              "receiving",   \* ready_chunks_.pop in ProtoStream::receive
              "asking",      \* std::getline in Receiver: it blocks the whole thread
              "closing",     \* ProtoStream::close
              "done", "refused", "failed", "killed" }

Ended == {"done", "refused", "failed", "killed"}

\* What the dialogue carries: from the initiator message 1 announces the size and the
\* last one is END_TRANSFER; the responder answers once.
Announcement == 1
LastMessage  == Announcement + Messages
CONFIRM == 1
CONFIRM_FAILED == 2

\* A datagram; body is a public key, a message or nothing.
Datagram(from, to, type, seq, body, key, nonce) ==
    [from |-> from, to |-> to, type |-> type, seq |-> seq, body |-> body,
     key |-> key, nonce |-> nonce]

\* The members of ProtoHopZ and ProtoStream, and the application's place.
Fresh(peer) ==
    [ at |-> "start",
      call |-> "DATA",                 \* type of the packet in send_packet
      message |-> 0,                   \* the last message the application gave to send()
      current |-> 0,                   \* its number, inside async_send_to
      crypto |-> NewContext,
      encrypted |-> FALSE,             \* connection_encrypted_
      counter |-> 0,                   \* sequence_counter_
      in_flight |-> {},                \* the datagrams in in_flight_
      received |-> {},                 \* received_packets_
      queue |-> << >>,                 \* received_packets_queue_
      buffer |-> {},                   \* packets_buffer of receive_chunks_loop
      expected |-> 1,                  \* expected_sequence
      ready |-> << >>,                 \* ready_chunks_
      peer |-> peer,                   \* peer_endpoint_
      loops |-> FALSE,                 \* loops_started_
      loop_error |-> FALSE,
      running |-> FALSE,               \* loops_running_
      stream_error |-> FALSE,
      silent |-> FALSE,                \* IDLE_TIMEOUT has passed since last_peer_activity_
      handed |-> << >> ]               \* history: the packets receive() has returned

Init ==
    /\ ep = [e \in Endpoints |-> Fresh(IF e = Responder THEN NoPeer ELSE Responder)]
    /\ net = {} /\ drawn = {}

-----------------------------------------------------------------------------
(* The application: what Sender and Receiver do when a call returns. *)

Goto(s, at) == [s EXCEPT !.at = at]

\* The application returns an error; its process goes on as long as the loops do.
Fail(s) == Goto(s, "failed")

\* ProtoStream::send while the loops run.
Send(s, message) == [s EXCEPT !.at = "posted", !.call = "DATA", !.message = message]

\* An application reads ciphertext as a packet of its own only by chance.
Readable(p) == p.key = NoKey \/ p.nonce = "lucky"

\* Mutant of TakeReply: whatever the answer is, the transfer starts.
TakeReply_Any(s, p) == Send(s, Announcement + 1)

\* Sender::transfer_confirmation has the answer; a refusal ends it without close().
TakeReply(s, p) == IF p.body = CONFIRM THEN Send(s, Announcement + 1) ELSE Goto(s, "refused")

\* Receiver: the announcement, then packet after packet up to END_TRANSFER.
TakePacket(s, p) == CASE p.body = Announcement -> Goto(s, "asking")
                      [] p.body = LastMessage  -> Goto(s, "closing")
                      [] OTHER                 -> s

\* receive() returns a chunk.
Take(e, s, p) ==
    LET got == [s EXCEPT !.handed = Append(@, p)]
    IN  IF ~Readable(p)       THEN Fail(got)
        ELSE IF e = Responder THEN TakePacket(got, p)
        ELSE                       TakeReply(got, p)

-----------------------------------------------------------------------------
(* ProtoStream: receive and receive_chunks_loop *)

\* ready_chunks_.push
Hand(e, s, p) == IF s.at = "receiving" THEN Take(e, s, p) ELSE [s EXCEPT !.ready = Append(@, p)]

\* One packet after the other.
HandAll(e, s, packets) == FoldLeft(LAMBDA t, p : Hand(e, t, p), s, packets)

\* The application calls receive(), takes what is ready as long as it goes on doing so,
\* and then waits in pop().
Receive(e, s) ==
    IF s.stream_error THEN Fail(s)
    ELSE HandAll(e, [s EXCEPT !.at = "receiving", !.ready = << >>], s.ready)

\* The packet of the buffer with a number.
Numbered(buffer, n) == CHOOSE p \in buffer : p.seq = n

\* Mutant of Waiting: what has been pushed stays in the buffer.
Waiting_All(buffer, next) == buffer

\* What packets_buffer still holds once the packets below next have been pushed.
Waiting(buffer, next) == {p \in buffer : p.seq > next}

\* One turn of receive_chunks_loop: a HANDSHAKE is skipped, an old or a buffered packet
\* dropped, and what has become consecutive is pushed to ready_chunks_.
Chunk(e, s, p) ==
    IF p.type # "DATA" \/ p.seq < s.expected \/ p.seq \in {q.seq : q \in s.buffer} THEN s
    ELSE LET all  == s.buffer \union {p}
             seqs == {q.seq : q \in all}
             next == CHOOSE n \in s.expected .. (s.expected + Cardinality(all)) :
                        n \notin seqs /\ (s.expected .. (n - 1)) \subseteq seqs
             flushed == [i \in 1 .. (next - s.expected) |-> Numbered(all, s.expected + i - 1)]
         IN  HandAll(e, [s EXCEPT !.buffer = Waiting(all, next), !.expected = next], flushed)

\* Turn after turn.
ChunkAll(e, s, packets) == FoldLeft(LAMBDA t, p : Chunk(e, t, p), s, packets)

\* start_loops after the handshake: receive_chunks_loop starts, with a buffer of its
\* own, on what is already queued.
StartChunks(e, s) ==
    ChunkAll(e, [s EXCEPT !.running = TRUE, !.queue = << >>, !.buffer = {}, !.expected = 1],
             s.queue)

-----------------------------------------------------------------------------
(* ProtoHopZ: the handshake and the background loops *)

\* A payload of X25519_LEN bytes: a key in the clear.  (The type is not looked at.)
IsKey(p) == p.type = "HANDSHAKE" /\ p.key = NoKey

\* handshake_initiator and handshake_responder with the first packet of the peer: the
\* initiator is done and sends its message, the responder answers with its own key.
TakeHandshake(e, s, p) ==
    IF ~IsKey(p) THEN {Fail(s)}
    ELSE {LET keyed == [s EXCEPT !.crypto = o.context]
          IN  IF ~o.ok              THEN Fail(keyed)
              ELSE IF e = Responder THEN [keyed EXCEPT !.at = "posted", !.call = "HANDSHAKE"]
              ELSE Send(StartChunks(e, [keyed EXCEPT !.encrypted = TRUE]), s.message + 1)
          : o \in set_peer_public_key(s.crypto, p.body)}

\* received_packets_queue_.push: one of the handshakes or receive_chunks_loop may wait.
Push(e, s, p) ==
    IF s.at = "handshake" THEN TakeHandshake(e, s, p)
    ELSE IF s.running     THEN {Chunk(e, s, p)}
    ELSE                       {[s EXCEPT !.queue = Append(@, p)]}

\* store_loop_error: the loops stop and every waiter is woken; receive_chunks_loop, if
\* it runs, stores the error in the stream.
StoreLoopError(s) ==
    [s EXCEPT !.loop_error = TRUE, !.loops = FALSE,
              !.counter = @ + 1,
              !.stream_error = @ \/ s.running, !.running = FALSE,
              !.at = IF @ \in {"handshake", "receiving"} THEN "failed" ELSE @]

\* The responder locks onto whoever writes first.
Accepted(s, from) == s.peer \in {NoPeer, from}

\* decrypt_data, once the connection counts as encrypted.
Opens(s, p) == p.type = "DATA" /\ s.encrypted => CanDecrypt(s.crypto, p.key)

\* Mutant of Opened: the plaintext is not copied back into the packet.
Opened_AsIs(s, p) == p

Opened(s, p) == IF p.type = "DATA" /\ s.encrypted THEN [p EXCEPT !.key = NoKey] ELSE p

-----------------------------------------------------------------------------
(* Actions of the application coroutine *)

Become(e, s) == ep' = [ep EXCEPT ![e] = s]

\* ProtoStream::start_loops up to the first wait of its handshake: stored errors are
\* cleared, the loops start, Crypto_context::init draws a key pair.
start_loops(e) ==
    LET s == [ep[e] EXCEPT !.loops = TRUE, !.loop_error = FALSE, !.stream_error = FALSE,
                           !.silent = FALSE, !.call = "HANDSHAKE"]
    IN  \E pair \in Pairs \ drawn : \E o \in init(s.crypto, pair) :
            LET keyed == [s EXCEPT !.crypto = o.context]
            IN  /\ drawn' = drawn \union {pair}
                /\ Become(e, IF ~o.ok THEN Fail(keyed)
                             ELSE Goto(keyed, IF e = Responder THEN "handshake" ELSE "posted"))

\* Sender::start and Receiver::start: the first send() or receive().
start(e) ==
    /\ ep[e].at = "start"
    /\ start_loops(e)
    /\ UNCHANGED net

\* Mutant of Sealing: data goes out in the clear.
Sealing_Never(s) == NoKey

Sealing(s) == IF s.encrypted THEN s.crypto.key ELSE NoKey

\* send_packet: the packet gets its number, is sealed and registered, and goes out.
\* When encrypt_data fails the number is lost.
send_packet(e) ==
    /\ ep[e].at = "posted"
    /\ LET s == ep[e]
           numbered == [s EXCEPT !.counter = @ + 1, !.current = s.counter]
           packet(nonce) == Datagram(e, s.peer, s.call, s.counter,
                                     IF s.call = "DATA" THEN s.message ELSE s.crypto.own,
                                     Sealing(s), nonce)
       IN  \/ /\ s.loop_error
              /\ Become(e, Fail(s))
              /\ UNCHANGED net
           \/ /\ ~s.loop_error /\ s.encrypted
              /\ Become(e, Fail(numbered))
              /\ UNCHANGED net
           \/ /\ ~s.loop_error /\ (s.encrypted => CanEncrypt(s.crypto))
              /\ \E nonce \in IF s.encrypted THEN Nonces ELSE {"junk"} :
                    /\ Become(e, [numbered EXCEPT !.at = "writing",
                                                  !.in_flight = @ \union {packet(nonce)}])
                    /\ net' = net \union {packet(nonce)}
    /\ UNCHANGED drawn

\* Its async_send_to has failed or was cancelled.
send_packet_error(e) ==
    /\ ep[e].at = "writing"
    /\ Become(e, [Fail(ep[e]) EXCEPT !.in_flight = {p \in @ : p.seq # ep[e].current}])
    /\ UNCHANGED <<net, drawn>>

\* handshake_responder has sent its key: only now does it count as encrypted.  The
\* application then waits for the announcement.
HandshakeSent(e, s) ==
    LET encrypted == [s EXCEPT !.encrypted = TRUE]
    IN  IF s.loop_error THEN Fail([encrypted EXCEPT !.stream_error = TRUE])
                        ELSE Receive(e, StartChunks(e, encrypted))

handshake_responder(e) ==
    /\ e = Responder /\ ep[e].at = "writing" /\ ep[e].call = "HANDSHAKE"
    /\ Become(e, HandshakeSent(e, ep[e]))
    /\ UNCHANGED <<net, drawn>>

\* handshake_initiator has sent its key and calls receive_packet.
handshake_initiator(e) ==
    /\ e # Responder /\ ep[e].at = "writing" /\ ep[e].call = "HANDSHAKE"
    /\ LET s == ep[e]
       IN  \/ s.loop_error /\ Become(e, Fail(s))
           \/ ~s.loop_error /\ s.queue = << >> /\ Become(e, Goto(s, "handshake"))
           \/ /\ ~s.loop_error /\ s.queue # << >>
              /\ \E t \in TakeHandshake(e, [s EXCEPT !.queue = Tail(@)], Head(s.queue)) :
                    Become(e, t)
    /\ UNCHANGED <<net, drawn>>

\* send() has returned to the application.  Between two messages the initiator may find
\* that its stream has failed meanwhile; send() then starts the loops again.
message_sent(e) ==
    /\ ep[e].at = "writing" /\ ep[e].call = "DATA"
    /\ LET s == ep[e]
       IN  IF e = Responder
           THEN /\ Become(e, IF s.message = CONFIRM THEN Receive(e, s) ELSE Goto(s, "refused"))
                /\ UNCHANGED drawn
           ELSE \/ /\ s.message = Announcement
                   /\ Become(e, Receive(e, s)) /\ UNCHANGED drawn
                \/ /\ s.message = LastMessage
                   /\ Become(e, Goto(s, "closing")) /\ UNCHANGED drawn
                \/ /\ s.message \in (Announcement + 1) .. (LastMessage - 1) /\ s.running
                   /\ Become(e, Send(s, s.message + 1)) /\ UNCHANGED drawn
                \/ /\ s.message \in (Announcement + 1) .. (LastMessage - 1) /\ ~s.running
                   /\ start_loops(e)
    /\ UNCHANGED net

\* The user answers: std::getline returns.
answer(e) ==
    /\ ep[e].at = "asking"
    /\ \E m \in {CONFIRM, CONFIRM_FAILED} : Become(e, Send(ep[e], m))
    /\ UNCHANGED <<net, drawn>>

\* ProtoStream::close, drained, given up or with a stored error, and stop_loops.
close(e) ==
    /\ ep[e].at = "closing"
    /\ Become(e, [ep[e] EXCEPT !.at = IF ep[e].stream_error THEN "failed" ELSE "done",
                               !.loops = FALSE, !.running = FALSE, !.counter = @ + 1,
                               !.in_flight = {}, !.received = {}])
    /\ UNCHANGED <<net, drawn>>

-----------------------------------------------------------------------------
(* Actions of the background loops *)

\* The loops get to run: getline does not hold the only thread.
Awake(e) == ep[e].loops /\ ep[e].at # "asking"

\* Mutant of Acknowledge: a packet is acknowledged only when it is new.
Acknowledge_Once(s, p) ==
    IF p.seq \in s.received THEN {}
    ELSE {Datagram(p.to, s.peer, "ACK", p.seq, 0, NoKey, "junk")}

\* send_ack, which goes to peer_endpoint_.
Acknowledge(s, p) == {Datagram(p.to, s.peer, "ACK", p.seq, 0, NoKey, "junk")}

\* receive_loop takes a datagram; the network may keep it to hand it over again.
receive_loop(p, again) ==
    LET e == p.to
        s == [ep[e] EXCEPT !.silent = FALSE, !.peer = IF @ = NoPeer THEN p.from ELSE @]
        seen == [s EXCEPT !.received = @ \union {p.seq}]
        rest == IF again THEN net ELSE net \ {p}
        packet == p.type \in {"DATA", "HANDSHAKE"} /\ Accepted(ep[e], p.from)
    IN  /\ Awake(e)
        /\ \/ /\ ~Accepted(ep[e], p.from)
              /\ net' = rest /\ UNCHANGED ep
           \/ /\ p.type = "ACK" /\ Accepted(ep[e], p.from)
              /\ Become(e, [s EXCEPT !.in_flight = {q \in @ : q.seq # p.seq}])
              /\ net' = rest
           \/ /\ packet /\ p.seq \in s.received
              /\ Become(e, s)
              /\ net' = rest \union Acknowledge(s, p)
           \/ /\ packet /\ p.seq \notin s.received /\ ~Opens(s, p)
              /\ Become(e, StoreLoopError(s))
              /\ net' = rest \union Acknowledge(s, p)
           \/ /\ packet /\ p.seq \notin s.received /\ Opens(s, p)
              /\ \E t \in Push(e, seen, Opened(s, p)) : Become(e, t)
              /\ net' = rest \union Acknowledge(s, p)
        /\ UNCHANGED drawn

\* A packet in flight is late: timeout_loop sends it again as it is.
resend_packet(e) ==
    /\ Awake(e)
    /\ \E p \in ep[e].in_flight : net' = net \union {p}
    /\ UNCHANGED <<ep, drawn>>

\* IDLE_TIMEOUT passes without a packet from the peer.
Silence(e) ==
    /\ ep[e].loops /\ ~ep[e].silent
    /\ Become(e, [ep[e] EXCEPT !.silent = TRUE])
    /\ UNCHANGED <<net, drawn>>

\* Mutant of Idle: a connection with packets in flight does not count as idle.
Idle_Drained(s) == s.silent /\ s.encrypted /\ s.in_flight = {}

\* The condition of timeout_loop; before the handshake it waits for ever.
Idle(s) == s.silent /\ s.encrypted

IdleTimeout(e) ==
    /\ Awake(e) /\ Idle(ep[e])
    /\ Become(e, StoreLoopError(ep[e]))
    /\ UNCHANGED <<net, drawn>>

\* A socket operation of a loop fails.
LoopFails(e) ==
    /\ Awake(e)
    /\ Become(e, StoreLoopError(ep[e]))
    /\ UNCHANGED <<net, drawn>>

\* Somebody ends the process.
Killed(e) ==
    /\ ep[e].at \notin {"start", "killed"} /\ (ep[e].loops \/ ep[e].at \notin Ended)
    /\ Become(e, [Goto(ep[e], "killed") EXCEPT !.loops = FALSE, !.running = FALSE])
    /\ UNCHANGED <<net, drawn>>

Lose ==
    /\ \E p \in net : net' = net \ {p}
    /\ UNCHANGED <<ep, drawn>>

\* A step of the application of an endpoint.
AppStep(e) ==
    \/ start(e) \/ send_packet(e) \/ send_packet_error(e)
    \/ handshake_responder(e) \/ handshake_initiator(e) \/ message_sent(e)
    \/ close(e)

Next ==
    \/ \E e \in Endpoints :
          \/ AppStep(e) \/ answer(e)
          \/ resend_packet(e) \/ Silence(e) \/ IdleTimeout(e)
          \/ LoopFails(e) \/ Killed(e)
    \/ \E p \in net, again \in Again : receive_loop(p, again)
    \/ Lose

Spec == Init /\ [][Next]_vars

\* An async_send_to completes before the endpoint reads its next datagram.
PromptCompletion == \A e \in Endpoints : ep[e].at = "writing" => ep'[e].at # "writing" \/ ep'[e] = ep[e]

\* The connection when every send does.
PromptSpec == Init /\ [][Next /\ PromptCompletion]_vars

-----------------------------------------------------------------------------
(* properties *)

Datagrams ==
    [from : Endpoints, to : Endpoints, type : {"DATA", "HANDSHAKE", "ACK"}, seq : Nat,
     body : Nat, key : {NoKey} \union {[secret |-> {a, b}, salt |-> <<c, d>>] : a, b, c, d \in Pairs},
     nonce : {"junk", "lucky"}]

\* The type of every variable; what is numbered is below the counter.
TypeOK ==
    /\ net \subseteq Datagrams
    /\ drawn \subseteq Pairs
    /\ \A e \in Endpoints :
          LET s == ep[e]
          IN  /\ s.at \in AtStates /\ s.call \in {"DATA", "HANDSHAKE"}
              /\ s.peer \in Endpoints \union {NoPeer}
              /\ s.in_flight \subseteq Datagrams
              /\ \A p \in s.in_flight : p.from = e /\ p.seq < s.counter
              /\ s.buffer \subseteq Datagrams /\ \A p \in s.buffer : p.seq > s.expected
              /\ \A p \in s.buffer : p.seq \in s.received

\* Whatever is under way as data for an endpoint that counts as encrypted, from its
\* peer, is sealed with the very key that endpoint holds: both sides have derived the
\* same one, and a later start_loops with a new key pair does not change that.
Decryptable ==
    \A p \in net :
        p.type = "DATA" /\ ep[p.to].encrypted /\ ep[p.to].peer = p.from =>
            p.key # NoKey /\ CanDecrypt(ep[p.to].crypto, p.key)

\* What receive() returns is what send() was given, never ciphertext.
HandedIsPlain == \A e \in Endpoints : \A i \in DOMAIN ep[e].handed : ep[e].handed[i].key = NoKey

\* No content of a file leaves a sender before the user of the receiver has said yes,
\* and to this very sender.
ConsentFirst ==
    \A p \in net \union UNION {ep[e].in_flight : e \in Initiators} :
        p.type = "DATA" /\ p.from \in Initiators /\ p.body > Announcement =>
            ep[Responder].message = CONFIRM /\ ep[Responder].peer = p.from

=============================================================================
