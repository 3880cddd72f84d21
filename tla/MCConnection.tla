---------------------------- MODULE MCConnection ----------------------------
(***************************************************************************)
(* The connection over a network that keeps everything, and the dialogue   *)
(* under fairness, with and without failures.                              *)
(***************************************************************************)
EXTENDS Connection

CONSTANT First   \* the sender that may be alone

VARIABLE faults  \* settled at the start: may anything fail but the network?

connectionVars == <<vars, faults>>

FaultyInit == Init /\ faults = TRUE

-----------------------------------------------------------------------------
(* Conditions on steps *)

\* No call returns an error, nobody ends a process, and no endpoint is without a packet
\* for IDLE_TIMEOUT.
Healthy ==
    \A e \in Endpoints :
        ep'[e].at \notin {"failed", "killed"} /\ ~ep'[e].loop_error /\ ~ep'[e].silent

\* A network that keeps every datagram: it may still hand each over at any time, once
\* more or never, so nothing an endpoint can see is lost.  Either there is one sender,
\* with every fault (and ciphertext that never looks like a header), or several that write
\* to the port of one receiver, without faults.
KeepingSpec ==
    /\ FaultyInit
    /\ [][/\ Next /\ net \subseteq net' /\ UNCHANGED faults
          /\ \/ /\ \A e \in Initiators \ {First} : ep'[e].at = "start"
                /\ \A p \in net' : p.nonce = "junk"
             \/ Healthy /\ PromptCompletion]_connectionVars

\* An endpoint hears nothing for IDLE_TIMEOUT only if there is nothing to hear: no packet
\* for it is under way, and no running endpoint has one to send or to resend.
Quiet(e) ==
    /\ \A p \in net : p.to # e
    /\ \A f \in Endpoints : ep[f].loops /\ ep[f].at # "asking" =>
          /\ ep[f].at \notin {"posted", "writing"}
          /\ \A p \in ep[f].in_flight : p.to # e

PromptNetwork == \A e \in Endpoints : ep'[e].silent /\ ~ep[e].silent => Quiet(e)

\* close() gives up only on a peer that has stopped.
Patient ==
    \A e \in Endpoints : ep[e].at = "closing" /\ ep'[e].at # "closing" =>
        ep[e].in_flight = {} \/ ~ep[ep[e].peer].loops

\* A packet is sent again only when neither it nor its ACK is under way.
ResentWhenLost ==
    \A p \in net' \ net : \A e \in Endpoints :
        p \in ep[e].in_flight => \A q \in net : q.type = "ACK" /\ q.to = e => q.seq # p.seq

\* Nothing fails but the network, the user answers in time.
Faultless == Healthy /\ PromptCompletion /\ Patient /\ ResentWhenLost

\* No error but the idle timeout.
OnlyIdle ==
    \A e \in Endpoints :
        /\ ep'[e].at = "failed" => ep'[e].loop_error
        /\ ep'[e].loop_error /\ ~ep[e].loop_error => Idle(ep[e])

\* Everything is prompt but the user, and nobody ends a process.
UnhurriedUserSpec ==
    /\ FaultyInit
    /\ [][/\ Next /\ PromptCompletion /\ PromptNetwork /\ OnlyIdle /\ UNCHANGED faults
          /\ \A e \in Endpoints : ep'[e].at # "killed"]_connectionVars

-----------------------------------------------------------------------------
(* Fairness.  Posted handlers run, asynchronous sends complete, the timer of the          *)
(* retransmission expires; a datagram that is sent again and again gets through.          *)

\* Packet s of endpoint f, or its ACK, gets through.
PacketArrives(f, s) == \E p \in net : p.from = f /\ p.type # "ACK" /\ p.seq = s /\ receive_loop(p, FALSE)
AckArrives(f, s)    == \E p \in net : p.to = f /\ p.type = "ACK" /\ p.seq = s /\ receive_loop(p, FALSE)

ResentAgain(f, s) ==
    /\ resend_packet(f)
    /\ \E p \in ep[f].in_flight \ net : p.seq = s /\ net' = net \union {p}

\* The numbers an endpoint gives to its packets.
Numbers(e) == 0 .. IF e = Responder THEN Announcement ELSE LastMessage

\* The order of the two keys matters only to the salt: the initiator has the smaller one.
Ordered == \A e \in Endpoints : ep'[e].crypto.own \in {NoPair, IF e = Responder THEN 2 ELSE 1}

\* One process may be ended at any time, and the user may think for ever.  A packet that
\* is never delivered is as good as lost; nothing else is lost.  The timer of the idle
\* check expires again and again.
OneDies == \A e, f \in Endpoints : ep'[e].at = "killed" /\ ep'[f].at = "killed" => e = f

Deaths ==
    /\ Ordered /\ OneDies /\ OnlyIdle /\ PromptCompletion /\ ResentWhenLost
    /\ ep' = ep => net \subseteq net'

Live(action) == action /\ (IF faults THEN Deaths ELSE Faultless) /\ UNCHANGED faults

AnyInit == Init /\ faults \in BOOLEAN

LiveSpec ==
    /\ AnyInit
    /\ [][Live(Next)]_connectionVars
    /\ \A e \in Endpoints :
          /\ WF_connectionVars(Live(AppStep(e) \/ (~faults /\ answer(e))))
          /\ WF_connectionVars(faults /\ Silence(e) /\ UNCHANGED faults)
          /\ WF_connectionVars(faults /\ IdleTimeout(e) /\ UNCHANGED faults)
          /\ \A s \in Numbers(e) :
                /\ SF_connectionVars(Live(AckArrives(e, s)))
                /\ SF_connectionVars(Live(~faults /\ PacketArrives(e, s)))
                /\ WF_connectionVars(Live(~faults /\ ResentAgain(e, s)))

-----------------------------------------------------------------------------
(* properties *)

\* Over a fair network, nothing failing, the dialogue ends well on both sides, with the
\* same result.
DialogueCompletes ==
    ~faults => <>( \/ \A e \in Endpoints : ep[e].at = "done"
                   \/ \A e \in Endpoints : ep[e].at = "refused" )

\* A process whose connection counts as encrypted never hangs, whoever dies: it asks its
\* user, or its application ends and io_context.run() returns in main, although neither
\* a refusal nor an error closes the stream: the loops that are left end by themselves.
ConnectedEnds ==
    faults => \A e \in Endpoints :
        ep[e].encrypted ~> ep[e].at = "asking" \/ (ep[e].at \in Ended /\ ~ep[e].loops)

\* README: before it receives anything the receiver asks its user, and "y" accepts.  A
\* sender does not go away while the user of its peer is asked.
AnswerCounts ==
    \A e \in Initiators :
        ep[Responder].at = "asking" /\ ep[Responder].peer = e => ep[e].at # "failed"
=============================================================================
