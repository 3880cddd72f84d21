------------------------ MODULE ConnectionInvariants ------------------------
(***************************************************************************)
(* The inductive invariant of Connection.                                  *)
(***************************************************************************)
EXTENDS Connection

Keys == {NoKey} \union {[secret |-> {a, b}, salt |-> <<c, d>>] : a, b, c, d \in Pairs}

Contexts ==
    [handle : Pairs \union {NoPair}, own : Pairs \union {NoPair}, peer : Nat, key : Keys,
     ready : BOOLEAN]

States ==
    [at : AtStates, call : {"DATA", "HANDSHAKE"}, message : Nat, current : Nat,
     crypto : Contexts, encrypted : BOOLEAN, counter : Nat, in_flight : SUBSET Datagrams,
     received : SUBSET Nat, queue : Seq(Datagrams), buffer : SUBSET Datagrams, expected : Nat,
     ready : Seq(Datagrams), peer : Endpoints \union {NoPeer}, loops : BOOLEAN,
     loop_error : BOOLEAN, running : BOOLEAN, stream_error : BOOLEAN, silent : BOOLEAN,
     handed : Seq(Datagrams)]

Elements(seq) == {seq[i] : i \in DOMAIN seq}

\* The packets an endpoint keeps for its application.
Stored(s) == Elements(s.queue) \union s.buffer \union Elements(s.ready)

\* The process may still do something.
Alive(s) == s.loops \/ s.at \notin Ended

\* It has asked its user.
Asked(s) == s.at = "asking" \/ s.message # 0

\* It is at its handshake.
Shaking(s) == s.at = "handshake" \/ (s.at \in {"posted", "writing"} /\ s.call = "HANDSHAKE")
Posting(s, call) == s.at = "posted" /\ s.call = call
Writing(s, call) == s.at = "writing" /\ s.call = call

-----------------------------------------------------------------------------
(* A packet *)

\* Where it goes, and its number.
Genuine(p) ==
    /\ p \in Datagrams
    /\ p.from \in Initiators => p.to = Responder
    /\ p.from = Responder => p.to \in Initiators
    /\ p.type = "DATA" /\ p.from \in Initiators => p.seq = p.body /\ p.body \in 1 .. LastMessage
    /\ p.type = "DATA" /\ p.from = Responder => p.seq = 1 /\ p.body \in {CONFIRM, CONFIRM_FAILED}
    /\ p.type = "HANDSHAKE" => p.body \in Pairs
    /\ p.type = "HANDSHAKE" /\ p.from = Responder => p.seq = 0

\* What it says of its sender s.
Tells(s, p) ==
    /\ p.type \in {"DATA", "HANDSHAKE"} => s.at # "start" /\ p.seq < s.counter
    /\ p.type = "DATA" =>
          /\ s.encrypted
          /\ p.from = Responder => s.message = p.body /\ s.peer = p.to
          /\ p.body <= s.message
    /\ p.type = "HANDSHAKE" /\ p.from \in Initiators => s.encrypted \/ s.crypto.own = p.body
    /\ p.type = "HANDSHAKE" /\ p.from = Responder =>
          /\ s.crypto.own = p.body /\ s.crypto.ready /\ s.peer = p.to
          /\ ~Posting(s, "HANDSHAKE")

-----------------------------------------------------------------------------
(* An endpoint *)

Typed(e, s) ==
    /\ s \in States
    /\ IsFiniteSet(s.buffer)
    /\ s.expected >= 1
    /\ \A p \in s.in_flight : p.from = e /\ p.seq < s.counter /\ Genuine(p)
    /\ \A p \in Stored(s) : p.to = e /\ p.from = s.peer /\ Genuine(p)
    /\ \A p \in s.buffer : p.type = "DATA" /\ p.seq > s.expected /\ p.seq \in s.received
    /\ \A p \in Elements(s.ready) : p.type = "DATA" /\ p.seq < s.expected
    /\ Alive(s) => \A p \in Elements(s.queue) : p.seq \in s.received

Increasing(seq) == \A i, j \in DOMAIN seq : i < j => seq[i].seq < seq[j].seq

Control(e, s) ==
    /\ s.at = "start" => s = Fresh(IF e = Responder THEN NoPeer ELSE Responder)
    /\ s.at = "receiving" => s.ready = << >>
    /\ s.loops => ~s.loop_error
    /\ s.at \notin Ended \union {"start"} => s.loops \/ s.loop_error
    /\ s.running => s.loops /\ s.encrypted
    /\ s.at \in {"receiving", "asking", "closing"} => s.encrypted
    /\ Posting(s, "DATA") \/ Writing(s, "DATA") => s.encrypted
    /\ s.encrypted => s.crypto.ready
    /\ s.crypto.ready => s.crypto.key # NoKey
    /\ Shaking(s) => s.crypto.handle = s.crypto.own /\ s.crypto.own \in Pairs
    /\ Increasing(s.ready)
    /\ ~s.encrypted => s.ready = << >>

ResponderOK(s) ==
    /\ s.peer \in Initiators \union {NoPeer}
    /\ s.peer = NoPeer => s.at \in {"start", "handshake", "failed", "killed"} /\ ~s.crypto.ready
    /\ s.at = "handshake" => ~s.crypto.ready
    /\ s.crypto.ready => s.crypto.own \in Pairs
    /\ Posting(s, "HANDSHAKE") => s.crypto.ready /\ ~s.encrypted
    /\ Writing(s, "HANDSHAKE") => s.crypto.ready
    /\ ~s.encrypted => s.message = 0
    /\ ~s.loop_error =>
          /\ s.at = "handshake" \/ Posting(s, "HANDSHAKE") => s.counter = 0
          /\ Writing(s, "HANDSHAKE") => s.counter = 1
          /\ s.at \in {"receiving", "asking"} /\ s.message = 0 => s.counter = 1
          /\ Posting(s, "DATA") => s.counter = 1
    /\ s.message \in {0, CONFIRM, CONFIRM_FAILED}
    /\ s.at = "asking" => s.message = 0
    /\ Posting(s, "DATA") \/ Writing(s, "DATA") => s.message # 0
    /\ Asked(s) => s.expected > Announcement /\ \A p \in Elements(s.ready) : p.seq # Announcement
    /\ s.at = "closing" => s.expected > LastMessage

InitiatorOK(s) ==
    /\ s.peer = Responder
    /\ s.at # "asking"
    /\ s.encrypted => (Alive(s) => 0 \in s.received) /\ \A p \in Elements(s.queue) : p.seq # 0
    /\ ~s.encrypted => s.message = 0
    /\ s.message \in 0 .. LastMessage
    /\ s.at = "receiving" => s.message = Announcement
    /\ Posting(s, "DATA") \/ Writing(s, "DATA") => s.message # 0
    /\ ~s.loop_error =>
          /\ Posting(s, "HANDSHAKE") /\ ~s.encrypted => s.counter = 0
          /\ Shaking(s) /\ s.at # "posted" /\ ~s.encrypted => s.counter = 1
          /\ Posting(s, "DATA") => s.counter = s.message
          /\ Writing(s, "DATA") => s.counter = s.message + 1
          /\ s.at = "receiving" => s.counter = 2

Local(e, s) ==
    /\ Typed(e, s)
    /\ Control(e, s)
    /\ IF e = Responder THEN ResponderOK(s) ELSE InitiatorOK(s)

-----------------------------------------------------------------------------
(* The endpoints together *)

Sent == net \union UNION {ep[e].in_flight : e \in Endpoints}

Traffic ==
    /\ \A p \in Sent : Genuine(p) /\ Tells(ep[p.from], p)
    /\ \A p \in Sent : p.type = "DATA" => p.key = ep[p.from].crypto.key
    /\ \A e \in Endpoints : \A p \in Stored(ep[e]) : Tells(ep[p.from], p)

KeysMatch ==
    LET r == ep[Responder]
    IN  \A f \in Initiators :
          /\ ep[f].encrypted =>
                /\ r.peer = f /\ r.crypto.ready /\ r.crypto.key = ep[f].crypto.key
                /\ ~Posting(r, "HANDSHAKE")
          /\ r.peer = f /\ Asked(r) => ep[f].encrypted
          /\ r.peer = f /\ r.crypto.ready =>
                /\ ep[f].at # "start"
                /\ ~ep[f].encrypted =>
                      r.crypto.key = Derive(r.crypto.own, r.crypto.own, ep[f].crypto.own)

Consent == \A f \in Initiators : ep[f].message > Announcement => ep[Responder].message = CONFIRM

\* An endpoint has kept nothing but plaintext.
Plain(s) ==
    /\ \A p \in s.buffer \union Elements(s.ready) \union Elements(s.handed) : p.key = NoKey
    /\ s.at \notin Ended => \A p \in Elements(s.queue) : p.type = "DATA" => p.key = NoKey

PlainInv == \A e \in Endpoints : Plain(ep[e])

Inv ==
    /\ DOMAIN ep = Endpoints /\ drawn \subseteq Pairs
    /\ \A e \in Endpoints : Local(e, ep[e])
    /\ Writing(ep[Responder], "HANDSHAKE") => ~ep[Responder].encrypted
    /\ Traffic /\ KeysMatch /\ Consent
=============================================================================
