-------------------------- MODULE ConnectionProofs --------------------------
(***************************************************************************)
(* Connection, for any number of senders, messages and key pairs: the      *)
(* invariant Inv of ConnectionInvariants is inductive, and what the runs   *)
(* check of a conversation follows from it.                                *)
(*                                                                         *)
(* First the operators: what Hand, Chunk and the folds over them do to an  *)
(* endpoint (Local, Moves).  Then the step of one endpoint: StepKeeps says *)
(* what it has to show (Good) for the invariant of all of them, and one    *)
(* lemma for each action shows it.                                         *)
(***************************************************************************)
EXTENDS ConnectionInvariants, FiniteSetTheorems, TLAPS

HandFold == INSTANCE FoldLemmas WITH Op <- Hand
ChunkFold == INSTANCE FoldLemmas WITH Op <- Chunk

-----------------------------------------------------------------------------
(* The application takes a packet *)

\* What neither Hand nor Chunk touches.
Framed(s, t) ==
    /\ t.crypto = s.crypto /\ t.encrypted = s.encrypted /\ t.counter = s.counter
    /\ t.current = s.current /\ t.in_flight = s.in_flight /\ t.received = s.received
    /\ t.queue = s.queue /\ t.peer = s.peer /\ t.loops = s.loops
    /\ t.loop_error = s.loop_error /\ t.running = s.running
    /\ t.stream_error = s.stream_error /\ t.silent = s.silent

\* What becomes of an application that waits in receive().
Taken(e, p, s, t) ==
    \/ t.at = "failed" /\ t.call = s.call /\ t.message = s.message
    \/ /\ e = Responder /\ t.call = s.call /\ t.message = s.message
       /\ \/ t.at = "asking" /\ p.body = Announcement
          \/ t.at = "closing" /\ p.body = LastMessage
          \/ t.at = "receiving"
    \/ /\ e # Responder
       /\ \/ /\ t.at = "posted" /\ t.call = "DATA" /\ t.message = Announcement + 1
             /\ p.body = CONFIRM
          \/ t.at = "refused" /\ t.call = s.call /\ t.message = s.message

\* t is what an endpoint becomes when a packet is handed over.
Handed(e, s, p, t) ==
    /\ t \in States
    /\ Framed(s, t) /\ t.buffer = s.buffer /\ t.expected = s.expected
    /\ s.at # "receiving" =>
          /\ t.at = s.at /\ t.call = s.call /\ t.message = s.message
          /\ t.ready = Append(s.ready, p) /\ t.handed = s.handed
    /\ s.at = "receiving" =>
          /\ Taken(e, p, s, t)
          /\ t.ready = s.ready /\ t.handed = Append(s.handed, p)

LEMMA HandOutcome ==
    ASSUME NEW e, NEW s \in States, NEW p \in Datagrams
    PROVE  Handed(e, s, p, Hand(e, s, p))
<1> DEFINE t == Hand(e, s, p)
<1> SUFFICES Handed(e, s, p, t)
  OBVIOUS
<1>1. CASE s.at # "receiving"
  <2>1. t = [s EXCEPT !.ready = Append(s.ready, p)]
    BY <1>1 DEF Hand
  <2>2. Append(s.ready, p) \in Seq(Datagrams)
    BY DEF States
  <2> QED
    BY <1>1, <2>1, <2>2 DEF States, Framed, Handed
<1>2. CASE s.at = "receiving"
  <2> DEFINE got == [s EXCEPT !.handed = Append(s.handed, p)]
  <2>0. Append(s.handed, p) \in Seq(Datagrams)
    BY DEF States
  <2>1. /\ got \in States
        /\ Framed(s, got) /\ got.buffer = s.buffer /\ got.expected = s.expected
        /\ got.at = s.at /\ got.call = s.call /\ got.message = s.message
        /\ got.ready = s.ready /\ got.handed = Append(s.handed, p)
    BY <2>0 DEF States, Framed
  <2>2. t = Take(e, s, p)
    BY <1>2 DEF Hand
  <2> HIDE DEF t
  <2>3. \/ t = Fail(got)
        \/ /\ e = Responder
           /\ \/ p.body = Announcement /\ t = Goto(got, "asking")
              \/ p.body = LastMessage /\ t = Goto(got, "closing")
              \/ t = got
        \/ /\ e # Responder
           /\ \/ p.body = CONFIRM /\ t = Send(got, Announcement + 1)
              \/ t = Goto(got, "refused")
    BY <2>2 DEF Take, TakePacket, TakeReply
  <2> HIDE DEF got
  <2>4. ASSUME NEW at \in AtStates, t = Goto(got, at)
        PROVE  /\ t \in States
               /\ Framed(got, t) /\ t.buffer = got.buffer /\ t.expected = got.expected
               /\ t.at = at /\ t.call = got.call /\ t.message = got.message
               /\ t.ready = got.ready /\ t.handed = got.handed
    BY <2>1, <2>4 DEF Goto, States, Framed
  <2>5. ASSUME t = Send(got, Announcement + 1)
        PROVE  /\ t \in States
               /\ Framed(got, t) /\ t.buffer = got.buffer /\ t.expected = got.expected
               /\ t.at = "posted" /\ t.call = "DATA" /\ t.message = Announcement + 1
               /\ t.ready = got.ready /\ t.handed = got.handed
    <3>1. t = [got EXCEPT !.at = "posted", !.call = "DATA", !.message = Announcement + 1]
      BY <2>5 DEF Send
    <3>2. Announcement + 1 \in Nat /\ "posted" \in AtStates
      BY DEF Announcement, AtStates
    <3> QED
      BY <2>1, <3>1, <3>2 DEF States, Framed
  <2>6. {"failed", "asking", "closing", "refused"} \subseteq AtStates
    BY DEF AtStates
  <2>7. \/ /\ t \in States
           /\ Framed(got, t) /\ t.buffer = got.buffer /\ t.expected = got.expected
           /\ t.ready = got.ready /\ t.handed = got.handed
           /\ Taken(e, p, got, t)
    BY <1>2, <2>1, <2>3, <2>4, <2>5, <2>6 DEF Taken, Fail, Framed
  <2>8. Framed(s, t)
    BY <2>1, <2>7 DEF Framed
  <2>9. Taken(e, p, s, t)
    BY <2>1, <2>7 DEF Taken
  <2> QED
    BY <1>2, <2>1, <2>7, <2>8, <2>9 DEF Handed
<1> QED
  BY <1>1, <1>2

LEMMA AppendElements ==
    ASSUME NEW S, NEW seq \in Seq(S), NEW p \in S
    PROVE  Elements(Append(seq, p)) = Elements(seq) \union {p}
<1>1. /\ DOMAIN Append(seq, p) = 1 .. Len(seq) + 1 /\ DOMAIN seq = 1 .. Len(seq)
      /\ Len(seq) \in Nat /\ Append(seq, p)[Len(seq) + 1] = p
      /\ \A i \in 1 .. Len(seq) : Append(seq, p)[i] = seq[i]
  OBVIOUS
<1>2. p \in Elements(Append(seq, p))
  BY <1>1 DEF Elements
<1>3. Elements(seq) \subseteq Elements(Append(seq, p))
  BY <1>1 DEF Elements
<1>4. \A i \in 1 .. Len(seq) + 1 : i = Len(seq) + 1 \/ i \in 1 .. Len(seq)
  BY <1>1
<1>5. Elements(Append(seq, p)) \subseteq Elements(seq) \union {p}
  BY <1>1, <1>4 DEF Elements
<1> QED
  BY <1>2, <1>3, <1>5

LEMMA EmptyElements == Elements(<< >>) = {}
  BY DEF Elements

LEMMA AppendIncreasing ==
    ASSUME NEW seq \in Seq(Datagrams), NEW p \in Datagrams, Increasing(seq),
           \A q \in Elements(seq) : q.seq < p.seq
    PROVE  Increasing(Append(seq, p))
  BY DEF Increasing, Elements

LEMMA ElementsTyped ==
    ASSUME NEW S, NEW seq \in Seq(S)
    PROVE  Elements(seq) \subseteq S
  BY DEF Elements

\* A packet that is ready to be handed to the application of e.
Due(e, s, p) ==
    /\ p.type = "DATA" /\ Genuine(p) /\ p.to = e /\ p.from = s.peer /\ p.seq < s.expected
    /\ \A q \in Elements(s.ready) : q.seq < p.seq
    /\ e = Responder /\ Asked(s) => p.seq # Announcement

LEMMA HandTyped ==
    ASSUME NEW e, NEW s, NEW p, Typed(e, s), Due(e, s, p), NEW t, t = Hand(e, s, p)
    PROVE  /\ Typed(e, t)
           /\ Elements(t.ready) = Elements(s.ready) \union
                 IF s.at = "receiving" THEN {} ELSE {p}
<1>1. s \in States /\ p \in Datagrams
  BY DEF Typed, Due, Genuine
<1>0. Handed(e, s, p, t)
  BY <1>1, HandOutcome
<1>2. /\ t \in States
      /\ Framed(s, t) /\ t.buffer = s.buffer /\ t.expected = s.expected
      /\ s.at # "receiving" => t.at = s.at /\ t.ready = Append(s.ready, p)
      /\ s.at = "receiving" => Taken(e, p, s, t) /\ t.ready = s.ready
  BY <1>0, <1>1 DEF Handed
<1>3. s.ready \in Seq(Datagrams)
  BY <1>1 DEF States
<1>4. Elements(t.ready) = Elements(s.ready) \union IF s.at = "receiving" THEN {} ELSE {p}
  <2>1. CASE s.at # "receiving"
    <3>1. Elements(Append(s.ready, p)) = Elements(s.ready) \union {p}
      BY <1>1, <1>3, AppendElements
    <3> QED
      BY <1>2, <2>1, <3>1
  <2>2. CASE s.at = "receiving"
    BY <1>2, <2>2
  <2> QED
    BY <2>1, <2>2
<1>5. Stored(t) \subseteq Stored(s) \union {p}
  BY <1>2, <1>4 DEF Stored, Framed
<1>6. Alive(t) => Alive(s)
  BY <1>2 DEF Alive, Framed, Ended
<1>7. Typed(e, t)
  BY <1>2, <1>4, <1>5, <1>6 DEF Typed, Due, Framed
<1> QED
  BY <1>4, <1>7

LEMMA HandControl ==
    ASSUME NEW e, NEW s, NEW p, Typed(e, s), Control(e, s), Due(e, s, p), s.encrypted,
           NEW t, t = Hand(e, s, p)
    PROVE  Control(e, t)
<1>1. s \in States /\ p \in Datagrams
  BY DEF Typed, Due, Genuine
<1>0. Handed(e, s, p, t)
  BY <1>1, HandOutcome
<1>2. /\ t \in States
      /\ Framed(s, t) /\ t.buffer = s.buffer /\ t.expected = s.expected
      /\ s.at # "receiving" => t.at = s.at /\ t.call = s.call /\ t.ready = Append(s.ready, p)
      /\ s.at = "receiving" => Taken(e, p, s, t) /\ t.ready = s.ready
  BY <1>0, <1>1 DEF Handed
<1>3. Increasing(t.ready)
  <2>1. s.ready \in Seq(Datagrams)
    BY <1>1 DEF States
  <2> QED
    BY <1>1, <1>2, <2>1, AppendIncreasing DEF Control, Due
<1>4. s.at # "start" /\ t.at # "start"
  BY <1>2 DEF Control, Fresh, Taken
<1>5. t.at = "receiving" => t.ready = << >>
  BY <1>2 DEF Control
<1>6. t.at \notin Ended \union {"start"} => t.loops \/ t.loop_error
  BY <1>2, <1>4 DEF Control, Framed, Ended, Taken
<1> QED
  BY <1>2, <1>3, <1>4, <1>5, <1>6
     DEF Control, Framed, Taken, Posting, Writing, Shaking

LEMMA HandResponder ==
    ASSUME NEW s, NEW p, Typed(Responder, s), Control(Responder, s), ResponderOK(s),
           Due(Responder, s, p), s.encrypted, NEW t, t = Hand(Responder, s, p)
    PROVE  ResponderOK(t)
<1>1. s \in States /\ p \in Datagrams
  BY DEF Typed, Due, Genuine
<1>0. Handed(Responder, s, p, t)
  BY <1>1, HandOutcome
<1>2. /\ t \in States
      /\ Framed(s, t) /\ t.buffer = s.buffer /\ t.expected = s.expected
      /\ s.at # "receiving" =>
            t.at = s.at /\ t.call = s.call /\ t.message = s.message /\ t.ready = Append(s.ready, p)
      /\ s.at = "receiving" => Taken(Responder, p, s, t) /\ t.ready = s.ready
  BY <1>0, <1>1 DEF Handed
<1>3. p.from \in Initiators /\ p.seq = p.body /\ p.seq \in Nat /\ s.expected \in Nat
  <2>1. p.from \in Endpoints /\ p.seq \in Nat /\ s.expected \in Nat
    BY <1>1 DEF Datagrams, States
  <2>2. p.from \in Initiators
    BY <2>1, ConnectionAssumption DEF ResponderOK, Due, Endpoints
  <2> QED
    BY <2>1, <2>2 DEF Due, Genuine
<1>4. t.message = s.message
  BY <1>2 DEF Taken
<1>5. CASE s.at # "receiving"
  <2>1. Elements(t.ready) = Elements(s.ready) \union {p}
    <3>1. s.ready \in Seq(Datagrams)
      BY <1>1 DEF States
    <3>2. Elements(Append(s.ready, p)) = Elements(s.ready) \union {p}
      BY <1>1, <3>1, AppendElements
    <3> QED
      BY <1>2, <1>5, <3>2
  <2>2. Asked(t) <=> Asked(s)
    BY <1>2, <1>5 DEF Asked
  <2>3. Asked(t) => t.expected > Announcement /\ \A q \in Elements(t.ready) : q.seq # Announcement
    BY <1>2, <2>1, <2>2 DEF ResponderOK, Due
  <2> QED
    BY <1>2, <1>5, <2>3 DEF ResponderOK, Framed, Posting, Writing
<1>6. CASE s.at = "receiving"
  <2>1. s.ready = << >> /\ t.ready = << >>
    BY <1>2, <1>6 DEF Control
  <2>2. Asked(t) => t.expected > Announcement
    <3>1. Asked(s) \/ p.body = Announcement \/ ~Asked(t)
      BY <1>2, <1>4, <1>6 DEF Asked, Taken
    <3>2. p.seq < s.expected
      BY DEF Due
    <3> QED
      BY <1>2, <1>3, <3>1, <3>2 DEF ResponderOK
  <2>3. t.at = "asking" => t.message = 0
    <3>1. t.at = "asking" => p.seq = Announcement
      BY <1>2, <1>3, <1>6 DEF Taken
    <3>2. t.at = "asking" => ~Asked(s)
      BY <3>1 DEF Due
    <3> QED
      BY <1>4, <3>2 DEF Asked
  <2>4. t.at = "closing" => t.expected > LastMessage
    BY <1>2, <1>3, <1>6 DEF Taken, Due
  <2>5. t.at \in {"failed", "asking", "closing", "receiving"} /\ t.call = s.call
    BY <1>2, <1>6 DEF Taken
  <2>6. \A q \in Elements(t.ready) : q.seq # Announcement
    BY <2>1, EmptyElements
  <2> QED
    BY <1>2, <1>4, <1>6, <2>2, <2>3, <2>4, <2>5, <2>6 DEF ResponderOK, Framed, Posting, Writing
<1> QED
  BY <1>5, <1>6

LEMMA HandInitiator ==
    ASSUME NEW e, e # Responder, NEW s, NEW p, Typed(e, s), Control(e, s), InitiatorOK(s),
           Due(e, s, p), s.encrypted, NEW t, t = Hand(e, s, p)
    PROVE  InitiatorOK(t)
<1>1. s \in States /\ p \in Datagrams
  BY DEF Typed, Due, Genuine
<1>0. Handed(e, s, p, t)
  BY <1>1, HandOutcome
<1>2. /\ t \in States
      /\ Framed(s, t)
      /\ s.at # "receiving" => t.at = s.at /\ t.call = s.call /\ t.message = s.message
      /\ s.at = "receiving" => Taken(e, p, s, t)
  BY <1>0, <1>1 DEF Handed
<1>3. CASE s.at # "receiving"
  BY <1>2, <1>3 DEF InitiatorOK, Framed, Posting, Writing, Shaking, Alive
<1>4. CASE s.at = "receiving"
  <2>1. Announcement + 1 \in 0 .. LastMessage /\ Announcement + 1 = 2
    BY ConnectionAssumption DEF Announcement, LastMessage
  <2>2. \/ t.at \in {"failed", "refused"} /\ t.message = s.message
        \/ t.at = "posted" /\ t.call = "DATA" /\ t.message = Announcement + 1
    BY <1>2, <1>4 DEF Taken
  <2>3. Alive(s)
    BY <1>4 DEF Alive, Ended
  <2> QED
    BY <1>2, <1>4, <2>1, <2>2, <2>3 DEF InitiatorOK, Framed, Posting, Writing, Shaking
<1> QED
  BY <1>3, <1>4

LEMMA LocalParts ==
    ASSUME NEW e, NEW s, Typed(e, s), Control(e, s),
           e = Responder => ResponderOK(s), e # Responder => InitiatorOK(s)
    PROVE  Local(e, s)
  BY DEF Local

LEMMA HandLocal ==
    ASSUME NEW e, NEW s, NEW p, Local(e, s), Due(e, s, p), s.encrypted,
           NEW t, t = Hand(e, s, p)
    PROVE  Local(e, t)
<1>1. Typed(e, t)
  BY HandTyped DEF Local
<1>2. Control(e, t)
  BY HandControl DEF Local
<1>3. CASE e = Responder
  <2>1. ResponderOK(t)
    BY <1>3, HandResponder DEF Local
  <2> QED
    BY <1>1, <1>2, <1>3, <2>1 DEF Local
<1>4. CASE e # Responder
  <2>1. InitiatorOK(t)
    BY <1>4, HandInitiator DEF Local
  <2> QED
    BY <1>1, <1>2, <1>4, <2>1 DEF Local
<1> QED
  BY <1>3, <1>4

\* The next packet is still due when one has been handed over.
LEMMA HandDue ==
    ASSUME NEW e, NEW s, NEW p, NEW q, Local(e, s), Due(e, s, p), Due(e, s, q),
           p.seq < q.seq, NEW t, t = Hand(e, s, p)
    PROVE  Due(e, t, q)
<1>1. s \in States /\ p \in Datagrams
  BY DEF Local, Typed, Due, Genuine
<1>2. Handed(e, s, p, t)
  BY <1>1, HandOutcome
<1>3. /\ Framed(s, t) /\ t.expected = s.expected
      /\ s.at # "receiving" => t.at = s.at /\ t.message = s.message
      /\ s.at = "receiving" => Taken(e, p, s, t)
  BY <1>2 DEF Handed
<1>4. \A x \in Elements(t.ready) : x.seq < q.seq
  <2>1. Elements(t.ready) \subseteq Elements(s.ready) \union {p}
    BY HandTyped DEF Local
  <2> QED
    BY <2>1 DEF Due
<1>5. ASSUME e = Responder, Asked(t), ~Asked(s)
      PROVE  q.seq # Announcement
  <2>1. p.from \in Initiators
    <3>1. p.from \in Endpoints /\ p.from = s.peer
      BY <1>1 DEF Due, Datagrams
    <3> QED
      BY <1>5, <3>1, ConnectionAssumption DEF Local, ResponderOK, Endpoints
  <2>2. p.body = Announcement
    BY <1>3, <1>5 DEF Asked, Taken
  <2>3. p.seq = Announcement
    BY <2>1, <2>2 DEF Due, Genuine
  <2> QED
    BY <2>3 DEF Announcement
<1> QED
  BY <1>3, <1>4, <1>5 DEF Due, Framed

-----------------------------------------------------------------------------
(* Several packets are handed over *)

\* What ProtoStream keeps beside its queue.
Held(s) == s.buffer \union Elements(s.ready)

\* How an endpoint goes on when receive_chunks_loop and the application work on the
\* packets K.
Moves(e, s, t, K) ==
    /\ Framed(s, t)
    /\ Held(t) \subseteq Held(s) \union K
    /\ Elements(t.handed) \subseteq Elements(s.handed) \union Held(s) \union K
    /\ s.at # "receiving" => t.at = s.at /\ t.call = s.call /\ t.message = s.message
    /\ s.at = "receiving" =>
          \/ /\ t.at \in {"receiving", "asking", "closing", "refused", "failed"}
             /\ t.call = s.call /\ t.message = s.message
          \/ /\ e # Responder
             /\ t.at = "posted" /\ t.call = "DATA" /\ t.message = Announcement + 1
             /\ \E p \in Held(s) \union K : p.type = "DATA" /\ p.body = CONFIRM
    /\ e = Responder /\ Asked(t) =>
          Asked(s) \/ \E p \in Held(s) \union K : p.type = "DATA"

LEMMA MovesSelf == ASSUME NEW e, NEW s, NEW K PROVE Moves(e, s, s, K)
  BY DEF Moves, Framed

LEMMA MovesOn ==
    ASSUME NEW e, NEW s, NEW t, NEW u, NEW K, NEW L, L \subseteq K,
           Moves(e, s, t, K), Moves(e, t, u, L)
    PROVE  Moves(e, s, u, K)
<1>1. Framed(s, u)
  BY DEF Moves, Framed
<1>2. Held(u) \subseteq Held(s) \union K /\ Held(t) \union L \subseteq Held(s) \union K
  BY DEF Moves
<1>3. Elements(u.handed) \subseteq Elements(s.handed) \union Held(s) \union K
  BY DEF Moves
<1>4. s.at # "receiving" => u.at = s.at /\ u.call = s.call /\ u.message = s.message
  BY DEF Moves
<1>5. ASSUME s.at = "receiving"
      PROVE  \/ /\ u.at \in {"receiving", "asking", "closing", "refused", "failed"}
                /\ u.call = s.call /\ u.message = s.message
             \/ /\ e # Responder
                /\ u.at = "posted" /\ u.call = "DATA" /\ u.message = Announcement + 1
                /\ \E p \in Held(s) \union K : p.type = "DATA" /\ p.body = CONFIRM
  <2>1. CASE t.at = "receiving"
    BY <1>2, <1>5, <2>1 DEF Moves
  <2>2. CASE t.at # "receiving"
    BY <1>2, <1>5, <2>2 DEF Moves
  <2> QED
    BY <2>1, <2>2
<1>6. e = Responder /\ Asked(u) =>
         Asked(s) \/ \E p \in Held(s) \union K : p.type = "DATA"
  BY <1>2 DEF Moves
<1> QED
  BY <1>1, <1>2, <1>3, <1>4, <1>5, <1>6 DEF Moves

LEMMA HandMoves ==
    ASSUME NEW e, NEW s, NEW p, Local(e, s), Due(e, s, p), NEW t, t = Hand(e, s, p)
    PROVE  Moves(e, s, t, {p})
<1>1. s \in States /\ p \in Datagrams /\ p.type = "DATA"
  BY DEF Local, Typed, Due, Genuine
<1>2. Handed(e, s, p, t)
  BY <1>1, HandOutcome
<1>3. Held(t) \subseteq Held(s) \union {p}
  <2>1. Elements(t.ready) \subseteq Elements(s.ready) \union {p}
    BY HandTyped DEF Local
  <2> QED
    BY <1>2, <2>1 DEF Held, Handed
<1>4. Elements(t.handed) \subseteq Elements(s.handed) \union {p}
  <2>1. s.handed \in Seq(Datagrams)
    BY <1>1 DEF States
  <2>2. Elements(Append(s.handed, p)) = Elements(s.handed) \union {p}
    BY <1>1, <2>1, AppendElements
  <2> QED
    BY <1>2, <2>2 DEF Handed
<1>5. CASE s.at # "receiving"
  <2>1. Asked(t) => Asked(s)
    BY <1>2, <1>5 DEF Handed, Asked
  <2> QED
    BY <1>2, <1>3, <1>4, <1>5, <2>1 DEF Handed, Moves
<1>6. CASE s.at = "receiving"
  <2>1. Taken(e, p, s, t) /\ Framed(s, t)
    BY <1>2, <1>6 DEF Handed
  <2> QED
    BY <1>1, <1>3, <1>4, <1>6, <2>1 DEF Taken, Moves
<1> QED
  BY <1>5, <1>6

\* The steps of HandAll.
HandSteps(g, e, s, seq, n) ==
    /\ g[0] = s
    /\ \A i \in 1 .. n : g[i] = Hand(e, g[i - 1], seq[i])
    /\ HandAll(e, s, seq) = g[n]

LEMMA HandAllSteps ==
    ASSUME NEW e, NEW s, NEW seq, NEW n \in Nat, DOMAIN seq = 1 .. n
    PROVE  \E g : HandSteps(g, e, s, seq, n)
<1>1. PICK g : HandFold!Steps(g, e, s, seq, n)
  BY ONLY n \in Nat, DOMAIN seq = 1 .. n, HandFold!FoldSteps
<1>2. HandFold!Fold(e, s, seq) = HandAll(e, s, seq)
  BY DEF HandAll, FoldLeft, MapThenFoldSet, Max, HandFold!Fold, HandFold!FoldLeft,
         HandFold!MapThenFoldSet, HandFold!Max
<1>3. HandSteps(g, e, s, seq, n)
  BY <1>1, <1>2 DEF HandFold!Steps, HandSteps
<1> QED
  BY <1>3

LEMMA HandAllKeeps ==
    ASSUME NEW e, NEW s, Local(e, s), s.encrypted,
           NEW seq, NEW n \in Nat, DOMAIN seq = 1 .. n,
           \A i \in 1 .. n : Due(e, s, seq[i]), Increasing(seq)
    PROVE  LET t == HandAll(e, s, seq)
           IN  Local(e, t) /\ Moves(e, s, t, Elements(seq))
<1>0. PICK g : HandSteps(g, e, s, seq, n)
  BY HandAllSteps
<1>1. /\ g[0] = s
      /\ \A i \in 1 .. n : g[i] = Hand(e, g[i - 1], seq[i])
      /\ HandAll(e, s, seq) = g[n]
  BY <1>0 DEF HandSteps
<1> DEFINE Good(k) == /\ Local(e, g[k]) /\ Moves(e, s, g[k], Elements(seq))
                      /\ \A j \in (k + 1) .. n : Due(e, g[k], seq[j])
           W == {k \in Nat : k <= n => Good(k)}
<1>2. 0 \in W
  <2>1. Moves(e, s, g[0], Elements(seq))
    BY <1>1, MovesSelf
  <2>2. \A j \in (0 + 1) .. n : Due(e, g[0], seq[j])
    BY <1>1
  <2> QED
    BY <1>1, <2>1, <2>2
<1>3. ASSUME NEW k \in Nat, k \in W
      PROVE  k + 1 \in W
  <2> SUFFICES ASSUME k + 1 <= n PROVE Good(k + 1)
    OBVIOUS
  <2>1. Good(k)
    <3> HIDE DEF Good
    <3> QED
      BY <1>3
  <2>0. k + 1 \in 1 .. n /\ (k + 1) - 1 = k /\ k + 1 \in (k + 1) .. n
    OBVIOUS
  <2>2. g[k + 1] = Hand(e, g[k], seq[k + 1]) /\ Due(e, g[k], seq[k + 1])
    BY <1>1, <2>0, <2>1
  <2>3. g[k].encrypted
    BY <2>1 DEF Moves, Framed
  <2>4. Local(e, g[k + 1])
    BY <2>1, <2>2, <2>3, HandLocal
  <2>5. Moves(e, s, g[k + 1], Elements(seq))
    <3>1. Moves(e, g[k], g[k + 1], {seq[k + 1]})
      BY <2>1, <2>2, HandMoves
    <3>2. {seq[k + 1]} \subseteq Elements(seq)
      BY <2>0 DEF Elements
    <3> QED
      BY ONLY <2>1, <3>1, <3>2, MovesOn
  <2>6. ASSUME NEW j \in ((k + 1) + 1) .. n
        PROVE  Due(e, g[k + 1], seq[j])
    <3>1. j \in (k + 1) .. n /\ j \in 1 .. n /\ k + 1 < j
      OBVIOUS
    <3>2. Due(e, g[k], seq[j]) /\ seq[k + 1].seq < seq[j].seq
      BY <2>0, <2>1, <3>1 DEF Increasing
    <3> QED
      BY <2>1, <2>2, <3>2, HandDue
  <2> QED
    BY <2>4, <2>5, <2>6
<1>4. n \in W
  <2> HIDE DEF W
  <2> QED
    BY <1>2, <1>3, HandFold!NatSetInduction
<1>5. Good(n)
  <2> HIDE DEF Good
  <2> QED
    BY <1>4
<1> QED
  BY <1>1, <1>5

-----------------------------------------------------------------------------
(* One turn of receive_chunks_loop *)

\* A finite set of packets leaves one of the next numbers out.
LEMMA NextNumber ==
    ASSUME NEW all, all \subseteq Datagrams, IsFiniteSet(all), NEW first \in Nat
    PROVE  LET seqs == {q.seq : q \in all}
           IN  \E n \in first .. (first + Cardinality(all)) :
                  n \notin seqs /\ first .. (n - 1) \subseteq seqs
<1> DEFINE seqs == {q.seq : q \in all}
           size == Cardinality(all)
           Fits(n) == n \notin seqs /\ first .. (n - 1) \subseteq seqs
<1> SUFFICES ASSUME \A n \in first .. (first + size) : ~Fits(n)
             PROVE  FALSE
  OBVIOUS
<1>1. size \in Nat
  BY FS_CardinalityType
<1> HIDE DEF size
<1> DEFINE W == {k \in Nat : k <= size => first .. (first + k) \subseteq seqs}
<1>2. 0 \in W
  <2>1. first .. (first - 1) = {} /\ first .. (first + 0) = {first}
        /\ first \in first .. (first + size)
    BY <1>1
  <2>2. first \in seqs
    BY <2>1
  <2> QED
    BY <2>1, <2>2
<1>3. ASSUME NEW k \in Nat, k \in W
      PROVE  k + 1 \in W
  <2> SUFFICES ASSUME k + 1 <= size PROVE first .. (first + (k + 1)) \subseteq seqs
    OBVIOUS
  <2>1. first .. (first + k) \subseteq seqs
    BY <1>1, <1>3
  <2>2. /\ first + (k + 1) \in first .. (first + size)
        /\ (first + (k + 1)) - 1 = first + k
    BY <1>1
  <2>3. first + (k + 1) \in seqs
    <3> HIDE DEF seqs
    <3> QED
      BY <2>1, <2>2
  <2>4. \A n \in first .. (first + (k + 1)) : n = first + (k + 1) \/ n \in first .. (first + k)
    OBVIOUS
  <2> QED
    BY <2>1, <2>3, <2>4
<1>4. first .. (first + size) \subseteq seqs
  <2>1. size \in W
    <3> HIDE DEF W
    <3> QED
      BY <1>1, <1>2, <1>3, HandFold!NatSetInduction
  <2> QED
    BY <1>1, <2>1
<1> DEFINE pigeons == first .. (first + size)
           hole == [n \in pigeons |-> CHOOSE q \in all : q.seq = n]
<1>5. \A n \in pigeons : hole[n] \in all /\ hole[n].seq = n
  BY <1>4
<1>6. IsFiniteSet(pigeons) /\ Cardinality(pigeons) = size + 1
  <2>1. first \in Int /\ first + size \in Int
    BY <1>1
  <2>2. /\ IsFiniteSet(pigeons)
        /\ Cardinality(pigeons) =
              IF first > first + size THEN 0 ELSE (first + size) - first + 1
    BY <2>1, FS_Interval
  <2> QED
    BY <1>1, <2>2
<1>7. hole \in [pigeons -> all]
  BY <1>5
<1> HIDE DEF hole, pigeons
<1>8. Cardinality(all) < Cardinality(pigeons)
  BY <1>1, <1>6 DEF size
<1>9. \E x, y \in pigeons : x # y /\ hole[x] = hole[y]
  BY <1>6, <1>7, <1>8, FS_PigeonHole
<1> QED
  BY <1>5, <1>9

\* A packet for receive_chunks_loop of e.
Acceptable(e, s, p) == Genuine(p) /\ p.to = e /\ p.from = s.peer /\ p.seq \in s.received

\* The loop has moved on to next, and what it pushes is still to be handed over.
Flushing(s, all, next) == [s EXCEPT !.buffer = Waiting(all, next), !.expected = next]

LEMMA FlushingKeeps ==
    ASSUME NEW e, NEW s, NEW p, Local(e, s), s.encrypted, Acceptable(e, s, p),
           p.type = "DATA", NEW next \in Nat, next >= s.expected,
           NEW all, all = s.buffer \union {p}
    PROVE  /\ Local(e, Flushing(s, all, next))
           /\ Moves(e, s, Flushing(s, all, next), Held(s) \union {p})
<1> DEFINE t == Flushing(s, all, next)
<1>1. s \in States /\ p \in Datagrams
  BY DEF Local, Typed, Acceptable, Genuine
<1>2. Waiting(all, next) \subseteq all /\ all \subseteq Datagrams /\ IsFiniteSet(all)
  BY <1>1, FS_AddElement DEF Local, Typed, States, Waiting
<1>3. IsFiniteSet(Waiting(all, next))
  BY <1>2, FS_Subset
<1>4. /\ t \in States
      /\ Framed(s, t) /\ t.buffer = Waiting(all, next) /\ t.expected = next
      /\ t.at = s.at /\ t.call = s.call /\ t.message = s.message
      /\ t.ready = s.ready /\ t.handed = s.handed
  BY <1>1, <1>2 DEF Flushing, States, Framed
<1> HIDE DEF t
<1>5. Typed(e, t)
  <2>1. \A q \in Stored(t) : q.to = e /\ q.from = t.peer /\ Genuine(q)
    <3>1. Stored(t) \subseteq Stored(s) \union {p}
      BY <1>2, <1>4 DEF Stored, Framed
    <3> QED
      BY <1>4, <3>1 DEF Local, Typed, Acceptable, Framed
  <2>2. \A q \in t.buffer : q.type = "DATA" /\ q.seq > t.expected /\ q.seq \in t.received
    BY <1>4 DEF Local, Typed, Acceptable, Framed, Waiting
  <2>3. \A q \in Elements(t.ready) : q.type = "DATA" /\ q.seq < t.expected
    <3>1. \A q \in Elements(s.ready) : q.seq \in Nat
      <4>1. \A q \in Elements(s.ready) : q \in Datagrams
        BY DEF Local, Typed, Stored, Genuine
      <4> QED
        BY <4>1 DEF Datagrams
    <3>2. s.expected \in Nat
      BY <1>1 DEF States
    <3> QED
      BY <1>4, <3>1, <3>2 DEF Local, Typed
  <2>4. t.expected >= 1
    BY <1>1, <1>4 DEF Local, Typed, States
  <2>5. \A q \in t.in_flight : q.from = e /\ q.seq < t.counter /\ Genuine(q)
    BY <1>4 DEF Local, Typed, Framed
  <2>6. Alive(t) => \A q \in Elements(t.queue) : q.seq \in t.received
    BY <1>4 DEF Local, Typed, Framed, Alive
  <2> QED
    BY <1>3, <1>4, <2>1, <2>2, <2>3, <2>4, <2>5, <2>6 DEF Typed
<1>6. Control(e, t)
  <2>1. s.at # "start"
    BY DEF Local, Control, Fresh
  <2> QED
    BY <1>4, <2>1 DEF Local, Control, Framed, Posting, Writing, Shaking
<1>7. e = Responder => ResponderOK(t)
  <2> SUFFICES ASSUME e = Responder PROVE ResponderOK(t)
    OBVIOUS
  <2>1. s.expected \in Nat
    BY <1>1 DEF States
  <2>2. Asked(t) => t.expected > Announcement /\ \A q \in Elements(t.ready) : q.seq # Announcement
    BY <1>4, <2>1 DEF Local, ResponderOK, Asked, Announcement
  <2>3. t.at = "closing" => t.expected > LastMessage
    BY <1>4, <2>1, ConnectionAssumption DEF Local, ResponderOK, LastMessage, Announcement
  <2> QED
    BY <1>4, <2>2, <2>3 DEF Local, ResponderOK, Framed, Posting, Writing
<1>8. e # Responder => InitiatorOK(t)
  BY <1>4 DEF Local, InitiatorOK, Framed, Posting, Writing, Shaking, Alive
<1>9. Local(e, t)
  BY <1>5, <1>6, <1>7, <1>8 DEF Local
<1>10. Moves(e, s, t, Held(s) \union {p})
  <2>1. Held(t) \subseteq Held(s) \union {p}
    BY <1>2, <1>4 DEF Held
  <2>2. Asked(t) => Asked(s)
    BY <1>4 DEF Asked
  <2>3. s.at \in {"receiving"} => t.at \in {"receiving", "asking", "closing", "refused", "failed"}
    BY <1>4
  <2> QED
    BY <1>4, <2>1, <2>2, <2>3 DEF Moves
<1> QED
  BY <1>9, <1>10 DEF t

\* Packets that the loop does not look at are no packets of the stream.
DataOf(K) == {p \in K : p.type = "DATA"}

LEMMA ChunkKeeps ==
    ASSUME NEW e, NEW s, NEW p, Local(e, s), s.encrypted, Acceptable(e, s, p),
           NEW t, t = Chunk(e, s, p)
    PROVE  Local(e, t) /\ Moves(e, s, t, DataOf({p}))
<1>1. s \in States /\ p \in Datagrams
  BY DEF Local, Typed, Acceptable, Genuine
<1>2. CASE p.type # "DATA" \/ p.seq < s.expected \/ p.seq \in {q.seq : q \in s.buffer}
  BY <1>2, MovesSelf DEF Chunk
<1>3. CASE p.type = "DATA" /\ ~(p.seq < s.expected) /\ p.seq \notin {q.seq : q \in s.buffer}
  <2> DEFINE all  == s.buffer \union {p}
             seqs == {q.seq : q \in all}
             next == CHOOSE n \in s.expected .. (s.expected + Cardinality(all)) :
                        n \notin seqs /\ (s.expected .. (n - 1)) \subseteq seqs
             flushed == [i \in 1 .. (next - s.expected) |-> Numbered(all, s.expected + i - 1)]
             u == Flushing(s, all, next)
             length == next - s.expected
  <2>1. t = HandAll(e, u, flushed)
    BY <1>3 DEF Chunk, Flushing
  <2>2. s.expected \in Nat /\ all \subseteq Datagrams /\ IsFiniteSet(all)
    BY <1>1, FS_AddElement DEF Local, Typed, States
  <2>3. /\ next \in s.expected .. (s.expected + Cardinality(all))
        /\ (s.expected .. (next - 1)) \subseteq seqs
    <3>1. \E n \in s.expected .. (s.expected + Cardinality(all)) :
             n \notin seqs /\ s.expected .. (n - 1) \subseteq seqs
      BY <2>2, NextNumber
    <3> QED
      BY <3>1
  <2> HIDE DEF next
  <2>4. next \in Nat /\ next >= s.expected /\ length \in Nat
    BY <2>2, <2>3
  <2>5. Local(e, u) /\ Moves(e, s, u, Held(s) \union {p})
    BY <1>3, <2>4, FlushingKeeps
  <2>6. ASSUME NEW i \in 1 .. length
        PROVE  flushed[i] \in all /\ flushed[i].seq = s.expected + i - 1
    <3>1. s.expected + i - 1 \in s.expected .. (next - 1)
      BY <2>2, <2>4
    <3>2. \E q \in all : q.seq = s.expected + i - 1
      BY <2>3, <3>1
    <3> QED
      BY <3>2 DEF Numbered
  <2>7. /\ u.expected = next /\ u.peer = s.peer /\ u.ready = s.ready /\ u.encrypted
        /\ u.at = s.at /\ u.message = s.message
    BY <1>1 DEF Flushing, States
  <2> HIDE DEF u
  <2>8. ASSUME NEW i \in 1 .. length
        PROVE  Due(e, u, flushed[i])
    <3> DEFINE q == flushed[i]
    <3>1. q \in all /\ q.seq = s.expected + i - 1
      BY <2>6
    <3>2. q.type = "DATA" /\ Genuine(q) /\ q.to = e /\ q.from = u.peer
      <4>1. CASE q = p
        BY <1>3, <2>7, <4>1 DEF Acceptable
      <4>2. CASE q \in s.buffer
        BY <2>7, <4>2 DEF Local, Typed, Stored
      <4> QED
        BY <3>1, <4>1, <4>2
    <3> HIDE DEF q
    <3>3. q.seq < u.expected
      BY <2>2, <2>4, <2>7, <3>1
    <3>4. \A x \in Elements(u.ready) : x.seq < q.seq
      <4>1. \A x \in Elements(s.ready) : x \in Datagrams /\ x.seq < s.expected
        BY DEF Local, Typed, Stored, Genuine
      <4>2. \A x \in Elements(s.ready) : x.seq \in Nat
        BY <4>1 DEF Datagrams
      <4> QED
        BY <2>2, <2>7, <3>1, <4>1, <4>2
    <3>5. e = Responder /\ Asked(u) => q.seq # Announcement
      <4>1. Asked(u) => Asked(s)
        BY <2>7 DEF Asked
      <4>2. e = Responder /\ Asked(s) => s.expected > Announcement
        BY DEF Local, ResponderOK
      <4> QED
        BY <2>2, <3>1, <4>1, <4>2 DEF Announcement
    <3>6. Due(e, u, q)
      BY <3>2, <3>3, <3>4, <3>5 DEF Due
    <3> QED
      BY <3>6 DEF q
  <2>9. DOMAIN flushed = 1 .. length
    OBVIOUS
  <2>10. Increasing(flushed) /\ Elements(flushed) \subseteq all
    <3> HIDE DEF length, all, flushed
    <3>1. \A i, j \in 1 .. length : i < j => flushed[i].seq < flushed[j].seq
      BY <2>2, <2>4, <2>6
    <3> QED
      BY <2>6, <2>9, <3>1 DEF Increasing, Elements
  <2> HIDE DEF flushed, length
  <2>11. Local(e, t) /\ Moves(e, u, t, Elements(flushed))
    BY <2>1, <2>4, <2>5, <2>7, <2>8, <2>9, <2>10, HandAllKeeps
  <2>12. Elements(flushed) \subseteq Held(s) \union {p}
    BY <2>10 DEF Held
  <2>13. Moves(e, s, t, Held(s) \union {p})
    BY ONLY <2>5, <2>11, <2>12, MovesOn
  <2>14. Held(s) \union (Held(s) \union {p}) = Held(s) \union DataOf({p})
    BY <1>3 DEF DataOf
  <2>15. /\ Elements(s.handed) \union Held(s) \union (Held(s) \union {p})
            = Elements(s.handed) \union Held(s) \union DataOf({p})
    BY <2>14
  <2> QED
    BY <2>11, <2>13, <2>14, <2>15 DEF Moves
<1> QED
  BY <1>2, <1>3

\* The steps of ChunkAll.
ChunkSteps(g, e, s, seq, n) ==
    /\ g[0] = s
    /\ \A i \in 1 .. n : g[i] = Chunk(e, g[i - 1], seq[i])
    /\ ChunkAll(e, s, seq) = g[n]

LEMMA ChunkAllSteps ==
    ASSUME NEW e, NEW s, NEW seq, NEW n \in Nat, DOMAIN seq = 1 .. n
    PROVE  \E g : ChunkSteps(g, e, s, seq, n)
<1>1. PICK g : ChunkFold!Steps(g, e, s, seq, n)
  BY ONLY n \in Nat, DOMAIN seq = 1 .. n, ChunkFold!FoldSteps
<1>2. ChunkFold!Fold(e, s, seq) = ChunkAll(e, s, seq)
  BY DEF ChunkAll, FoldLeft, MapThenFoldSet, Max, ChunkFold!Fold, ChunkFold!FoldLeft,
         ChunkFold!MapThenFoldSet, ChunkFold!Max
<1>3. ChunkSteps(g, e, s, seq, n)
  BY <1>1, <1>2 DEF ChunkFold!Steps, ChunkSteps
<1> QED
  BY <1>3

LEMMA ChunkAllKeeps ==
    ASSUME NEW e, NEW s, Local(e, s), s.encrypted,
           NEW seq, NEW n \in Nat, DOMAIN seq = 1 .. n,
           \A i \in 1 .. n : Acceptable(e, s, seq[i])
    PROVE  LET t == ChunkAll(e, s, seq)
           IN  Local(e, t) /\ Moves(e, s, t, DataOf(Elements(seq)))
<1>0. PICK g : ChunkSteps(g, e, s, seq, n)
  BY ChunkAllSteps
<1>1. /\ g[0] = s
      /\ \A i \in 1 .. n : g[i] = Chunk(e, g[i - 1], seq[i])
      /\ ChunkAll(e, s, seq) = g[n]
  BY <1>0 DEF ChunkSteps
<1> DEFINE Good(k) == Local(e, g[k]) /\ Moves(e, s, g[k], DataOf(Elements(seq)))
           W == {k \in Nat : k <= n => Good(k)}
<1>2. 0 \in W
  BY <1>1, MovesSelf
<1>3. ASSUME NEW k \in Nat, k \in W
      PROVE  k + 1 \in W
  <2> SUFFICES ASSUME k + 1 <= n PROVE Good(k + 1)
    OBVIOUS
  <2>1. Good(k)
    <3> HIDE DEF Good
    <3> QED
      BY <1>3
  <2>2. k + 1 \in 1 .. n /\ (k + 1) - 1 = k
    OBVIOUS
  <2>3. g[k + 1] = Chunk(e, g[k], seq[k + 1])
    BY <1>1, <2>2
  <2>4. g[k].encrypted /\ Acceptable(e, g[k], seq[k + 1])
    BY <2>1, <2>2 DEF Moves, Framed, Acceptable
  <2>5. Local(e, g[k + 1]) /\ Moves(e, g[k], g[k + 1], DataOf({seq[k + 1]}))
    BY <2>1, <2>3, <2>4, ChunkKeeps
  <2>6. DataOf({seq[k + 1]}) \subseteq DataOf(Elements(seq))
    BY <2>2 DEF DataOf, Elements
  <2>7. Moves(e, s, g[k + 1], DataOf(Elements(seq)))
    BY ONLY <2>1, <2>5, <2>6, MovesOn
  <2> QED
    BY <2>5, <2>7
<1>4. n \in W
  <2> HIDE DEF W
  <2> QED
    BY <1>2, <1>3, ChunkFold!NatSetInduction
<1>5. Good(n)
  <2> HIDE DEF Good
  <2> QED
    BY <1>4
<1> QED
  BY <1>1, <1>5

\* The loop begins at number 1 with nothing in its buffer.
Begun(s) == [s EXCEPT !.running = TRUE, !.queue = << >>, !.buffer = {}, !.expected = 1]

\* The end of the handshake: s is encrypted from now on, with the key in crypto.
Agreed(s, crypto) == [s EXCEPT !.crypto = crypto, !.encrypted = TRUE]

LEMMA StartChunksKeeps ==
    ASSUME NEW e \in Endpoints, NEW s, Local(e, s), ~s.encrypted, s.loops,
           s.at = "handshake" \/ Writing(s, "HANDSHAKE"),
           e = Responder => Writing(s, "HANDSHAKE"),
           e # Responder => 0 \in s.received,
           NEW crypto \in Contexts, crypto.ready, crypto.key # NoKey,
           crypto.handle = s.crypto.handle, crypto.own = s.crypto.own,
           NEW t, t = StartChunks(e, Agreed(s, crypto))
    PROVE  Local(e, t) /\ Moves(e, Begun(Agreed(s, crypto)), t, DataOf(Elements(s.queue)))
<1> DEFINE v == Agreed(s, crypto)
           u == Begun(v)
<1>1. s \in States
  BY DEF Local, Typed
<1>2. s.queue \in Seq(Datagrams) /\ 1 \in Nat
  BY <1>1 DEF States
<1>0. /\ v \in States
      /\ v.crypto = crypto /\ v.encrypted /\ v.queue = s.queue
      /\ v.at = s.at /\ v.call = s.call /\ v.message = s.message
      /\ v.counter = s.counter /\ v.in_flight = s.in_flight /\ v.received = s.received
      /\ v.ready = s.ready /\ v.peer = s.peer /\ v.loops = s.loops
      /\ v.loop_error = s.loop_error
  BY <1>1 DEF Agreed, States
<1> HIDE DEF v
<1>3. /\ u \in States
      /\ u.crypto = crypto /\ u.encrypted /\ u.running /\ u.queue = << >> /\ u.buffer = {}
      /\ u.expected = 1 /\ u.at = s.at /\ u.call = s.call /\ u.message = s.message
      /\ u.counter = s.counter /\ u.in_flight = s.in_flight /\ u.received = s.received
      /\ u.ready = s.ready /\ u.peer = s.peer /\ u.loops = s.loops
      /\ u.loop_error = s.loop_error
  <2>1. << >> \in Seq(Datagrams)
    OBVIOUS
  <2> QED
    BY <1>0, <1>2, <2>1 DEF Begun, States
<1>4. t = ChunkAll(e, u, s.queue)
  BY <1>0 DEF StartChunks, Begun, v
<1> HIDE DEF u
<1>5. u.ready = << >> /\ Elements(u.ready) = {} /\ Elements(u.queue) = {}
  BY <1>3, EmptyElements DEF Local, Control
<1>6. Alive(s) /\ s.at # "start" /\ s.at # "receiving" /\ s.at # "asking" /\ s.at # "closing"
  BY DEF Alive, Ended, Writing
<1>7. Typed(e, u)
  <2>1. IsFiniteSet(u.buffer)
    BY <1>3, FS_EmptySet
  <2>2. Stored(u) = {}
    BY <1>3, <1>5 DEF Stored
  <2> QED
    BY <1>3, <1>5, <2>1, <2>2 DEF Local, Typed
<1>8. Control(e, u)
  <2>1. Increasing(u.ready)
    BY <1>3 DEF Local, Control
  <2> QED
    BY <1>3, <1>5, <1>6, <2>1 DEF Local, Control, Shaking, Posting, Writing
<1>9. ASSUME e = Responder
      PROVE  ResponderOK(u)
  <2>1. s.message = 0 /\ s.at = "writing" /\ s.call = "HANDSHAKE" /\ s.peer # NoPeer
    BY <1>9 DEF Local, ResponderOK, Writing
  <2> QED
    BY <1>3, <1>5, <1>9, <2>1 DEF Local, ResponderOK, Posting, Writing, Asked, Shaking, Control
<1>10. ASSUME e # Responder
       PROVE  InitiatorOK(u)
  BY <1>3, <1>5, <1>6, <1>10 DEF Local, InitiatorOK, Posting, Writing, Shaking
<1>11. Local(e, u)
  BY <1>7, <1>8, <1>9, <1>10, LocalParts
<1>12. DOMAIN s.queue = 1 .. Len(s.queue) /\ Len(s.queue) \in Nat
  BY <1>2
<1>13. \A i \in 1 .. Len(s.queue) : Acceptable(e, u, s.queue[i])
  <2>1. \A i \in 1 .. Len(s.queue) : s.queue[i] \in Elements(s.queue)
    BY <1>12 DEF Elements
  <2> QED
    BY <1>3, <1>6, <2>1 DEF Local, Typed, Stored, Acceptable
<1> QED
  BY <1>3, <1>4, <1>11, <1>12, <1>13, ChunkAllKeeps DEF u, v

-----------------------------------------------------------------------------
(* A step of one endpoint *)

\* What an endpoint has shown of itself in its packets stays true.
Ahead(e, s, t) ==
    /\ t.at # "start"
    /\ t.counter >= s.counter /\ t.message >= s.message
    /\ s.encrypted => t.encrypted /\ t.crypto.key = s.crypto.key
    /\ e = Responder =>
          /\ s.message # 0 => t.message = s.message
          /\ s.crypto.ready => t.crypto = s.crypto
          /\ s.peer # NoPeer => t.peer = s.peer
          /\ s.crypto.ready /\ ~Posting(s, "HANDSHAKE") => ~Posting(t, "HANDSHAKE")
    /\ e # Responder /\ s.at # "start" /\ ~t.encrypted => t.crypto.own = s.crypto.own

LEMMA TellsKept ==
    ASSUME NEW e, NEW s \in States, NEW t \in States, Ahead(e, s, t),
           NEW p, Genuine(p), p.from = e, Tells(s, p), Local(e, s)
    PROVE  Tells(t, p)
<1>1. p.seq \in Nat /\ p.body \in Nat /\ p.from \in Endpoints /\ p.to \in Endpoints
  BY DEF Genuine, Datagrams
<1>2. s.counter \in Nat /\ t.counter \in Nat /\ s.message \in Nat /\ t.message \in Nat
  BY DEF States
<1>3. p.type \in {"DATA", "HANDSHAKE"} => t.at # "start" /\ p.seq < t.counter
  BY <1>1, <1>2 DEF Ahead, Tells
<1>4. ASSUME p.type = "DATA"
      PROVE  /\ t.encrypted /\ p.body <= t.message
             /\ p.from = Responder => t.message = p.body /\ t.peer = p.to
  <2>1. p.from = Responder => p.body # 0
    BY <1>4 DEF Genuine, CONFIRM, CONFIRM_FAILED
  <2>2. p.to # NoPeer
    BY <1>1, ConnectionAssumption DEF Endpoints
  <2> QED
    BY <1>1, <1>2, <1>4, <2>1, <2>2 DEF Ahead, Tells
<1>5. p.type = "HANDSHAKE" /\ p.from \in Initiators => t.encrypted \/ t.crypto.own = p.body
  BY ConnectionAssumption DEF Ahead, Tells
<1>6. p.type = "HANDSHAKE" /\ p.from = Responder =>
        t.crypto.own = p.body /\ t.crypto.ready /\ t.peer = p.to /\ ~Posting(t, "HANDSHAKE")
  <2>1. p.to # NoPeer
    BY <1>1, ConnectionAssumption DEF Endpoints
  <2> QED
    BY <2>1 DEF Ahead, Tells
<1> QED
  BY <1>3, <1>4, <1>5, <1>6 DEF Tells

\* p is a packet that endpoints have sent, maybe opened.
Copy(p, q) ==
    p.from = q.from /\ p.to = q.to /\ p.type = q.type /\ p.seq = q.seq /\ p.body = q.body

LEMMA CopyTells ==
    ASSUME NEW s, NEW p, NEW q, Copy(p, q), Tells(s, q) PROVE Tells(s, p)
  BY DEF Copy, Tells

LEMMA CopyGenuine ==
    ASSUME NEW p \in Datagrams, NEW q, Copy(p, q), Genuine(q) PROVE Genuine(p)
  BY DEF Copy, Genuine

\* The traffic of an endpoint e that becomes t and sends the packets new.
Sends(e, t, new) ==
    /\ \A p \in new : Genuine(p) /\ p.from = e /\ Tells(t, p)
    /\ \A p \in new : p.type = "DATA" => p.key = t.crypto.key
    /\ net' \subseteq net \union ep[e].in_flight \union new
    /\ t.in_flight \subseteq ep[e].in_flight \union new
    /\ \A p \in Stored(t) : p \in Stored(ep[e]) \/ \E q \in Sent : Copy(p, q)

LEMMA TrafficKept ==
    ASSUME Inv, NEW e \in Endpoints, NEW t, ep' = [ep EXCEPT ![e] = t],
           Local(e, t), Ahead(e, ep[e], t), NEW new, Sends(e, t, new)
    PROVE  Traffic'
<1>1. /\ DOMAIN ep = Endpoints /\ Traffic
      /\ \A f \in Endpoints : Local(f, ep[f]) /\ ep[f] \in States
  BY DEF Inv, Local, Typed
<1>2. t \in States
  BY DEF Local, Typed
<1>3. ep'[e] = t /\ \A f \in Endpoints \ {e} : ep'[f] = ep[f]
  BY <1>1
<1>4. \A p : Genuine(p) => p.from \in Endpoints
  BY DEF Genuine, Datagrams
<1>5. ASSUME NEW p, Genuine(p), Tells(ep[p.from], p)
      PROVE  Tells(ep'[p.from], p)
  <2>1. CASE p.from = e
    BY <1>1, <1>2, <1>3, <1>5, <2>1, TellsKept
  <2>2. CASE p.from # e
    BY <1>3, <1>4, <1>5, <2>2
  <2> QED
    BY <2>1, <2>2
<1>6. Sent' \subseteq Sent \union new
  <2> SUFFICES ASSUME NEW p \in Sent' PROVE p \in Sent \union new
    OBVIOUS
  <2>1. CASE p \in net'
    BY <2>1 DEF Sends, Sent
  <2>2. ASSUME NEW f \in Endpoints, p \in ep'[f].in_flight
        PROVE  p \in Sent \union new
    <3>1. CASE f = e
      BY <1>3, <2>2, <3>1 DEF Sends, Sent
    <3>2. CASE f # e
      BY <1>3, <2>2, <3>2 DEF Sent
    <3> QED
      BY <3>1, <3>2
  <2> QED
    BY <2>1, <2>2 DEF Sent
<1>7. ASSUME NEW p \in Sent'
      PROVE  /\ Genuine(p) /\ Tells(ep'[p.from], p)
             /\ p.type = "DATA" => p.key = ep'[p.from].crypto.key
  <2>1. CASE p \in Sent
    <3>1. Genuine(p) /\ Tells(ep[p.from], p) /\ p.from \in Endpoints
      BY <1>1, <1>4, <2>1 DEF Traffic
    <3>2. p.type = "DATA" => p.key = ep[p.from].crypto.key /\ ep[p.from].encrypted
      BY <1>1, <2>1, <3>1 DEF Traffic, Tells
    <3>3. p.type = "DATA" => ep'[p.from].crypto.key = ep[p.from].crypto.key
      BY <1>3, <3>1, <3>2 DEF Ahead
    <3> QED
      BY <1>5, <3>1, <3>2, <3>3
  <2>2. CASE p \in new
    BY <1>3, <2>2 DEF Sends
  <2> QED
    BY <1>6, <2>1, <2>2
<1>8. ASSUME NEW f \in Endpoints, NEW p \in Stored(ep'[f])
      PROVE  Tells(ep'[p.from], p)
  <2>0. \A x \in Endpoints : \A q \in Stored(ep[x]) : Genuine(q) /\ Tells(ep[q.from], q)
    BY <1>1 DEF Local, Typed, Traffic
  <2>1. CASE p \in Stored(ep[f])
    BY <1>5, <2>0, <2>1
  <2>2. CASE p \notin Stored(ep[f])
    <3>1. f = e /\ p \in Stored(t)
      BY <1>3, <1>8, <2>2
    <3>2. PICK q \in Sent : Copy(p, q)
      BY <2>2, <3>1 DEF Sends
    <3>3. Genuine(q) /\ Tells(ep[q.from], q)
      BY <1>1 DEF Traffic
    <3>4. Genuine(p) /\ Tells(ep[p.from], p)
      BY <3>1, <3>2, <3>3, CopyTells DEF Copy, Local, Typed
    <3> QED
      BY <1>5, <3>4
  <2> QED
    BY <2>1, <2>2
<1> QED
  BY <1>7, <1>8 DEF Traffic

\* What the step of e has to show to the other endpoints.
Matches(e, t) ==
    /\ e = Responder =>
          /\ t.crypto.ready /\ ~ep[e].crypto.ready =>
                /\ ep[t.peer].at # "start"
                /\ t.crypto.key = Derive(t.crypto.own, t.crypto.own, ep[t.peer].crypto.own)
          /\ Asked(t) => Asked(ep[e]) \/ ep[t.peer].encrypted
          /\ Writing(t, "HANDSHAKE") => ~t.encrypted
    /\ e # Responder =>
          /\ t.encrypted /\ ~ep[e].encrypted =>
                LET r == ep[Responder]
                IN  /\ r.peer = e /\ r.crypto.ready /\ r.crypto.key = t.crypto.key
                    /\ ~Posting(r, "HANDSHAKE")
          /\ t.message > Announcement =>
                ep[e].message > Announcement \/ ep[Responder].message = CONFIRM

LEMMA MatchKept ==
    ASSUME Inv, NEW e \in Endpoints, NEW t, ep' = [ep EXCEPT ![e] = t],
           Local(e, t), Ahead(e, ep[e], t), Matches(e, t)
    PROVE  KeysMatch' /\ Consent' /\ (Writing(ep[Responder], "HANDSHAKE") => ~ep[Responder].encrypted)'
<1>1. /\ DOMAIN ep = Endpoints /\ KeysMatch /\ Consent
      /\ Writing(ep[Responder], "HANDSHAKE") => ~ep[Responder].encrypted
      /\ \A f \in Endpoints : Local(f, ep[f]) /\ ep[f] \in States
  BY DEF Inv, Local, Typed
<1>2. ep'[e] = t /\ \A f \in Endpoints \ {e} : ep'[f] = ep[f]
  BY <1>1
<1>3. Responder \in Endpoints /\ Initiators \subseteq Endpoints /\ Responder \notin Initiators
      /\ NoPeer \notin Initiators
  BY ConnectionAssumption DEF Endpoints
<1> DEFINE r == ep[Responder]
<1>4. CASE e = Responder
  <2>1. ep'[Responder] = t /\ \A f \in Initiators : ep'[f] = ep[f]
    BY <1>2, <1>3, <1>4
  <2>2. ASSUME NEW f \in Initiators, ep[f].encrypted
        PROVE  /\ t.peer = f /\ t.crypto.ready /\ t.crypto.key = ep[f].crypto.key
               /\ ~Posting(t, "HANDSHAKE")
    <3>1. /\ r.peer = f /\ r.crypto.ready /\ r.crypto.key = ep[f].crypto.key
          /\ ~Posting(r, "HANDSHAKE")
      BY <1>1, <2>2 DEF KeysMatch
    <3> QED
      BY <1>3, <1>4, <3>1 DEF Ahead
  <2>3. ASSUME NEW f \in Initiators, t.peer = f, Asked(t)
        PROVE  ep[f].encrypted
    <3>1. CASE Asked(r)
      <4>1. r.peer # NoPeer
        <5>1. ResponderOK(r) /\ Control(Responder, r)
          BY <1>1, <1>3 DEF Local
        <5> QED
          BY <3>1, <5>1 DEF ResponderOK, Control, Asked
      <4> QED
        BY <1>1, <1>4, <2>3, <3>1, <4>1 DEF Ahead, KeysMatch
    <3>2. CASE ~Asked(r)
      BY <1>4, <2>3, <3>2 DEF Matches
    <3> QED
      BY <3>1, <3>2
  <2>4. ASSUME NEW f \in Initiators, t.peer = f, t.crypto.ready
        PROVE  /\ ep[f].at # "start"
               /\ ~ep[f].encrypted =>
                     t.crypto.key = Derive(t.crypto.own, t.crypto.own, ep[f].crypto.own)
    <3>1. CASE r.crypto.ready
      <4>1. t.crypto = r.crypto /\ r.peer = f
        BY <1>1, <1>4, <2>4, <3>1 DEF Ahead, Local, ResponderOK
      <4> QED
        BY <1>1, <3>1, <4>1 DEF KeysMatch
    <3>2. CASE ~r.crypto.ready
      BY <1>4, <2>4, <3>2 DEF Matches
    <3> QED
      BY <3>1, <3>2
  <2>5. KeysMatch'
    BY <2>1, <2>2, <2>3, <2>4 DEF KeysMatch
  <2>6. Consent'
    <3>1. r.message = CONFIRM => t.message = CONFIRM
      BY <1>4 DEF Ahead, CONFIRM
    <3> QED
      BY <1>1, <2>1, <3>1 DEF Consent
  <2> QED
    BY <1>4, <2>1, <2>5, <2>6 DEF Matches
<1>5. CASE e # Responder
  <2>1. ep'[Responder] = r /\ e \in Initiators
    BY <1>2, <1>3, <1>5 DEF Endpoints
  <2>2. t.encrypted =>
          /\ r.peer = e /\ r.crypto.ready /\ r.crypto.key = t.crypto.key
          /\ ~Posting(r, "HANDSHAKE")
    BY <1>1, <1>5, <2>1 DEF Matches, KeysMatch, Ahead
  <2>3. r.peer = e /\ Asked(r) => t.encrypted
    BY <1>1, <2>1 DEF KeysMatch, Ahead
  <2>4. r.peer = e /\ r.crypto.ready =>
          /\ t.at # "start"
          /\ ~t.encrypted => r.crypto.key = Derive(r.crypto.own, r.crypto.own, t.crypto.own)
    BY <1>1, <1>5, <2>1 DEF KeysMatch, Ahead
  <2>5. KeysMatch'
    BY <1>1, <1>2, <1>3, <2>1, <2>2, <2>3, <2>4 DEF KeysMatch
  <2>6. Consent'
    BY <1>1, <1>2, <1>3, <1>5, <2>1 DEF Consent, Matches
  <2> QED
    BY <1>1, <2>1, <2>5, <2>6
<1> QED
  BY <1>4, <1>5

\* With a prompt completion, what e keeps stays plaintext.
Clean(e, t) ==
    Plain(ep[e]) /\ (ep[e].at = "writing" => t.at # "writing" \/ t = ep[e]) => Plain(t)

\* What a step of e has to show: e becomes t and sends the packets new.
Good(e, t, new) ==
    /\ Local(e, t) /\ Ahead(e, ep[e], t) /\ Matches(e, t) /\ Sends(e, t, new)
    /\ Clean(e, t)

\* What every step preserves.
Preserved == Inv' /\ (PlainInv /\ PromptCompletion => PlainInv')

LEMMA StepKeeps ==
    ASSUME Inv, NEW e \in Endpoints, NEW t, ep' = [ep EXCEPT ![e] = t], drawn' \subseteq Pairs,
           NEW new, Good(e, t, new)
    PROVE  Preserved
<1>1. Traffic'
  BY TrafficKept DEF Good
<1>2. KeysMatch' /\ Consent' /\ (Writing(ep[Responder], "HANDSHAKE") => ~ep[Responder].encrypted)'
  BY MatchKept DEF Good
<1>3. DOMAIN ep = Endpoints /\ \A f \in Endpoints : Local(f, ep[f])
  BY DEF Inv
<1>4. DOMAIN ep' = Endpoints /\ \A f \in Endpoints : Local(f, ep'[f])
  BY <1>3 DEF Good
<1>5. Inv'
  BY <1>1, <1>2, <1>4 DEF Inv
<1>6. ASSUME PlainInv, PromptCompletion
      PROVE  PlainInv'
  <2>1. ep'[e] = t /\ \A f \in Endpoints \ {e} : ep'[f] = ep[f]
    BY <1>3
  <2>2. Plain(ep[e]) /\ (ep[e].at = "writing" => t.at # "writing" \/ t = ep[e])
    BY <1>6, <2>1 DEF PlainInv, PromptCompletion
  <2>3. Plain(t)
    BY <2>2 DEF Good, Clean
  <2>4. \A f \in Endpoints : Plain(ep'[f])
    BY <1>6, <2>1, <2>3 DEF PlainInv
  <2> QED
    BY <2>4 DEF PlainInv
<1> QED
  BY <1>5, <1>6 DEF Preserved

\* Only the network changes.
LEMMA NetworkKeeps ==
    ASSUME Inv, ep' = ep, drawn' = drawn, net' \subseteq Sent
    PROVE  Preserved
<1>1. Sent' \subseteq Sent
  BY DEF Sent
<1>2. Traffic'
  BY <1>1 DEF Inv, Traffic
<1>3. Inv'
  BY <1>2 DEF Inv, KeysMatch, Consent
<1>4. PlainInv => PlainInv'
  BY DEF PlainInv
<1> QED
  BY <1>3, <1>4 DEF Preserved

\* What t keeps for its application or has given to it comes from s.
Hands(s, t) ==
    /\ Held(t) \union Elements(t.handed) \subseteq
          Held(s) \union Elements(s.handed) \union
          IF s.at \in Ended THEN {} ELSE DataOf(Elements(s.queue))
    /\ Elements(t.queue) \subseteq Elements(s.queue)
    /\ s.at \in Ended => t.at \in Ended

LEMMA HandsPlain == ASSUME NEW s, NEW t, Hands(s, t), Plain(s) PROVE Plain(t)
  BY DEF Hands, Plain, Held, DataOf

LEMMA HandsSame ==
    ASSUME NEW s, NEW t, t.buffer = s.buffer, t.ready = s.ready, t.handed = s.handed,
           t.queue = s.queue, s.at \in Ended => t.at \in Ended
    PROVE  Hands(s, t)
  BY DEF Hands, Held

LEMMA HandsOn == ASSUME NEW s, NEW t, NEW u, Hands(s, t), Hands(t, u) PROVE Hands(s, u)
  BY DEF Hands, DataOf

LEMMA LocalOf ==
    ASSUME Inv, NEW e \in Endpoints
    PROVE  /\ Local(e, ep[e]) /\ Typed(e, ep[e]) /\ Control(e, ep[e]) /\ ep[e] \in States
           /\ e = Responder => ResponderOK(ep[e])
           /\ e # Responder => InitiatorOK(ep[e])
           /\ e = Responder \/ e \in Initiators
  BY DEF Inv, Local, Typed, Endpoints

\* An endpoint that only goes down: it sends nothing more.
Down(s, t) ==
    /\ t \in States
    /\ t.at # "start"
    /\ t.at = s.at \/ t.at \in Ended
    /\ s.peer = NoPeer => t.at \notin {"done", "refused"} \/ t.at = s.at
    /\ t.call = s.call /\ t.message = s.message /\ t.crypto = s.crypto
    /\ t.encrypted = s.encrypted /\ t.counter >= s.counter
    /\ t.in_flight \subseteq s.in_flight /\ t.received = s.received /\ t.queue = s.queue
    /\ t.buffer = s.buffer /\ t.expected = s.expected /\ t.ready = s.ready
    /\ t.handed = s.handed
    /\ t.peer = s.peer /\ (t.loops => s.loops) /\ (t.loops => ~t.loop_error)
    /\ t.running => s.running /\ t.loops
    /\ ~t.loop_error => ~s.loop_error
    /\ t.at \notin Ended /\ ~t.loop_error => t.counter = s.counter
    /\ t.at \notin Ended => t.loops \/ t.loop_error

LEMMA DownLocal ==
    ASSUME NEW e, NEW s, Local(e, s), NEW t, Down(s, t)
    PROVE  Local(e, t)
<1>1. s \in States /\ t \in States
  BY DEF Local, Typed, Down
<1>2. Typed(e, t)
  <2>1. \A p \in t.in_flight : p.from = e /\ p.seq < t.counter /\ Genuine(p)
    <3>1. s.counter \in Nat /\ t.counter \in Nat
      BY <1>1 DEF States
    <3>2. \A p \in s.in_flight : p.seq \in Nat
      BY <1>1 DEF States, Datagrams
    <3> QED
      BY <3>1, <3>2 DEF Local, Typed, Down
  <2>2. Stored(t) = Stored(s)
    BY DEF Down, Stored
  <2>3. Alive(t) => Alive(s)
    BY DEF Down, Alive
  <2> QED
    BY <1>1, <2>1, <2>2, <2>3 DEF Local, Typed, Down
<1>3. Control(e, t)
  <2> DEFINE busy == t.at \notin Ended
  <2>1. Control(e, s)
    BY DEF Local
  <2>2. busy \/ t.at \in {"done", "refused", "failed", "killed"}
    BY DEF Ended
  <2>3. t.at = s.at \/ ~busy
    BY DEF Down
  <2>4. Increasing(t.ready) /\ (~t.encrypted => t.ready = << >>)
    BY <2>1 DEF Down, Control
  <2>5. t.at = "receiving" => t.ready = << >>
    BY <2>1, <2>2, <2>3 DEF Down, Control
  <2>6. t.running => t.loops /\ t.encrypted
    BY <2>1 DEF Down, Control
  <2>7. t.at \in {"receiving", "asking", "closing"} \/ Posting(t, "DATA") \/ Writing(t, "DATA")
          => t.encrypted
    BY <2>1, <2>2, <2>3 DEF Down, Control, Posting, Writing
  <2>8. Shaking(t) => t.crypto.handle = t.crypto.own /\ t.crypto.own \in Pairs
    BY <2>1, <2>2, <2>3 DEF Down, Control, Shaking
  <2>9. (t.encrypted => t.crypto.ready) /\ (t.crypto.ready => t.crypto.key # NoKey)
    BY <2>1 DEF Down, Control
  <2> QED
    BY <2>4, <2>5, <2>6, <2>7, <2>8, <2>9 DEF Down, Control, Ended
<1>4. ASSUME e = Responder
      PROVE  ResponderOK(t)
  <2>1. ResponderOK(s)
    BY <1>4 DEF Local
  <2>2. t.at = s.at \/ t.at \in {"done", "refused", "failed", "killed"}
    BY DEF Down, Ended
  <2>3. t.at = s.at => t.at \notin Ended \/ t.at \in {"done", "refused", "failed", "killed"}
    BY DEF Ended
  <2>4. t.peer = NoPeer => t.at \in {"start", "handshake", "failed", "killed"} /\ ~t.crypto.ready
    BY <2>1, <2>2 DEF Down, ResponderOK
  <2>5. Asked(t) => Asked(s)
    BY <2>2 DEF Down, Asked
  <2>6. ~t.loop_error /\ t.at \notin Ended =>
          t.at = s.at /\ t.counter = s.counter /\ ~s.loop_error
    BY <2>2 DEF Down, Ended
  <2> QED
    BY <2>1, <2>2, <2>4, <2>5, <2>6 DEF Down, ResponderOK, Posting, Writing, Ended
<1>5. ASSUME e # Responder
      PROVE  InitiatorOK(t)
  <2>1. InitiatorOK(s)
    BY <1>5 DEF Local
  <2>2. t.at = s.at \/ t.at \in {"done", "refused", "failed", "killed"}
    BY DEF Down, Ended
  <2>3. Alive(t) => Alive(s)
    BY DEF Down, Alive
  <2>4. ~t.loop_error /\ t.at \notin Ended =>
          t.at = s.at /\ t.counter = s.counter /\ ~s.loop_error
    BY <2>2 DEF Down, Ended
  <2> QED
    BY <2>1, <2>2, <2>3, <2>4 DEF Down, InitiatorOK, Posting, Writing, Shaking, Ended
<1> QED
  BY <1>2, <1>3, <1>4, <1>5, LocalParts

LEMMA DownGood ==
    ASSUME Inv, NEW e \in Endpoints, ep[e].at # "start", NEW t, Down(ep[e], t),
           net' \subseteq net \union ep[e].in_flight
    PROVE  Good(e, t, {})
<1> DEFINE s == ep[e]
<1>1. /\ Local(e, s) /\ Control(e, s) /\ s \in States
      /\ e = Responder => (Writing(s, "HANDSHAKE") => ~s.encrypted)
  BY LocalOf DEF Inv
<1>2. Local(e, t) /\ t \in States
  BY <1>1, DownLocal DEF Down
<1>3. t.at = s.at \/ t.at \in {"done", "refused", "failed", "killed"}
  BY DEF Down, Ended
<1>4. Ahead(e, s, t)
  <2>1. s.message \in Nat
    BY <1>1 DEF States
  <2> QED
    BY <1>3, <2>1 DEF Down, Ahead, Posting
<1>5. Matches(e, t)
  BY <1>1, <1>3 DEF Down, Matches, Writing, Asked
<1>6. Sends(e, t, {})
  BY DEF Sends, Down, Stored
<1>7. Clean(e, t)
  <2>1. Hands(s, t)
    BY <1>3, HandsSame DEF Down, Ended
  <2> QED
    BY <2>1, HandsPlain DEF Clean
<1> QED
  BY <1>2, <1>4, <1>5, <1>6, <1>7 DEF Good

-----------------------------------------------------------------------------
(* The background loops and the process *)

LEMMA StoreLoopErrorDown ==
    ASSUME NEW e, NEW s, Local(e, s), s.at # "start"
    PROVE  Down(s, StoreLoopError(s))
<1>1. s \in States
  BY DEF Local, Typed
<1>2. s.counter \in Nat /\ s.counter + 1 \in Nat /\ "failed" \in AtStates
  BY <1>1 DEF States, AtStates
<1> DEFINE at == IF s.at \in {"handshake", "receiving"} THEN "failed" ELSE s.at
           t == StoreLoopError(s)
<1>3. at \in AtStates
  BY <1>1, <1>2 DEF States
<1>4. /\ t \in States
      /\ t.at = at /\ t.call = s.call /\ t.message = s.message /\ t.crypto = s.crypto
      /\ t.encrypted = s.encrypted /\ t.counter = s.counter + 1 /\ t.in_flight = s.in_flight
      /\ t.received = s.received /\ t.queue = s.queue /\ t.buffer = s.buffer
      /\ t.expected = s.expected /\ t.ready = s.ready /\ t.peer = s.peer
      /\ ~t.loops /\ t.loop_error /\ ~t.running
      /\ t.handed = s.handed
  BY <1>1, <1>2, <1>3 DEF StoreLoopError, States
<1> HIDE DEF t
<1>5. (t.at = s.at \/ t.at = "failed") /\ t.at # "start"
  BY <1>4
<1>6. t.counter >= s.counter /\ t.in_flight \subseteq s.in_flight
  BY <1>2, <1>4
<1> HIDE DEF at
<1>7. Down(s, t)
  BY <1>4, <1>5, <1>6 DEF Down, Ended
<1> QED
  BY <1>7 DEF t

LEMMA BecomeKeeps ==
    ASSUME Inv, NEW e \in Endpoints, NEW t, Become(e, t), UNCHANGED drawn,
           NEW new, Good(e, t, new)
    PROVE  Preserved
<1>1. drawn' \subseteq Pairs
  BY DEF Inv
<1> QED
  BY <1>1, StepKeeps DEF Become

LEMMA LoopsAwake ==
    ASSUME Inv, NEW e \in Endpoints, ep[e].loops PROVE ep[e].at # "start"
<1>1. \A peer : ~Fresh(peer).loops
  BY DEF Fresh
<1> QED
  BY <1>1, LocalOf DEF Control

LEMMA LoopFailsKeeps ==
    ASSUME Inv, NEW e \in Endpoints, IdleTimeout(e) \/ LoopFails(e) PROVE Preserved
<1> DEFINE t == StoreLoopError(ep[e])
<1>1. Become(e, t) /\ UNCHANGED <<net, drawn>> /\ ep[e].loops
  BY DEF IdleTimeout, LoopFails, Awake
<1>2. Down(ep[e], t) /\ ep[e].at # "start"
  BY <1>1, LocalOf, LoopsAwake, StoreLoopErrorDown
<1> HIDE DEF t
<1>3. Good(e, t, {})
  BY <1>1, <1>2, DownGood
<1> QED
  BY <1>1, <1>3, BecomeKeeps

LEMMA SilenceKeeps == ASSUME Inv, NEW e \in Endpoints, Silence(e) PROVE Preserved
<1> DEFINE s == ep[e]
           t == [s EXCEPT !.silent = TRUE]
<1>1. Become(e, t) /\ UNCHANGED <<net, drawn>> /\ s.loops
  BY DEF Silence
<1>2. s \in States /\ s.at # "start" /\ Control(e, s)
  BY <1>1, LocalOf, LoopsAwake
<1>3. /\ t \in States
      /\ t.at = s.at /\ t.call = s.call /\ t.message = s.message /\ t.crypto = s.crypto
      /\ t.encrypted = s.encrypted /\ t.counter = s.counter /\ t.in_flight = s.in_flight
      /\ t.received = s.received /\ t.queue = s.queue /\ t.buffer = s.buffer
      /\ t.expected = s.expected /\ t.ready = s.ready /\ t.peer = s.peer
      /\ t.loops = s.loops /\ t.loop_error = s.loop_error /\ t.running = s.running
      /\ t.handed = s.handed
  BY <1>2 DEF States
<1> HIDE DEF t
<1>4. Down(s, t)
  <2>1. s.counter \in Nat
    BY <1>2 DEF States
  <2> QED
    BY <1>1, <1>2, <1>3, <2>1 DEF Down, Control
<1>5. Good(e, t, {})
  BY <1>1, <1>2, <1>4, DownGood
<1> QED
  BY <1>1, <1>5, BecomeKeeps

LEMMA KilledKeeps == ASSUME Inv, NEW e \in Endpoints, Killed(e) PROVE Preserved
<1> DEFINE s == ep[e]
           t == [Goto(s, "killed") EXCEPT !.loops = FALSE, !.running = FALSE]
<1>1. Become(e, t) /\ UNCHANGED <<net, drawn>> /\ s.at # "start"
  BY DEF Killed
<1>2. s \in States /\ "killed" \in AtStates
  BY LocalOf DEF AtStates
<1>3. /\ t \in States
      /\ t.at = "killed" /\ t.call = s.call /\ t.message = s.message /\ t.crypto = s.crypto
      /\ t.encrypted = s.encrypted /\ t.counter = s.counter /\ t.in_flight = s.in_flight
      /\ t.received = s.received /\ t.queue = s.queue /\ t.buffer = s.buffer
      /\ t.expected = s.expected /\ t.ready = s.ready /\ t.peer = s.peer
      /\ ~t.loops /\ t.loop_error = s.loop_error /\ ~t.running
      /\ t.handed = s.handed
  BY <1>2 DEF States, Goto
<1> HIDE DEF t
<1>4. Down(s, t)
  <2>1. s.counter \in Nat
    BY <1>2 DEF States
  <2> QED
    BY <1>1, <1>3, <2>1 DEF Down, Ended
<1>5. Good(e, t, {})
  BY <1>1, <1>4, DownGood
<1> QED
  BY <1>1, <1>5, BecomeKeeps

LEMMA NetworkStep ==
    ASSUME Inv, Lose \/ \E e \in Endpoints : resend_packet(e) PROVE Preserved
  BY NetworkKeeps DEF Lose, resend_packet, Sent

-----------------------------------------------------------------------------
(* The application: the ends of its calls *)

LEMMA SendErrorKeeps == ASSUME Inv, NEW e \in Endpoints, send_packet_error(e) PROVE Preserved
<1> DEFINE s == ep[e]
           left == {p \in s.in_flight : p.seq # s.current}
           t == [Fail(s) EXCEPT !.in_flight = left]
<1>1. s \in States /\ Control(e, s) /\ "failed" \in AtStates
  BY LocalOf DEF AtStates
<1>2. s.at = "writing" /\ Become(e, t) /\ UNCHANGED <<net, drawn>>
  BY <1>1 DEF send_packet_error, Fail, Goto, States
<1>3. left \subseteq s.in_flight /\ left \in SUBSET Datagrams
  BY <1>1 DEF States
<1> HIDE DEF left
<1>4. /\ t \in States
      /\ t.at = "failed" /\ t.call = s.call /\ t.message = s.message /\ t.crypto = s.crypto
      /\ t.encrypted = s.encrypted /\ t.counter = s.counter /\ t.in_flight = left
      /\ t.received = s.received /\ t.queue = s.queue /\ t.buffer = s.buffer
      /\ t.expected = s.expected /\ t.ready = s.ready /\ t.peer = s.peer
      /\ t.loops = s.loops /\ t.loop_error = s.loop_error /\ t.running = s.running
      /\ t.handed = s.handed
  BY <1>1, <1>3 DEF States, Fail, Goto
<1> HIDE DEF t
<1>5. Down(s, t)
  <2>1. s.counter \in Nat
    BY <1>1 DEF States
  <2> QED
    BY <1>1, <1>3, <1>4, <2>1 DEF Down, Ended, Control
<1>6. Good(e, t, {})
  BY <1>2, <1>5, DownGood
<1> QED
  BY <1>2, <1>6, BecomeKeeps

\* Nothing is left in the buffer when the last message has been handed over.
LEMMA BufferEmpty ==
    ASSUME NEW e \in Endpoints, NEW s, Local(e, s), e = Responder => s.at = "closing"
    PROVE  s.buffer = {}
<1> SUFFICES ASSUME NEW p \in s.buffer PROVE FALSE
  OBVIOUS
<1>1. s.expected \in Nat /\ s.expected >= 1
  BY DEF Local, Typed, States
<1>2. p.type = "DATA" /\ p.seq > s.expected /\ p.from = s.peer /\ Genuine(p)
  BY DEF Local, Typed, Stored
<1>3. p.seq \in Nat /\ p.from \in Endpoints
  BY <1>2 DEF Genuine, Datagrams
<1>4. CASE e = Responder
  <2>1. p.from \in Initiators /\ s.expected > LastMessage
    BY <1>2, <1>3, <1>4, ConnectionAssumption DEF Local, ResponderOK, Endpoints
  <2>2. p.seq \in 1 .. LastMessage /\ LastMessage \in Nat
    BY <1>2, <2>1, ConnectionAssumption DEF Genuine, LastMessage, Announcement
  <2> QED
    BY <1>1, <1>2, <1>3, <2>1, <2>2
<1>5. CASE e # Responder
  <2>1. p.seq = 1
    BY <1>2, <1>5 DEF Local, InitiatorOK, Genuine
  <2> QED
    BY <1>1, <1>2, <2>1
<1> QED
  BY <1>4, <1>5

LEMMA CloseKeeps == ASSUME Inv, NEW e \in Endpoints, close(e) PROVE Preserved
<1> DEFINE s == ep[e]
           end == IF s.stream_error THEN "failed" ELSE "done"
           u == [s EXCEPT !.at = end, !.loops = FALSE, !.running = FALSE, !.counter = @ + 1,
                          !.in_flight = {}]
           t == [s EXCEPT !.at = end, !.loops = FALSE, !.running = FALSE, !.counter = @ + 1,
                          !.in_flight = {}, !.received = {}]
<1>1. /\ s \in States /\ Local(e, s) /\ Control(e, s) /\ end \in AtStates /\ end \in Ended
      /\ e = Responder => ResponderOK(s)
      /\ e # Responder => InitiatorOK(s)
  BY LocalOf DEF AtStates, Ended
<1>2. s.at = "closing" /\ Become(e, t) /\ UNCHANGED <<net, drawn>>
  BY DEF close
<1>3. s.counter \in Nat /\ s.counter + 1 \in Nat
  BY <1>1 DEF States
<1> HIDE DEF end
<1>4. /\ u \in States
      /\ u.at = end /\ u.call = s.call /\ u.message = s.message /\ u.crypto = s.crypto
      /\ u.encrypted = s.encrypted /\ u.counter = s.counter + 1 /\ u.in_flight = {}
      /\ u.received = s.received /\ u.queue = s.queue /\ u.buffer = s.buffer
      /\ u.expected = s.expected /\ u.ready = s.ready /\ u.peer = s.peer
      /\ ~u.loops /\ u.loop_error = s.loop_error /\ ~u.running
      /\ u.handed = s.handed
  BY <1>1, <1>3 DEF States
<1>5. t = [u EXCEPT !.received = {}]
  BY <1>1 DEF States
<1> HIDE DEF t, u
<1>6. s.peer # NoPeer
  BY <1>1, <1>2, LocalOf, ConnectionAssumption DEF ResponderOK, InitiatorOK
<1>7. end # "start"
  BY <1>1 DEF Ended
<1>8. Down(s, u)
  BY <1>1, <1>2, <1>3, <1>4, <1>6, <1>7 DEF Down
<1>9. Good(e, u, {})
  BY <1>2, <1>8, DownGood
<1>10. /\ t \in States
       /\ t.at = end /\ t.call = u.call /\ t.message = u.message /\ t.crypto = u.crypto
       /\ t.encrypted = u.encrypted /\ t.counter = u.counter /\ t.in_flight = u.in_flight
       /\ t.received = {} /\ t.queue = u.queue /\ t.buffer = u.buffer
       /\ t.expected = u.expected /\ t.ready = u.ready /\ t.peer = u.peer
       /\ t.loops = u.loops /\ t.loop_error = u.loop_error /\ t.running = u.running
       /\ t.handed = u.handed
  BY <1>4, <1>5 DEF States
<1>11. t.buffer = {} /\ ~Alive(t)
  <2>1. s.buffer = {}
    BY <1>1, <1>2, BufferEmpty
  <2> QED
    BY <1>1, <1>4, <1>10, <2>1 DEF Alive
<1>12. Local(e, t)
  <2>1. Local(e, u)
    BY <1>9 DEF Good
  <2>2. Stored(t) = Stored(u)
    BY <1>10 DEF Stored
  <2>3. Typed(e, t)
    BY <1>10, <1>11, <2>1, <2>2 DEF Local, Typed
  <2>4. Control(e, t)
    BY <1>4, <1>7, <1>10, <2>1 DEF Local, Control, Shaking, Posting, Writing
  <2>5. e = Responder => ResponderOK(t)
    BY <1>4, <1>10, <2>1 DEF Local, ResponderOK, Asked, Posting, Writing
  <2>6. e # Responder => InitiatorOK(t)
    BY <1>4, <1>10, <1>11, <2>1 DEF Local, InitiatorOK, Shaking, Posting, Writing
  <2> QED
    BY <2>3, <2>4, <2>5, <2>6, LocalParts
<1>13. Good(e, t, {})
  <2>1. Ahead(e, s, t)
    BY <1>4, <1>9, <1>10 DEF Good, Ahead, Posting
  <2>2. Matches(e, t)
    BY <1>4, <1>9, <1>10 DEF Good, Matches, Writing, Asked
  <2>3. Sends(e, t, {})
    BY <1>9, <1>10 DEF Good, Sends, Stored
  <2>4. Clean(e, t)
    <3>1. Hands(s, t)
      BY <1>1, <1>4, <1>10, HandsSame
    <3> QED
      BY <3>1, HandsPlain DEF Clean
  <2> QED
    BY <1>12, <2>1, <2>2, <2>3, <2>4 DEF Good
<1> QED
  BY <1>2, <1>13, BecomeKeeps

\* t is s after its application has called send() with message m.
Posted(s, m, t) ==
    /\ t \in States
    /\ t.at = "posted" /\ t.call = "DATA" /\ t.message = m /\ t.crypto = s.crypto
    /\ t.encrypted = s.encrypted /\ t.counter = s.counter /\ t.in_flight = s.in_flight
    /\ t.received = s.received /\ t.queue = s.queue /\ t.buffer = s.buffer
    /\ t.expected = s.expected /\ t.ready = s.ready /\ t.peer = s.peer
    /\ t.loops = s.loops /\ t.loop_error = s.loop_error /\ t.running = s.running
    /\ t.handed = s.handed

LEMMA SendFields ==
    ASSUME NEW s \in States, NEW m \in Nat PROVE Posted(s, m, Send(s, m))
<1>1. "posted" \in AtStates
  BY DEF AtStates
<1> QED
  BY <1>1 DEF Send, States, Posted

LEMMA SendLocal ==
    ASSUME NEW e \in Endpoints, NEW s, Local(e, s), NEW m \in Nat, s.encrypted,
           s.at \notin Ended \union {"start"}, m >= s.message,
           e = Responder => /\ m \in {CONFIRM, CONFIRM_FAILED} /\ Asked(s)
                            /\ ~s.loop_error => s.counter = 1,
           e # Responder => /\ m \in 1 .. LastMessage
                            /\ ~s.loop_error => s.counter = m
    PROVE  Local(e, Send(s, m))
<1> DEFINE t == Send(s, m)
<1>1. s \in States
  BY DEF Local, Typed
<1>0. Posted(s, m, t)
  BY <1>1, SendFields
<1>2. /\ t \in States
      /\ t.at = "posted" /\ t.call = "DATA" /\ t.message = m /\ t.crypto = s.crypto
      /\ t.encrypted = s.encrypted /\ t.counter = s.counter /\ t.in_flight = s.in_flight
      /\ t.received = s.received /\ t.queue = s.queue /\ t.buffer = s.buffer
      /\ t.expected = s.expected /\ t.ready = s.ready /\ t.peer = s.peer
      /\ t.loops = s.loops /\ t.loop_error = s.loop_error /\ t.running = s.running
  BY <1>0 DEF Posted
<1> HIDE DEF t
<1>3. Alive(s)
  BY DEF Alive
<1>4. Typed(e, t)
  <2>1. Stored(t) = Stored(s)
    BY <1>2 DEF Stored
  <2> QED
    BY <1>2, <1>3, <2>1 DEF Local, Typed
<1>5. Control(e, t)
  <2>1. Increasing(t.ready)
    BY <1>2 DEF Local, Control
  <2> QED
    BY <1>2, <2>1 DEF Local, Control, Shaking, Posting, Writing
<1>6. e = Responder => ResponderOK(t)
  BY <1>2 DEF Local, ResponderOK, Control, Asked, Posting, Writing, CONFIRM, CONFIRM_FAILED
<1>7. e # Responder => InitiatorOK(t)
  BY <1>2, <1>3 DEF Local, InitiatorOK, Shaking, Posting, Writing
<1> QED
  BY <1>4, <1>5, <1>6, <1>7, LocalParts DEF t

LEMMA AnswerKeeps == ASSUME Inv, NEW e \in Endpoints, answer(e) PROVE Preserved
<1> DEFINE s == ep[e]
<1>1. PICK m \in {CONFIRM, CONFIRM_FAILED} : Become(e, Send(s, m))
  BY DEF answer
<1> DEFINE t == Send(s, m)
<1>2. s.at = "asking" /\ UNCHANGED <<net, drawn>> /\ m \in Nat /\ m >= 0
  BY DEF answer, CONFIRM, CONFIRM_FAILED
<1>3. /\ s \in States /\ Local(e, s) /\ Control(e, s) /\ e = Responder /\ ResponderOK(s)
  BY <1>2, LocalOf DEF InitiatorOK
<1>4. s.message = 0 /\ s.encrypted /\ (~s.loop_error => s.counter = 1) /\ Asked(s)
  BY <1>2, <1>3 DEF ResponderOK, Control, Asked
<1>5. Local(e, t)
  BY <1>2, <1>3, <1>4, SendLocal DEF Ended
<1>0. Posted(s, m, t)
  BY <1>2, <1>3, SendFields
<1>6. /\ t.at = "posted" /\ t.call = "DATA" /\ t.message = m /\ t.crypto = s.crypto
      /\ t.encrypted = s.encrypted /\ t.counter = s.counter /\ t.in_flight = s.in_flight
      /\ t.queue = s.queue /\ t.buffer = s.buffer /\ t.ready = s.ready /\ t.peer = s.peer
      /\ t.handed = s.handed
  BY <1>0 DEF Posted
<1> HIDE DEF t
<1>7. Ahead(e, s, t)
  <2>1. s.counter \in Nat
    BY <1>3 DEF States
  <2> QED
    BY <1>2, <1>3, <1>4, <1>6, <2>1 DEF Ahead, Posting
<1>8. Matches(e, t)
  BY <1>3, <1>4, <1>6 DEF Matches, Writing
<1>9. Sends(e, t, {})
  BY <1>2, <1>6 DEF Sends, Stored
<1>10. Clean(e, t)
  <2>1. Hands(s, t)
    BY <1>2, <1>6, HandsSame DEF Ended
  <2> QED
    BY <2>1, HandsPlain DEF Clean
<1>11. Good(e, t, {})
  BY <1>5, <1>7, <1>8, <1>9, <1>10 DEF Good
<1> QED
  BY <1>1, <1>2, <1>11, BecomeKeeps DEF t

\* A step of e that shows the others no more than it may.
Onward(e, t) == Ahead(e, ep[e], t) /\ Matches(e, t)

LEMMA GotoDown ==
    ASSUME NEW e \in Endpoints, NEW s, Local(e, s), s.at # "start",
           NEW at \in {"failed", "refused"}, s.at = "writing" \/ at = "failed"
    PROVE  Down(s, Goto(s, at))
<1> DEFINE t == Goto(s, at)
<1>1. s \in States /\ at \in AtStates /\ Control(e, s)
  BY DEF Local, Typed, AtStates
<1>2. /\ t \in States
      /\ t.at = at /\ t.call = s.call /\ t.message = s.message /\ t.crypto = s.crypto
      /\ t.encrypted = s.encrypted /\ t.counter = s.counter /\ t.in_flight = s.in_flight
      /\ t.received = s.received /\ t.queue = s.queue /\ t.buffer = s.buffer
      /\ t.expected = s.expected /\ t.ready = s.ready /\ t.peer = s.peer
      /\ t.loops = s.loops /\ t.loop_error = s.loop_error /\ t.running = s.running
      /\ t.handed = s.handed
  BY <1>1 DEF States, Goto
<1> HIDE DEF t
<1>3. s.counter \in Nat
  BY <1>1 DEF States
<1>4. s.peer = NoPeer => at = "failed"
  BY ConnectionAssumption DEF Local, ResponderOK, InitiatorOK
<1>5. Down(s, t)
  BY <1>1, <1>2, <1>3, <1>4 DEF Down, Ended, Control
<1> QED
  BY <1>5 DEF t

\* The same for an endpoint that first becomes b and then goes down.
LEMMA OnwardDown ==
    ASSUME NEW e \in Endpoints, ep[e] \in States,
           NEW b, Local(e, b), Onward(e, b), NEW t, Down(b, t)
    PROVE  Local(e, t) /\ Onward(e, t)
<1>1. b \in States /\ t \in States
  BY DEF Local, Typed, Down
<1>2. Local(e, t)
  BY DownLocal
<1>3. t.at = b.at \/ t.at \in {"done", "refused", "failed", "killed"}
  BY DEF Down, Ended
<1>4. Ahead(e, ep[e], t)
  <2>1. t.counter >= ep[e].counter
    BY <1>1 DEF Onward, Ahead, Down, States
  <2> QED
    BY <1>3, <2>1 DEF Onward, Ahead, Down, Posting
<1>5. Matches(e, t)
  BY <1>3 DEF Onward, Matches, Down, Writing, Asked
<1> QED
  BY <1>2, <1>4, <1>5 DEF Onward

LEMMA OnwardMoves ==
    ASSUME NEW e \in Endpoints, ep[e] \in States, NEW b, Local(e, b), Onward(e, b),
           NEW t, NEW K, Local(e, t), Moves(e, b, t, K),
           \A p \in Held(b) \union K : Tells(ep[p.from], p) /\ p.from = b.peer
    PROVE  Onward(e, t)
<1> DEFINE s == ep[e]
<1>1. b \in States /\ t \in States
  BY DEF Local, Typed
<1>3. CASE e = Responder
  <2>1. t.message = b.message
    BY <1>3 DEF Moves
  <2>2. Posting(t, "HANDSHAKE") => Posting(b, "HANDSHAKE")
    BY <1>3 DEF Moves, Posting
  <2>3. Writing(t, "HANDSHAKE") => Writing(b, "HANDSHAKE")
    BY <1>3 DEF Moves, Writing
  <2>4. Asked(t) => Asked(b) \/ ep[b.peer].encrypted
    BY <1>3 DEF Moves, Tells
  <2>5. t.at # "start"
    BY DEF Moves, Onward, Ahead
  <2>6. Ahead(e, s, t)
    BY <1>3, <2>1, <2>2, <2>5 DEF Onward, Ahead, Moves, Framed
  <2>7. Matches(e, t)
    BY <1>3, <2>3, <2>4 DEF Onward, Matches, Moves, Framed
  <2> QED
    BY <2>6, <2>7 DEF Onward
<1>4. CASE e # Responder
  <2>1. InitiatorOK(b)
    BY <1>4 DEF Local
  <2>2. \/ t.message = b.message
        \/ t.message = 2 /\ b.message = 1 /\ ep[Responder].message = CONFIRM
    <3>1. ASSUME b.at = "receiving", t.message # b.message
          PROVE  t.message = 2 /\ b.message = 1 /\ ep[Responder].message = CONFIRM
      <4>1. PICK p \in Held(b) \union K : p.type = "DATA" /\ p.body = CONFIRM
        BY <3>1 DEF Moves
      <4>2. p.from = Responder /\ Tells(ep[Responder], p)
        BY <4>1, <2>1 DEF InitiatorOK
      <4> QED
        BY <2>1, <3>1, <4>1, <4>2 DEF Moves, InitiatorOK, Tells, Announcement
    <3>2. b.at # "receiving" => t.message = b.message
      BY DEF Moves
    <3> QED
      BY <3>1, <3>2
  <2>3. t.at # "start"
    BY DEF Moves, Onward, Ahead
  <2>5. t.message >= s.message
    <3>1. b.message \in Nat /\ s.message \in Nat
      BY <1>1 DEF States
    <3>2. b.message >= s.message
      BY DEF Onward, Ahead
    <3> QED
      BY ONLY <2>2, <3>1, <3>2
  <2>4. Ahead(e, s, t)
    BY <1>4, <2>3, <2>5 DEF Onward, Ahead, Moves, Framed
  <2>6. Matches(e, t)
    BY <1>4, <2>2 DEF Onward, Matches, Moves, Framed
  <2> QED
    BY <2>4, <2>6 DEF Onward
<1> QED
  BY <1>3, <1>4

-----------------------------------------------------------------------------
(* send_packet *)

\* The packet that e registers and sends.
Packet(e, s, nonce) ==
    Datagram(e, s.peer, s.call, s.counter, IF s.call = "DATA" THEN s.message ELSE s.crypto.own,
             Sealing(s), nonce)

\* t is s once the packet p has its number.
Numbering(s, p, t) ==
    /\ t \in States
    /\ t.at = "writing" /\ t.call = s.call /\ t.message = s.message /\ t.crypto = s.crypto
    /\ t.encrypted = s.encrypted /\ t.counter = s.counter + 1
    /\ t.in_flight = s.in_flight \union {p} /\ t.received = s.received /\ t.queue = s.queue
    /\ t.buffer = s.buffer /\ t.expected = s.expected /\ t.ready = s.ready
    /\ t.peer = s.peer /\ t.loops = s.loops /\ t.loop_error = s.loop_error
    /\ t.running = s.running
    /\ t.handed = s.handed

LEMMA PacketGenuine ==
    ASSUME NEW e \in Endpoints, NEW s, Local(e, s), s.at = "posted", ~s.loop_error,
           NEW nonce \in {"junk", "lucky"}
    PROVE  LET p == Packet(e, s, nonce)
           IN  /\ Genuine(p) /\ p.from = e /\ p.seq = s.counter
               /\ p.type = "DATA" => p.key = s.crypto.key
<1> DEFINE p == Packet(e, s, nonce)
<1>1. s \in States /\ Control(e, s)
  BY DEF Local, Typed
<1>2. /\ s.counter \in Nat /\ s.message \in Nat /\ s.call \in {"DATA", "HANDSHAKE"}
      /\ s.crypto.key \in Keys /\ NoKey \in Keys
  BY <1>1 DEF States, Contexts, Keys
<1>3. s.call = "DATA" => s.encrypted
  BY <1>1 DEF Control, Posting
<1>4. s.call # "DATA" => s.crypto.own \in Pairs /\ s.crypto.own \in Nat
  BY <1>1, <1>2, ConnectionAssumption DEF Control, Shaking
<1>5. s.peer \in Endpoints
  BY ConnectionAssumption DEF Local, ResponderOK, InitiatorOK, Endpoints
<1>6. /\ p.from = e /\ p.to = s.peer /\ p.type = s.call /\ p.seq = s.counter
      /\ p.body = IF s.call = "DATA" THEN s.message ELSE s.crypto.own
      /\ p.key = Sealing(s) /\ p.nonce = nonce
  BY DEF Packet, Datagram
<1>7. p.body \in Nat /\ p.key \in Keys
  BY <1>2, <1>4, <1>6 DEF Sealing
<1>8. p \in Datagrams
  <2>1. p = [from |-> p.from, to |-> p.to, type |-> p.type, seq |-> p.seq, body |-> p.body,
             key |-> p.key, nonce |-> p.nonce]
    BY DEF Packet, Datagram
  <2> HIDE DEF p
  <2> QED
    BY <1>2, <1>5, <1>6, <1>7, <2>1 DEF Datagrams, Keys
<1> HIDE DEF p
<1>9. CASE e = Responder
  <2>1. s.peer \in Initiators /\ (s.call = "DATA" => s.counter = 1 /\ s.message \in {CONFIRM, CONFIRM_FAILED})
        /\ (s.call = "HANDSHAKE" => s.counter = 0)
    BY <1>9 DEF Local, ResponderOK, Posting
  <2>2. Genuine(p)
    BY <1>4, <1>6, <1>8, <1>9, <2>1, ConnectionAssumption DEF Genuine
  <2> QED
    BY <1>3, <1>6, <2>2 DEF Sealing, p
<1>10. CASE e # Responder
  <2>1. s.peer = Responder /\ (s.call = "DATA" => s.counter = s.message /\ s.message \in 1 .. LastMessage)
    <3>1. InitiatorOK(s)
      BY <1>10 DEF Local
    <3>2. LastMessage \in Nat
      BY ConnectionAssumption DEF LastMessage, Announcement
    <3> QED
      BY <3>1, <3>2, <1>2 DEF InitiatorOK, Posting
  <2>2. Genuine(p)
    BY <1>4, <1>6, <1>8, <1>10, <2>1, ConnectionAssumption DEF Genuine, Endpoints
  <2> QED
    BY <1>3, <1>6, <2>2 DEF Sealing, p
<1> QED
  BY <1>9, <1>10 DEF p

LEMMA PostKeeps ==
    ASSUME Inv, NEW e \in Endpoints, ep[e].at = "posted", ~ep[e].loop_error,
           NEW nonce \in {"junk", "lucky"}, NEW t, Numbering(ep[e], Packet(e, ep[e], nonce), t),
           Become(e, t), net' = net \union {Packet(e, ep[e], nonce)}, UNCHANGED drawn
    PROVE  Preserved
<1> DEFINE s == ep[e]
           p == Packet(e, s, nonce)
<1>1. /\ s \in States /\ Local(e, s) /\ Control(e, s)
      /\ e = Responder => ResponderOK(s)
      /\ e # Responder => InitiatorOK(s)
      /\ e = Responder \/ e \in Initiators
  BY LocalOf
<1>2. Genuine(p) /\ p.from = e /\ p.seq = s.counter /\ (p.type = "DATA" => p.key = s.crypto.key)
  BY <1>1, PacketGenuine
<1>3. p.type = s.call /\ p.body = (IF s.call = "DATA" THEN s.message ELSE s.crypto.own)
      /\ p.to = s.peer
  BY DEF Packet, Datagram
<1> HIDE DEF p
<1>4. s.counter \in Nat /\ s.message \in Nat /\ s.loops
  BY <1>1 DEF States, Control, Ended
<1>5. Local(e, t)
  <2>1. Stored(t) = Stored(s)
    BY DEF Numbering, Stored, p
  <2>2. \A q \in t.in_flight : q.from = e /\ q.seq < t.counter /\ Genuine(q)
    <3>1. \A q \in s.in_flight : q.seq \in Nat
      BY <1>1 DEF States, Datagrams
    <3> QED
      BY <1>1, <1>2, <1>4, <3>1 DEF Local, Typed, Numbering, p
  <2>3. Alive(s)
    BY <1>4 DEF Alive
  <2>4. Typed(e, t)
    BY <1>1, <2>1, <2>2, <2>3 DEF Local, Typed, Numbering
  <2>5. Control(e, t)
    <3>1. Increasing(t.ready)
      BY <1>1 DEF Control, Numbering
    <3> QED
      BY <1>1, <1>4, <3>1 DEF Control, Numbering, Shaking, Posting, Writing, Ended
  <2>6. e = Responder => ResponderOK(t)
    BY <1>1, <1>4 DEF ResponderOK, Numbering, Asked, Posting, Writing
  <2>7. e # Responder => InitiatorOK(t)
    BY <1>1, <1>4, <2>3 DEF InitiatorOK, Numbering, Shaking, Posting, Writing
  <2> QED
    BY <2>4, <2>5, <2>6, <2>7, LocalParts
<1>6. Ahead(e, s, t)
  BY <1>1, <1>4 DEF Ahead, Numbering, Posting
<1>7. Matches(e, t)
  BY <1>1 DEF Matches, Numbering, Posting, Writing, ResponderOK, Asked
<1>8. Tells(t, p)
  <2>1. t.encrypted = s.encrypted /\ t.message = s.message /\ t.crypto = s.crypto
        /\ t.peer = s.peer /\ t.at = "writing" /\ t.counter = s.counter + 1
    BY DEF Numbering
  <2> QED
    BY <1>1, <1>2, <1>3, <1>4, <2>1 DEF Tells, Control, Posting, ResponderOK
<1>9. Sends(e, t, {p})
  BY <1>2, <1>8 DEF Sends, Numbering, Stored, p
<1>10. Clean(e, t)
  <2>1. Hands(s, t)
    BY HandsSame DEF Numbering, Ended
  <2> QED
    BY <2>1, HandsPlain DEF Clean
<1>11. Good(e, t, {p})
  BY <1>5, <1>6, <1>7, <1>9, <1>10 DEF Good
<1> QED
  BY <1>11, BecomeKeeps

LEMMA SendPacketKeeps == ASSUME Inv, NEW e \in Endpoints, send_packet(e) PROVE Preserved
<1> DEFINE s == ep[e]
           numbered == [s EXCEPT !.counter = @ + 1, !.current = s.counter]
           p(nonce) == Packet(e, s, nonce)
<1>1. s.at = "posted" /\ s \in States /\ Local(e, s) /\ s.at # "start" /\ UNCHANGED drawn
  BY LocalOf DEF send_packet
<1>2. \/ Become(e, Fail(s)) /\ UNCHANGED net
      \/ Become(e, Fail(numbered)) /\ UNCHANGED net
      \/ /\ ~s.loop_error
         /\ \E nonce \in Nonces \union {"junk"} :
               /\ Become(e, [numbered EXCEPT !.at = "writing",
                                             !.in_flight = @ \union {p(nonce)}])
               /\ net' = net \union {p(nonce)}
  BY DEF send_packet, Packet
<1>3. s.counter \in Nat /\ s.counter + 1 \in Nat
  BY <1>1 DEF States
<1>4. /\ numbered \in States
      /\ numbered.at = s.at /\ numbered.call = s.call /\ numbered.message = s.message
      /\ numbered.crypto = s.crypto /\ numbered.encrypted = s.encrypted
      /\ numbered.counter = s.counter + 1 /\ numbered.in_flight = s.in_flight
      /\ numbered.received = s.received /\ numbered.queue = s.queue
      /\ numbered.buffer = s.buffer /\ numbered.expected = s.expected
      /\ numbered.ready = s.ready /\ numbered.peer = s.peer /\ numbered.loops = s.loops
      /\ numbered.loop_error = s.loop_error /\ numbered.running = s.running
      /\ numbered.handed = s.handed
  BY <1>1, <1>3 DEF States
<1> HIDE DEF numbered
<1>5. CASE Become(e, Fail(s)) /\ UNCHANGED net
  <2>1. Down(s, Fail(s))
    BY <1>1, GotoDown DEF Fail
  <2>2. Good(e, Fail(s), {})
    BY <1>1, <1>5, <2>1, DownGood
  <2> QED
    BY <1>1, <1>5, <2>2, BecomeKeeps
<1>6. CASE Become(e, Fail(numbered)) /\ UNCHANGED net
  <2> DEFINE t == Fail(numbered)
  <2>0. "failed" \in AtStates
    BY DEF AtStates
  <2>1. /\ t \in States
        /\ t.at = "failed" /\ t.call = s.call /\ t.message = s.message
        /\ t.crypto = s.crypto /\ t.encrypted = s.encrypted
        /\ t.counter = s.counter + 1 /\ t.in_flight = s.in_flight
        /\ t.received = s.received /\ t.queue = s.queue
        /\ t.buffer = s.buffer /\ t.expected = s.expected
        /\ t.ready = s.ready /\ t.peer = s.peer /\ t.loops = s.loops
        /\ t.loop_error = s.loop_error /\ t.running = s.running
        /\ t.handed = s.handed
    BY <1>4, <2>0 DEF States, Fail, Goto
  <2> HIDE DEF t
  <2>2. Down(s, t)
    BY <1>1, <1>3, <2>1 DEF Down, Ended, Control, Local
  <2>3. Good(e, t, {})
    BY <1>1, <1>6, <2>2, DownGood
  <2> QED
    BY <1>1, <1>6, <2>3, BecomeKeeps DEF t
<1>7. ASSUME ~s.loop_error, NEW nonce \in Nonces \union {"junk"},
             Become(e, [numbered EXCEPT !.at = "writing", !.in_flight = @ \union {p(nonce)}]),
             net' = net \union {p(nonce)}
      PROVE  Preserved
  <2> DEFINE t == [numbered EXCEPT !.at = "writing", !.in_flight = @ \union {p(nonce)}]
  <2>1. nonce \in {"junk", "lucky"} /\ "writing" \in AtStates
    BY ConnectionAssumption DEF AtStates
  <2>2. p(nonce) \in Datagrams
    BY <1>1, <1>7, <2>1, PacketGenuine DEF Genuine
  <2> HIDE DEF p
  <2>3. numbered.in_flight \union {p(nonce)} \in SUBSET Datagrams
    BY <1>4, <2>2 DEF States
  <2>4. Numbering(s, p(nonce), t)
    BY <1>4, <2>1, <2>3 DEF Numbering, States
  <2> HIDE DEF t
  <2> QED
    BY <1>1, <1>7, <2>1, <2>4, PostKeeps DEF t, p
<1> QED
  BY <1>2, <1>5, <1>6, <1>7

-----------------------------------------------------------------------------
(* start_loops *)

\* t is s after start_loops, with the context c and the application at at.
Started(s, c, at, t) ==
    /\ t \in States
    /\ t.at = at /\ t.call = "HANDSHAKE" /\ t.message = s.message /\ t.crypto = c
    /\ t.encrypted = s.encrypted /\ t.counter = s.counter /\ t.in_flight = s.in_flight
    /\ t.received = s.received /\ t.queue = s.queue /\ t.buffer = s.buffer
    /\ t.expected = s.expected /\ t.ready = s.ready /\ t.peer = s.peer
    /\ t.loops /\ ~t.loop_error /\ t.running = s.running
    /\ t.handed = s.handed

LEMMA InitOutcome ==
    ASSUME NEW c \in Contexts, NEW pair \in Pairs, NEW o \in init(c, pair)
    PROVE  /\ o.context \in Contexts /\ o.context.key = c.key /\ o.context.ready = c.ready
           /\ o.ok => o.context.handle = pair /\ o.context.own = pair
           /\ o.ok \in BOOLEAN
<1>1. CASE o = Outcome([c EXCEPT !.handle = pair, !.own = pair], TRUE)
  BY <1>1 DEF Outcome, Contexts
<1>2. CASE o = Outcome([c EXCEPT !.handle = pair], FALSE)
  BY <1>2 DEF Outcome, Contexts
<1>3. CASE o = Outcome(c, FALSE)
  BY <1>3 DEF Outcome, Contexts
<1> QED
  BY <1>1, <1>2, <1>3 DEF init

\* A new endpoint.
LEMMA FreshFields ==
    ASSUME Inv, NEW e \in Endpoints, ep[e].at = "start"
    PROVE  LET s == ep[e]
           IN  /\ s.message = 0 /\ ~s.crypto.ready /\ ~s.encrypted /\ s.counter = 0
               /\ s.queue = << >> /\ ~s.running
               /\ s.peer = IF e = Responder THEN NoPeer ELSE Responder
<1>1. ep[e] = Fresh(IF e = Responder THEN NoPeer ELSE Responder)
  BY LocalOf DEF Control
<1> QED
  BY <1>1 DEF Fresh, NewContext

LEMMA StartedLocal ==
    ASSUME Inv, NEW e \in Endpoints,
           \/ ep[e].at = "start"
           \/ e # Responder /\ Writing(ep[e], "DATA") /\ ~ep[e].running,
           NEW c \in Contexts, c.key = ep[e].crypto.key, c.ready = ep[e].crypto.ready,
           NEW at, \/ at = "failed"
                   \/ /\ at = IF e = Responder THEN "handshake" ELSE "posted"
                      /\ c.handle \in Pairs /\ c.own = c.handle,
           NEW t, Started(ep[e], c, at, t)
    PROVE  Local(e, t) /\ Onward(e, t)
<1> DEFINE s == ep[e]
<1>1. /\ s \in States /\ Local(e, s) /\ Control(e, s)
      /\ e = Responder => ResponderOK(s)
      /\ e # Responder => InitiatorOK(s)
  BY LocalOf
<1>2. s.at = "start" => /\ s.message = 0 /\ ~s.crypto.ready /\ ~s.encrypted /\ s.counter = 0
                        /\ s.queue = << >> /\ ~s.running
                        /\ s.peer = IF e = Responder THEN NoPeer ELSE Responder
  BY FreshFields
<1>3. s.at # "start" => e # Responder /\ s.encrypted /\ Alive(s) /\ ~s.running
  BY <1>1 DEF Alive, Ended, Writing, Control
<1>4. Typed(e, t)
  <2>1. Stored(t) = Stored(s)
    BY DEF Started, Stored
  <2>2. s.at = "start" => Elements(s.queue) = {}
    BY <1>2, EmptyElements
  <2> QED
    BY <1>1, <1>3, <2>1, <2>2 DEF Local, Typed, Started
<1>5. Control(e, t)
  <2>1. Increasing(t.ready)
    BY <1>1 DEF Control, Started
  <2> QED
    BY <1>1, <1>2, <1>3, <2>1 DEF Control, Started, Shaking, Posting, Writing, Ended
<1>6. e = Responder => ResponderOK(t)
  BY <1>2, <1>3, <1>1 DEF Started, ResponderOK, Asked, Posting, Writing
<1>7. e # Responder => InitiatorOK(t)
  BY <1>1, <1>2, <1>3 DEF Started, InitiatorOK, Shaking, Posting, Writing
<1>8. Local(e, t)
  BY <1>4, <1>5, <1>6, <1>7, LocalParts
<1>9. Ahead(e, s, t)
  <2>1. s.counter \in Nat /\ s.message \in Nat
    BY <1>1 DEF States
  <2> QED
    BY <1>2, <1>3, <2>1 DEF Ahead, Started, Posting
<1>10. Matches(e, t)
  BY <1>2, <1>3 DEF Matches, Started, Asked, Writing
<1> QED
  BY <1>8, <1>9, <1>10 DEF Onward

LEMMA StartLoopsKeeps ==
    ASSUME Inv, NEW e \in Endpoints, start_loops(e), UNCHANGED net,
           \/ ep[e].at = "start"
           \/ e # Responder /\ Writing(ep[e], "DATA") /\ ~ep[e].running
    PROVE  Preserved
<1> DEFINE s == ep[e]
           u == [s EXCEPT !.loops = TRUE, !.loop_error = FALSE, !.stream_error = FALSE,
                          !.silent = FALSE, !.call = "HANDSHAKE"]
           keyed(o) == [u EXCEPT !.crypto = o.context]
<1>0. PICK pair \in Pairs \ drawn : \E o \in init(u.crypto, pair) :
         /\ drawn' = drawn \union {pair}
         /\ Become(e, IF ~o.ok THEN Fail(keyed(o))
                      ELSE Goto(keyed(o), IF e = Responder THEN "handshake" ELSE "posted"))
  BY DEF start_loops
<1>1. PICK o \in init(u.crypto, pair) :
         /\ drawn' = drawn \union {pair}
         /\ Become(e, IF ~o.ok THEN Fail(keyed(o))
                      ELSE Goto(keyed(o), IF e = Responder THEN "handshake" ELSE "posted"))
  BY <1>0
<1>2. s \in States
  BY LocalOf
<1>3. u \in States /\ u.crypto = s.crypto
  BY <1>2 DEF States
<1> DEFINE at == IF ~o.ok THEN "failed" ELSE IF e = Responder THEN "handshake" ELSE "posted"
           t == Goto(keyed(o), at)
<1>4. Become(e, t)
  BY <1>1 DEF Fail
<1>5. s.crypto \in Contexts
  BY <1>2 DEF States
<1>6. /\ o.context \in Contexts /\ o.context.key = s.crypto.key
      /\ o.context.ready = s.crypto.ready
      /\ o.ok => o.context.handle = pair /\ o.context.own = pair
  BY <1>1, <1>3, <1>5, InitOutcome
<1>7. at \in AtStates
  BY DEF AtStates
<1>8. Started(s, o.context, at, t)
  <2> HIDE DEF at
  <2>1. t = [s EXCEPT !.loops = TRUE, !.loop_error = FALSE, !.stream_error = FALSE,
                      !.silent = FALSE, !.call = "HANDSHAKE", !.crypto = o.context, !.at = at]
    BY DEF Goto
  <2> HIDE DEF t
  <2> QED
    BY <1>2, <1>6, <1>7, <2>1 DEF Started, States
<1>9. \/ at = "failed"
      \/ /\ at = IF e = Responder THEN "handshake" ELSE "posted"
         /\ o.context.handle \in Pairs /\ o.context.own = o.context.handle
  BY <1>1, <1>6
<1> HIDE DEF at, t
<1>10. Local(e, t) /\ Onward(e, t)
  BY <1>6, <1>8, <1>9, StartedLocal
<1>11. Sends(e, t, {})
  BY <1>8 DEF Sends, Started, Stored
<1>12. Clean(e, t)
  <2>1. Hands(s, t)
    BY <1>8, HandsSame DEF Started, Ended, Writing
  <2> QED
    BY <2>1, HandsPlain DEF Clean
<1>13. Good(e, t, {})
  BY <1>10, <1>11, <1>12 DEF Good, Onward
<1>14. drawn' \subseteq Pairs
  BY <1>1 DEF Inv
<1> QED
  BY <1>4, <1>13, <1>14, StepKeeps DEF Become

LEMMA StartKeeps == ASSUME Inv, NEW e \in Endpoints, start(e) PROVE Preserved
  BY StartLoopsKeeps DEF start

-----------------------------------------------------------------------------
(* receive() *)

\* A step of e that leaves its keys, its numbers and its messages as they are.
Calm(e, s, t) ==
    /\ t.at \in {"receiving", "closing", "failed"} /\ t.message = s.message
    /\ t.crypto = s.crypto /\ t.counter = s.counter /\ t.peer = s.peer
    /\ s.encrypted => t.encrypted
    /\ e # Responder => t.encrypted = s.encrypted

LEMMA CalmOnward ==
    ASSUME Inv, NEW e \in Endpoints, NEW t, Calm(e, ep[e], t)
    PROVE  Onward(e, t)
<1>1. ep[e].counter \in Nat /\ ep[e].message \in Nat
  BY LocalOf DEF States
<1>2. Ahead(e, ep[e], t)
  BY <1>1 DEF Calm, Ahead, Posting
<1>3. Matches(e, t)
  BY DEF Calm, Matches, Asked, Writing
<1> QED
  BY <1>2, <1>3 DEF Onward

\* What the others have said in the packets an endpoint keeps.
LEMMA Told ==
    ASSUME Inv, NEW e \in Endpoints
    PROVE  \A p \in Stored(ep[e]) : Tells(ep[p.from], p) /\ p.from = ep[e].peer
  BY LocalOf DEF Inv, Traffic, Typed

\* The application waits in receive().
Waits(v) == [v EXCEPT !.at = "receiving", !.ready = << >>]

\* All the packets of t were kept by v, and none is sent.
Kept(v, t) == t.in_flight = v.in_flight /\ Stored(t) \subseteq Stored(v) /\ Hands(v, t)

LEMMA WaitsFields ==
    ASSUME NEW v \in States
    PROVE  LET b == Waits(v)
           IN  /\ b \in States
               /\ b.at = "receiving" /\ b.call = v.call /\ b.message = v.message
               /\ b.crypto = v.crypto /\ b.encrypted = v.encrypted /\ b.counter = v.counter
               /\ b.in_flight = v.in_flight /\ b.received = v.received /\ b.queue = v.queue
               /\ b.buffer = v.buffer /\ b.expected = v.expected /\ b.ready = << >>
               /\ b.handed = v.handed
               /\ b.peer = v.peer /\ b.loops = v.loops /\ b.loop_error = v.loop_error
               /\ b.running = v.running
<1>1. "receiving" \in AtStates /\ << >> \in Seq(Datagrams)
  BY DEF AtStates
<1> QED
  BY <1>1 DEF Waits, States

LEMMA WaitsLocal ==
    ASSUME NEW e \in Endpoints, NEW v, Local(e, v), v.at = "writing", v.encrypted,
           e # Responder => v.call = "DATA" /\ v.message = Announcement,
           NEW b, b = Waits(v)
    PROVE  Local(e, b)
<1>1. v \in States /\ Control(e, v)
  BY DEF Local, Typed
<1>2. /\ b \in States
      /\ b.at = "receiving" /\ b.call = v.call /\ b.message = v.message
      /\ b.crypto = v.crypto /\ b.encrypted = v.encrypted /\ b.counter = v.counter
      /\ b.in_flight = v.in_flight /\ b.received = v.received /\ b.queue = v.queue
      /\ b.buffer = v.buffer /\ b.expected = v.expected /\ b.ready = << >>
      /\ b.peer = v.peer /\ b.loops = v.loops /\ b.loop_error = v.loop_error
      /\ b.running = v.running
  BY <1>1, WaitsFields
<1>3. Alive(v)
  BY DEF Alive, Ended
<1>4. Typed(e, b)
  <2>1. Stored(b) \subseteq Stored(v) /\ Elements(b.ready) = {}
    BY <1>2, EmptyElements DEF Stored
  <2> QED
    BY <1>2, <1>3, <2>1 DEF Local, Typed
<1>5. Control(e, b)
  <2>1. Increasing(b.ready)
    BY <1>2 DEF Increasing
  <2> QED
    BY <1>1, <1>2, <2>1 DEF Control, Shaking, Posting, Writing, Ended
<1>6. ASSUME e = Responder PROVE ResponderOK(b)
  <2>1. ResponderOK(v) /\ v.call \in {"DATA", "HANDSHAKE"}
    BY <1>1, <1>6 DEF Local, States
  <2>2. Elements(b.ready) = {}
    BY <1>2, EmptyElements
  <2> QED
    BY <1>2, <2>1, <2>2 DEF ResponderOK, Asked, Posting, Writing
<1>7. ASSUME e # Responder PROVE InitiatorOK(b)
  BY <1>2, <1>3, <1>7 DEF Local, InitiatorOK, Shaking, Posting, Writing, Announcement
<1> QED
  BY <1>4, <1>5, <1>6, <1>7, LocalParts

LEMMA ReceiveKeeps ==
    ASSUME NEW e \in Endpoints, ep[e] \in States, NEW v, Local(e, v), v.at = "writing",
           v.encrypted, e # Responder => v.call = "DATA" /\ v.message = Announcement,
           Onward(e, Fail(v)), Onward(e, Waits(v)),
           \A p \in Held(v) : Tells(ep[p.from], p) /\ p.from = v.peer,
           NEW t, t = Receive(e, v)
    PROVE  Local(e, t) /\ Onward(e, t) /\ Kept(v, t)
<1>1. v \in States
  BY DEF Local, Typed
<1>2. CASE v.stream_error
  <2>1. t = Fail(v)
    BY <1>2 DEF Receive
  <2>2. Down(v, t)
    BY <2>1, GotoDown DEF Fail
  <2>3. Local(e, t)
    BY <2>2, DownLocal
  <2>4. /\ t.buffer = v.buffer /\ t.ready = v.ready /\ t.handed = v.handed
        /\ t.queue = v.queue /\ t.at = "failed" /\ t.in_flight = v.in_flight
    BY <1>1, <2>1 DEF Fail, Goto, States
  <2>5. Kept(v, t)
    BY <2>4, HandsSame DEF Kept, Stored, Ended
  <2> QED
    BY <2>1, <2>3, <2>5
<1>3. CASE ~v.stream_error
  <2> DEFINE b == Waits(v)
             n == Len(v.ready)
  <2>1. t = HandAll(e, b, v.ready)
    BY <1>3 DEF Receive, Waits
  <2>2. Local(e, b)
    BY WaitsLocal
  <2>3. /\ b.encrypted /\ b.expected = v.expected /\ b.peer = v.peer /\ b.buffer = v.buffer
        /\ b.ready = << >> /\ b.queue = v.queue /\ b.in_flight = v.in_flight
        /\ b.at = "receiving" /\ b.message = v.message /\ b.handed = v.handed
    BY <1>1, WaitsFields
  <2> HIDE DEF b
  <2>4. n \in Nat /\ DOMAIN v.ready = 1 .. n
    BY <1>1 DEF States
  <2>5. \A i \in 1 .. n : Due(e, b, v.ready[i])
    <3>1. \A i \in 1 .. n : v.ready[i] \in Elements(v.ready) /\ v.ready[i] \in Stored(v)
      BY <2>4 DEF Elements, Stored
    <3>2. Elements(b.ready) = {}
      BY <2>3, EmptyElements
    <3>3. e = Responder /\ Asked(b) => \A p \in Elements(v.ready) : p.seq # Announcement
      BY <2>3 DEF Local, ResponderOK, Asked
    <3> QED
      BY <2>3, <3>1, <3>2, <3>3 DEF Due, Local, Typed
  <2>6. Increasing(v.ready)
    BY DEF Local, Control
  <2> HIDE DEF n
  <2>7. Local(e, t) /\ Moves(e, b, t, Elements(v.ready))
    BY <2>1, <2>2, <2>3, <2>4, <2>5, <2>6, HandAllKeeps
  <2>8. Held(b) \union Elements(v.ready) \subseteq Held(v)
    BY <2>3, EmptyElements DEF Held
  <2>9. Onward(e, t)
    BY <2>2, <2>3, <2>7, <2>8, OnwardMoves DEF b
  <2>10. Hands(v, t)
    BY <2>3, <2>7, <2>8 DEF Moves, Framed, Hands, Ended
  <2>11. Kept(v, t)
    BY <2>3, <2>7, <2>8, <2>10 DEF Kept, Moves, Framed, Stored, Held
  <2> QED
    BY <2>7, <2>9, <2>11
<1> QED
  BY <1>2, <1>3

-----------------------------------------------------------------------------
(* The application goes on after send() *)

\* A step of e without a new packet.
LEMMA QuietKeeps ==
    ASSUME Inv, NEW e \in Endpoints, NEW t, Become(e, t), UNCHANGED <<net, drawn>>,
           Local(e, t), Onward(e, t), Kept(ep[e], t)
    PROVE  Preserved
<1>1. Sends(e, t, {})
  BY DEF Sends, Kept
<1>2. Clean(e, t)
  BY HandsPlain DEF Clean, Kept
<1>3. Good(e, t, {})
  BY <1>1, <1>2 DEF Good, Onward
<1> QED
  BY <1>3, BecomeKeeps

LEMMA SentKeeps ==
    ASSUME Inv, NEW e \in Endpoints, Writing(ep[e], "DATA"), UNCHANGED <<net, drawn>>,
           NEW t, Become(e, t), t = Receive(e, ep[e]),
           e # Responder => ep[e].message = Announcement
    PROVE  Preserved
<1> DEFINE s == ep[e]
<1>1. s \in States /\ Local(e, s) /\ Control(e, s)
  BY LocalOf
<1>2. s.at = "writing" /\ s.call = "DATA" /\ s.encrypted
  BY <1>1 DEF Writing, Control
<1>3. Onward(e, Fail(s)) /\ Onward(e, Waits(s))
  <2>1. Calm(e, s, Fail(s)) /\ Calm(e, s, Waits(s))
    BY <1>1 DEF Calm, Fail, Goto, Waits, States
  <2> QED
    BY <2>1, CalmOnward
<1>4. \A p \in Held(s) : Tells(ep[p.from], p) /\ p.from = s.peer
  BY Told DEF Held, Stored
<1>5. Local(e, t) /\ Onward(e, t) /\ Kept(s, t)
  BY <1>1, <1>2, <1>3, <1>4, ReceiveKeeps
<1> QED
  BY <1>5, QuietKeeps

LEMMA ClosingKeeps ==
    ASSUME Inv, NEW e \in Endpoints, e # Responder, Writing(ep[e], "DATA"),
           UNCHANGED <<net, drawn>>, NEW t, Become(e, t), t = Goto(ep[e], "closing")
    PROVE  Preserved
<1> DEFINE s == ep[e]
<1>1. s \in States /\ Local(e, s) /\ Control(e, s) /\ "closing" \in AtStates /\ InitiatorOK(s)
  BY LocalOf DEF AtStates
<1>2. /\ t \in States
      /\ t.at = "closing" /\ t.call = s.call /\ t.message = s.message /\ t.crypto = s.crypto
      /\ t.encrypted = s.encrypted /\ t.counter = s.counter /\ t.in_flight = s.in_flight
      /\ t.received = s.received /\ t.queue = s.queue /\ t.buffer = s.buffer
      /\ t.expected = s.expected /\ t.ready = s.ready /\ t.peer = s.peer
      /\ t.loops = s.loops /\ t.loop_error = s.loop_error /\ t.running = s.running
      /\ t.handed = s.handed
  BY <1>1 DEF States, Goto
<1>3. s.at = "writing" /\ s.encrypted
  BY <1>1 DEF Writing, Control
<1>4. Typed(e, t)
  <2>1. Alive(s)
    BY <1>3 DEF Alive, Ended
  <2>2. Stored(t) = Stored(s)
    BY <1>2 DEF Stored
  <2> QED
    BY <1>1, <1>2, <2>1, <2>2 DEF Local, Typed
<1>5. Control(e, t)
  <2>1. Increasing(t.ready)
    BY <1>1, <1>2 DEF Control
  <2> QED
    BY <1>1, <1>2, <1>3, <2>1 DEF Control, Shaking, Posting, Writing, Ended
<1>6. InitiatorOK(t)
  <2>1. Alive(s)
    BY <1>3 DEF Alive, Ended
  <2> QED
    BY <1>1, <1>2, <1>3, <2>1 DEF InitiatorOK, Shaking, Posting, Writing
<1>7. Local(e, t)
  BY <1>4, <1>5, <1>6, LocalParts
<1>8. Onward(e, t)
  BY <1>2, CalmOnward DEF Calm
<1>9. Kept(s, t)
  <2>1. Hands(s, t)
    BY <1>2, <1>3, HandsSame DEF Ended
  <2> QED
    BY <1>2, <2>1 DEF Kept, Stored
<1> QED
  BY <1>7, <1>8, <1>9, QuietKeeps

LEMMA NextKeeps ==
    ASSUME Inv, NEW e \in Endpoints, e # Responder, Writing(ep[e], "DATA"),
           ep[e].message \in (Announcement + 1) .. (LastMessage - 1),
           UNCHANGED <<net, drawn>>, NEW t, Become(e, t), t = Send(ep[e], ep[e].message + 1)
    PROVE  Preserved
<1> DEFINE s == ep[e]
           m == s.message + 1
<1>1. s \in States /\ Local(e, s) /\ Control(e, s) /\ InitiatorOK(s)
  BY LocalOf
<1>2. s.at = "writing" /\ s.encrypted /\ (~s.loop_error => s.counter = m)
  BY <1>1 DEF Writing, Control, InitiatorOK
<1>3. LastMessage \in Nat /\ s.message \in Nat /\ s.counter \in Nat
  BY <1>1, ConnectionAssumption DEF LastMessage, Announcement, States
<1>4. m \in Nat /\ m \in 1 .. LastMessage /\ m >= s.message
  BY <1>3 DEF Announcement
<1> HIDE DEF m
<1>5. Local(e, t)
  BY <1>1, <1>2, <1>4, SendLocal DEF Ended, m
<1>6. Posted(s, m, t)
  BY <1>1, <1>4, SendFields DEF m
<1>7. Ahead(e, s, t)
  <2>1. t.counter >= s.counter /\ t.message >= s.message
    BY <1>3, <1>4, <1>6 DEF Posted
  <2>2. t.encrypted /\ t.crypto = s.crypto /\ t.at # "start"
    BY <1>2, <1>6 DEF Posted
  <2> QED
    BY <2>1, <2>2 DEF Ahead
<1>8. Matches(e, t)
  <2>1. s.message > Announcement
    BY <1>3 DEF Announcement
  <2> QED
    BY <1>2, <1>6, <2>1 DEF Matches, Posted
<1>9. Kept(s, t)
  <2>1. Hands(s, t)
    BY <1>2, <1>6, HandsSame DEF Ended, Posted
  <2> QED
    BY <1>6, <2>1 DEF Kept, Posted, Stored
<1> QED
  BY <1>5, <1>7, <1>8, <1>9, QuietKeeps DEF Onward

LEMMA MessageSentKeeps == ASSUME Inv, NEW e \in Endpoints, message_sent(e) PROVE Preserved
<1> DEFINE s == ep[e]
<1>1. Writing(s, "DATA") /\ UNCHANGED net
  BY DEF message_sent, Writing
<1>2. CASE e = Responder
  <2>1. CASE Become(e, Receive(e, s)) /\ UNCHANGED drawn
    BY <1>1, <1>2, <2>1, SentKeeps
  <2>2. CASE Become(e, Goto(s, "refused")) /\ UNCHANGED drawn
    <3>1. Local(e, s) /\ s.at = "writing" /\ s.at # "start"
      BY <1>1, LocalOf DEF Writing
    <3>2. Down(s, Goto(s, "refused"))
      BY <3>1, GotoDown
    <3>3. Good(e, Goto(s, "refused"), {})
      BY <1>1, <3>1, <3>2, DownGood
    <3> QED
      BY <1>1, <2>2, <3>3, BecomeKeeps
  <2> QED
    BY <1>2, <2>1, <2>2 DEF message_sent
<1>3. CASE e # Responder
  <2>1. CASE s.message = Announcement /\ Become(e, Receive(e, s)) /\ UNCHANGED drawn
    BY <1>1, <2>1, SentKeeps
  <2>2. CASE Become(e, Goto(s, "closing")) /\ UNCHANGED drawn
    BY <1>1, <1>3, <2>2, ClosingKeeps
  <2>3. CASE /\ s.message \in (Announcement + 1) .. (LastMessage - 1)
             /\ Become(e, Send(s, s.message + 1)) /\ UNCHANGED drawn
    BY <1>1, <1>3, <2>3, NextKeeps
  <2>4. CASE ~s.running /\ start_loops(e)
    BY <1>1, <1>3, <2>4, StartLoopsKeeps
  <2> QED
    BY <1>3, <2>1, <2>2, <2>3, <2>4 DEF message_sent
<1> QED
  BY <1>2, <1>3

-----------------------------------------------------------------------------
(* The end of a handshake *)

\* The end of the handshake, with nothing of the queue taken yet.
LEMMA BegunFields ==
    ASSUME NEW s \in States, NEW crypto \in Contexts
    PROVE  LET w == Begun(Agreed(s, crypto))
           IN  /\ w \in States
               /\ w.crypto = crypto /\ w.encrypted /\ w.running /\ w.queue = << >>
               /\ w.buffer = {} /\ w.ready = s.ready /\ w.at = s.at /\ w.call = s.call
               /\ w.message = s.message /\ w.counter = s.counter
               /\ w.in_flight = s.in_flight /\ w.received = s.received /\ w.peer = s.peer
               /\ w.loops = s.loops /\ w.loop_error = s.loop_error
               /\ w.handed = s.handed
<1>1. << >> \in Seq(Datagrams) /\ 1 \in Nat
  OBVIOUS
<1> QED
  BY <1>1 DEF Begun, Agreed, States

LEMMA ResponderKeeps == ASSUME Inv, NEW e \in Endpoints, handshake_responder(e) PROVE Preserved
<1> DEFINE s == ep[e]
           v == [s EXCEPT !.encrypted = TRUE]
<1>1. /\ e = Responder /\ s.at = "writing" /\ s.call = "HANDSHAKE"
      /\ Become(e, HandshakeSent(e, s)) /\ UNCHANGED <<net, drawn>>
  BY DEF handshake_responder
<1>2. s \in States /\ Local(e, s) /\ Typed(e, s) /\ Control(e, s) /\ ResponderOK(s)
  BY <1>1, LocalOf
<1>3. ~s.encrypted /\ s.crypto.ready /\ s.message = 0 /\ Writing(s, "HANDSHAKE")
  BY <1>1, <1>2 DEF Inv, Writing, ResponderOK
<1>4. CASE s.loop_error
  <2> DEFINE t == Fail([v EXCEPT !.stream_error = TRUE])
  <2>0. "failed" \in AtStates
    BY DEF AtStates
  <2>1. /\ t \in States
        /\ t.at = "failed" /\ t.call = s.call /\ t.message = s.message /\ t.crypto = s.crypto
        /\ t.encrypted /\ t.counter = s.counter /\ t.in_flight = s.in_flight
        /\ t.received = s.received /\ t.queue = s.queue /\ t.buffer = s.buffer
        /\ t.expected = s.expected /\ t.ready = s.ready /\ t.peer = s.peer
        /\ t.loops = s.loops /\ t.loop_error = s.loop_error /\ t.running = s.running
        /\ t.handed = s.handed
    BY <1>2, <2>0 DEF States, Fail, Goto
  <2>2. Become(e, t)
    BY <1>1, <1>4 DEF HandshakeSent
  <2> HIDE DEF t
  <2>3. Typed(e, t)
    <3>1. Stored(t) = Stored(s) /\ Alive(s)
      BY <1>1, <2>1 DEF Stored, Alive, Ended
    <3> QED
      BY <1>2, <2>1, <3>1 DEF Typed
  <2>4. Control(e, t)
    <3>1. Increasing(t.ready)
      BY <1>2, <2>1 DEF Control
    <3> QED
      BY <1>2, <1>3, <2>1, <3>1 DEF Control, Shaking, Posting, Writing, Ended
  <2>5. ResponderOK(t)
    BY <1>2, <1>1, <1>3, <2>1 DEF ResponderOK, Posting, Writing, Asked
  <2>6. Local(e, t)
    BY <1>1, <2>3, <2>4, <2>5, LocalParts
  <2>7. Onward(e, t)
    BY <1>1, <2>1, CalmOnward DEF Calm
  <2>8. Kept(s, t)
    <3>1. Hands(s, t)
      BY <1>1, <2>1, HandsSame DEF Ended
    <3> QED
      BY <2>1, <3>1 DEF Kept, Stored
  <2> QED
    BY <1>1, <2>2, <2>6, <2>7, <2>8, QuietKeeps
<1>5. CASE ~s.loop_error
  <2> DEFINE w == Begun(Agreed(s, s.crypto))
             u == StartChunks(e, Agreed(s, s.crypto))
             K == DataOf(Elements(s.queue))
             t == Receive(e, u)
  <2>0. v = Agreed(s, s.crypto)
    BY <1>2 DEF Agreed, States
  <2>1. Become(e, t)
    BY <1>1, <1>5, <2>0 DEF HandshakeSent
  <2>2. s.crypto \in Contexts /\ s.crypto.key # NoKey /\ s.loops
    BY <1>1, <1>2, <1>3, <1>5 DEF States, Control, Ended
  <2> HIDE DEF v, u, t
  <2>3. Local(e, u) /\ Moves(e, w, u, K)
    BY <1>1, <1>2, <1>3, <2>2, StartChunksKeeps DEF u
  <2>4. /\ w.crypto = s.crypto /\ w.encrypted /\ w.queue = << >> /\ w.buffer = {}
        /\ w.ready = s.ready /\ w.at = s.at /\ w.call = s.call /\ w.message = s.message
        /\ w.counter = s.counter /\ w.in_flight = s.in_flight /\ w.peer = s.peer
        /\ w.handed = s.handed
    BY <1>2, <2>2, BegunFields
  <2> HIDE DEF w
  <2>5. /\ u.crypto = s.crypto /\ u.encrypted /\ u.queue = << >> /\ u.at = "writing"
        /\ u.message = s.message /\ u.counter = s.counter /\ u.in_flight = s.in_flight
        /\ u.peer = s.peer
    BY <1>1, <2>3, <2>4 DEF Moves, Framed
  <2>6. Held(u) \subseteq Stored(s) /\ Stored(u) \subseteq Stored(s)
    <3>1. Held(u) \subseteq Stored(s)
      BY <2>3, <2>4 DEF Moves, Held, Stored, K, DataOf
    <3> QED
      BY <2>5, <3>1, EmptyElements DEF Stored, Held
  <2>7. Onward(e, Fail(u)) /\ Onward(e, Waits(u))
    <3>1. u \in States
      BY <2>3 DEF Local, Typed
    <3>2. Calm(e, s, Fail(u)) /\ Calm(e, s, Waits(u))
      BY <1>1, <2>5, <3>1 DEF Calm, Fail, Goto, Waits, States
    <3> QED
      BY <3>2, CalmOnward
  <2>8. \A p \in Held(u) : Tells(ep[p.from], p) /\ p.from = u.peer
    BY <2>5, <2>6, Told
  <2>9. Local(e, t) /\ Onward(e, t) /\ Kept(u, t)
    BY <1>1, <1>2, <2>3, <2>5, <2>7, <2>8, ReceiveKeeps DEF t
  <2>10. Hands(s, u)
    <3>1. s.at \notin Ended
      BY <1>1 DEF Ended
    <3> QED
      BY <2>3, <2>4, <2>5, <3>1, EmptyElements DEF Hands, Moves, Held
  <2>11. Kept(s, t)
    BY <2>5, <2>6, <2>9, <2>10, HandsOn DEF Kept
  <2> QED
    BY <1>1, <2>1, <2>9, <2>11, QuietKeeps
<1> QED
  BY <1>4, <1>5

LEMMA SaltAgrees == ASSUME NEW a \in Nat, NEW b \in Nat PROVE Salt(a, b) = Salt(b, a)
  BY DEF Salt

LEMMA KeysAgree ==
    ASSUME NEW a \in Nat, NEW b \in Nat PROVE Derive(a, a, b) = Derive(b, b, a)
  BY SaltAgrees DEF Derive

LEMMA DerivedKey ==
    ASSUME NEW a \in Pairs, NEW b \in Pairs, NEW c \in Pairs
    PROVE  Derive(a, b, c) \in Keys /\ Derive(a, b, c) # NoKey
<1> DEFINE key == Derive(a, b, c)
<1>1. key = [secret |-> {a, c}, salt |-> <<b, c>>] \/ key = [secret |-> {a, c}, salt |-> <<c, b>>]
  BY DEF Derive, Salt
<1>2. key.secret = {a, c}
  BY DEF Derive
<1>3. key # NoKey
  <2>1. NoKey.secret = {}
    BY DEF NoKey
  <2>2. a \in {a, c}
    OBVIOUS
  <2> QED
    BY <1>2, <2>1, <2>2
<1> HIDE DEF key
<1>4. key \in Keys
  BY <1>1 DEF Keys
<1> QED
  BY <1>3, <1>4 DEF key

\* Two contexts of which each has been given the public key of the other, whichever side
\* was first and whatever they held before: once both calls of set_peer_public_key have
\* succeeded, both encrypt and each opens what the other has sealed.
THEOREM PeersUnderstandEachOther ==
    ASSUME NEW a \in Nat, NEW b \in Nat, NEW c, NEW d, NEW K,
           c \in [handle : Nat, own : Nat, peer : Nat, key : K, ready : BOOLEAN],
           d \in [handle : Nat, own : Nat, peer : Nat, key : K, ready : BOOLEAN],
           c.handle = a /\ c.own = a, d.handle = b /\ d.own = b,
           NEW alice \in set_peer_public_key(c, d.own), alice.ok,
           NEW bob \in set_peer_public_key(d, c.own), bob.ok
    PROVE  /\ CanEncrypt(alice.context) /\ CanDecrypt(bob.context, alice.context.key)
           /\ CanEncrypt(bob.context) /\ CanDecrypt(alice.context, bob.context.key)
<1>1. alice = Outcome([c EXCEPT !.peer = b, !.key = Derive(a, a, b), !.ready = TRUE], TRUE)
  BY DEF set_peer_public_key, Outcome
<1>2. bob = Outcome([d EXCEPT !.peer = a, !.key = Derive(b, b, a), !.ready = TRUE], TRUE)
  BY DEF set_peer_public_key, Outcome
<1>3. alice.context.ready /\ alice.context.key = Derive(a, a, b)
  BY <1>1 DEF Outcome
<1>4. bob.context.ready /\ bob.context.key = Derive(b, b, a)
  BY <1>2 DEF Outcome
<1> QED
  BY <1>3, <1>4, KeysAgree DEF CanEncrypt, CanDecrypt

\* What set_peer_public_key makes of the context of an endpoint at its handshake.
LEMMA PeerKeyOutcome ==
    ASSUME NEW c \in Contexts, c.handle = c.own, c.own \in Pairs, NEW body \in Pairs,
           NEW o \in set_peer_public_key(c, body)
    PROVE  /\ o.context \in Contexts
           /\ o.context.handle = c.handle /\ o.context.own = c.own
           /\ o.ok => /\ o.context.ready /\ o.context.key # NoKey
                      /\ o.context.key = Derive(c.own, c.own, body)
           /\ ~o.ok => o.context.ready = c.ready /\ o.context.key = c.key
<1>1. body \in Nat /\ TRUE \in BOOLEAN
  BY ConnectionAssumption
<1> DEFINE key == Derive(c.handle, c.own, body)
<1>2. key \in Keys /\ key # NoKey /\ key = Derive(c.own, c.own, body)
  BY DerivedKey
<1> HIDE DEF key
<1>3. CASE o = Outcome([c EXCEPT !.peer = body, !.key = key, !.ready = TRUE], TRUE)
  BY <1>1, <1>2, <1>3 DEF Outcome, Contexts
<1>4. CASE o = Outcome([c EXCEPT !.peer = body], FALSE)
  BY <1>1, <1>4 DEF Outcome, Contexts
<1> QED
  BY <1>3, <1>4 DEF set_peer_public_key, key

\* u is s after it has heard of its peer, and nothing else.
Near(e, s, u) ==
    /\ u.at = s.at /\ u.call = s.call /\ u.message = s.message /\ u.crypto = s.crypto
    /\ u.encrypted = s.encrypted /\ u.counter = s.counter
    /\ s.peer # NoPeer => u.peer = s.peer

LEMMA NearOnward ==
    ASSUME Inv, NEW e \in Endpoints, ep[e].at # "start", NEW u, Near(e, ep[e], u)
    PROVE  Onward(e, u)
<1> DEFINE s == ep[e]
<1>1. s.counter \in Nat /\ s.message \in Nat
  BY LocalOf DEF States
<1>2. Ahead(e, s, u)
  BY <1>1 DEF Ahead, Near, Posting
<1>3. Matches(e, u)
  <2>1. e = Responder => (Writing(s, "HANDSHAKE") => ~s.encrypted)
    BY DEF Inv
  <2> QED
    BY <2>1 DEF Matches, Near, Asked, Writing
<1> QED
  BY <1>2, <1>3 DEF Onward

\* A waiting endpoint takes the first packet of its peer.
Shakes(e, u, p) ==
    /\ u.loops
    /\ u.at = "handshake" \/ (e # Responder /\ Writing(u, "HANDSHAKE"))
    /\ Genuine(p) /\ p.to = e /\ p.from = u.peer /\ p.seq \in u.received
    /\ Tells(ep[p.from], p)
    /\ e # Responder /\ u.encrypted => p.type # "HANDSHAKE"

\* t is u with a new context.
Keyed(u, c, t) ==
    /\ t \in States
    /\ t.message = u.message /\ t.crypto = c /\ t.encrypted = u.encrypted
    /\ t.counter = u.counter /\ t.in_flight = u.in_flight /\ t.received = u.received
    /\ t.queue = u.queue /\ t.buffer = u.buffer /\ t.expected = u.expected
    /\ t.ready = u.ready /\ t.peer = u.peer /\ t.loops = u.loops
    /\ t.loop_error = u.loop_error /\ t.running = u.running
    /\ t.handed = u.handed

\* The key does not fit: the application fails.
LEMMA KeyRefused ==
    ASSUME Inv, NEW e \in Endpoints, NEW u, Local(e, u), Near(e, ep[e], u),
           ep[e].at # "start", NEW p, Shakes(e, u, p), p.type = "HANDSHAKE",
           NEW c \in Contexts, c.own = u.crypto.own, c.ready = u.crypto.ready,
           c.key = u.crypto.key,
           NEW t, Keyed(u, c, t), t.at = "failed"
    PROVE  Local(e, t) /\ Onward(e, t) /\ Kept(u, t)
<1>1. /\ u \in States /\ Control(e, u) /\ Typed(e, u)
      /\ e = Responder => ResponderOK(u)
      /\ e # Responder => InitiatorOK(u)
  BY DEF Local, Typed
<1>2. Alive(u)
  BY DEF Shakes, Alive
<1>3. Stored(t) = Stored(u)
  BY DEF Keyed, Stored
<1>4. Typed(e, t)
  BY <1>1, <1>2, <1>3 DEF Keyed, Typed
<1>5. Control(e, t)
  <2>1. Increasing(t.ready)
    BY <1>1 DEF Control, Keyed
  <2> QED
    BY <1>1, <2>1 DEF Control, Keyed, Shaking, Posting, Writing, Ended
<1>6. e = Responder => ResponderOK(t)
  BY <1>1 DEF ResponderOK, Keyed, Posting, Writing, Asked
<1>7. e # Responder => InitiatorOK(t)
  BY <1>1, <1>2 DEF InitiatorOK, Keyed, Posting, Writing, Shaking
<1>8. Local(e, t)
  BY <1>4, <1>5, <1>6, <1>7, LocalParts
<1>9. Onward(e, u)
  BY NearOnward
<1>10. Ahead(e, ep[e], t)
  <2>1. e = Responder => ~u.crypto.ready
    BY <1>1 DEF Shakes, ResponderOK
  <2>2. e # Responder => ~u.encrypted
    BY DEF Shakes
  <2> QED
    BY <1>9, <2>1, <2>2 DEF Near, Onward, Ahead, Keyed, Posting
<1>11. Matches(e, t)
  BY <1>9 DEF Near, Onward, Matches, Keyed, Asked, Writing
<1>12. Hands(u, t)
  BY HandsSame DEF Keyed, Ended
<1> QED
  BY <1>3, <1>8, <1>10, <1>11, <1>12 DEF Onward, Kept, Keyed

\* The responder has its key and answers.
LEMMA ResponderAgrees ==
    ASSUME Inv, NEW u, Local(Responder, u), Near(Responder, ep[Responder], u),
           ep[Responder].at # "start", NEW p, Shakes(Responder, u, p), p.type = "HANDSHAKE",
           NEW c \in Contexts, c.own = u.crypto.own, c.handle = u.crypto.handle,
           c.ready, c.key # NoKey, c.key = Derive(u.crypto.own, u.crypto.own, p.body),
           NEW t, Keyed(u, c, t), t.at = "posted", t.call = "HANDSHAKE"
    PROVE  Local(Responder, t) /\ Onward(Responder, t) /\ Kept(u, t)
<1> DEFINE e == Responder
<1>1. /\ u \in States /\ Control(e, u) /\ Typed(e, u) /\ ResponderOK(u) /\ e \in Endpoints
  BY DEF Local, Typed, Endpoints
<1>2. Alive(u) /\ u.at = "handshake" /\ ~u.crypto.ready /\ ~u.loop_error /\ u.counter = 0
      /\ ~u.encrypted /\ u.message = 0 /\ u.peer \in Initiators
  <2>1. u.at = "handshake" /\ u.loops /\ u.peer \in Endpoints
    BY DEF Shakes, Genuine, Datagrams
  <2> QED
    BY <1>1, <2>1, ConnectionAssumption DEF Alive, ResponderOK, Control, Endpoints
<1>3. Stored(t) = Stored(u)
  BY DEF Keyed, Stored
<1>4. Typed(e, t)
  BY <1>1, <1>2, <1>3 DEF Keyed, Typed
<1>5. Control(e, t)
  <2>1. Increasing(t.ready)
    BY <1>1 DEF Control, Keyed
  <2>2. c.handle = c.own /\ c.own \in Pairs
    BY <1>1, <1>2 DEF Control, Shaking
  <2> QED
    BY <1>1, <1>2, <2>1, <2>2 DEF Control, Keyed, Shaking, Posting, Writing, Ended
<1>6. ResponderOK(t)
  <2>1. c.own \in Pairs
    BY <1>1, <1>2 DEF Control, Shaking
  <2>2. u.peer # NoPeer
    BY <1>2, ConnectionAssumption
  <2> QED
    BY <1>1, <1>2, <2>1, <2>2 DEF ResponderOK, Keyed, Posting, Writing, Asked
<1>8. Local(e, t)
  BY <1>4, <1>5, <1>6, LocalParts
<1>9. Onward(e, u)
  BY <1>1, NearOnward
<1>10. Ahead(e, ep[e], t)
  BY <1>2, <1>9 DEF Near, Onward, Ahead, Keyed, Posting
<1>11. Matches(e, t)
  <2>1. p.from = u.peer /\ Tells(ep[u.peer], p) /\ ~ep[u.peer].encrypted
    BY <1>2 DEF Shakes, Inv, KeysMatch, Near
  <2>2. ep[u.peer].at # "start" /\ ep[u.peer].crypto.own = p.body
    BY <1>2, <2>1 DEF Tells
  <2> QED
    BY <1>2, <2>2, ConnectionAssumption DEF Matches, Keyed, Asked, Writing
<1>12. Hands(u, t)
  BY <1>2, HandsSame DEF Keyed, Ended
<1> QED
  BY <1>3, <1>8, <1>10, <1>11, <1>12 DEF Onward, Kept, Keyed

\* The initiator has its key, and its application announces the transfer.
LEMMA InitiatorAgrees ==
    ASSUME Inv, NEW e \in Endpoints, e # Responder, NEW u, Local(e, u), Near(e, ep[e], u),
           Stored(u) \subseteq Stored(ep[e]),
           ep[e].at # "start", NEW p, Shakes(e, u, p), p.type = "HANDSHAKE",
           NEW c \in Contexts, c.own = u.crypto.own, c.handle = u.crypto.handle,
           c.ready, c.key # NoKey, c.key = Derive(u.crypto.own, u.crypto.own, p.body),
           NEW t, t = Send(StartChunks(e, Agreed(u, c)), u.message + 1)
    PROVE  Local(e, t) /\ Onward(e, t) /\ Kept(u, t)
<1> DEFINE s == ep[e]
           r == ep[Responder]
           w == Begun(Agreed(u, c))
           v == StartChunks(e, Agreed(u, c))
           K == DataOf(Elements(u.queue))
<1>1. u \in States /\ Control(e, u) /\ Typed(e, u) /\ InitiatorOK(u) /\ e \in Initiators
  BY DEF Local, Typed, Endpoints
<1>2. ~u.encrypted /\ u.loops /\ ~u.loop_error /\ u.message = 0 /\ u.counter = 1
      /\ (u.at = "handshake" \/ Writing(u, "HANDSHAKE")) /\ u.peer = Responder
  <2>1. ~u.encrypted /\ u.loops /\ ~u.loop_error
        /\ (u.at = "handshake" \/ Writing(u, "HANDSHAKE"))
    BY <1>1 DEF Shakes, Control
  <2> QED
    BY <1>1, <2>1 DEF InitiatorOK, Shaking, Writing
<1>3. p.from = Responder /\ p.seq = 0 /\ 0 \in u.received /\ Tells(r, p)
  BY <1>1, <1>2 DEF Shakes, Genuine
<1>4. /\ r.crypto.own = p.body /\ r.crypto.ready /\ r.peer = e /\ ~Posting(r, "HANDSHAKE")
  BY <1>3 DEF Tells, Shakes
<1>5. r.crypto.key = c.key
  <2>1. s.crypto.own = u.crypto.own /\ ~s.encrypted
    BY <1>2 DEF Near
  <2>2. r.crypto.key = Derive(p.body, p.body, u.crypto.own)
    BY <1>1, <1>4, <2>1 DEF Inv, KeysMatch
  <2>3. p.body \in Pairs /\ u.crypto.own \in Pairs
    BY <1>1, <1>2 DEF Shakes, Genuine, Control, Shaking, Writing
  <2>4. p.body \in Nat /\ u.crypto.own \in Nat
    BY <2>3, ConnectionAssumption
  <2> QED
    BY <2>2, <2>4, KeysAgree
<1>6. /\ w \in States
      /\ w.crypto = c /\ w.encrypted /\ w.running /\ w.queue = << >> /\ w.buffer = {}
      /\ w.ready = u.ready /\ w.at = u.at /\ w.call = u.call /\ w.message = u.message
      /\ w.counter = u.counter /\ w.in_flight = u.in_flight /\ w.peer = u.peer
      /\ w.loop_error = u.loop_error
      /\ w.handed = u.handed
  BY <1>1, BegunFields
<1> HIDE DEF w, v
<1>7. Local(e, v) /\ Moves(e, w, v, K)
  BY <1>1, <1>2, <1>3, StartChunksKeeps DEF v, w
<1>8. /\ v.crypto = c /\ v.encrypted /\ v.queue = << >> /\ v.at = u.at /\ v.call = u.call
      /\ v.message = 0 /\ v.counter = 1 /\ v.in_flight = u.in_flight /\ v.peer = u.peer
      /\ v.loop_error = u.loop_error
  <2>1. w.at # "receiving"
    BY <1>2, <1>6 DEF Writing
  <2> QED
    BY <1>2, <1>6, <1>7, <2>1 DEF Moves, Framed
<1>9. Stored(v) \subseteq Stored(u)
  <2>1. Held(v) \subseteq Stored(u)
    BY <1>6, <1>7 DEF Moves, Held, Stored, K, DataOf
  <2> QED
    BY <1>8, <2>1, EmptyElements DEF Stored, Held
<1>10. t = Send(v, 1)
  BY <1>2 DEF v
<1>11. v.at \notin Ended \union {"start"}
  BY <1>2, <1>8 DEF Ended, Writing
<1>12. 1 \in 1 .. LastMessage
  <2>1. LastMessage \in Nat /\ LastMessage >= 1
    BY ConnectionAssumption DEF LastMessage, Announcement
  <2> QED
    BY <2>1
<1>13. Local(e, t)
  BY <1>7, <1>8, <1>10, <1>11, <1>12, SendLocal
<1>14. Posted(v, 1, t)
  <2>1. v \in States
    BY <1>7 DEF Local, Typed
  <2> QED
    BY <1>10, <2>1, SendFields
<1>15. Ahead(e, s, t)
  <2>1. s.counter = 1 /\ s.message = 0 /\ ~s.encrypted
    BY <1>2 DEF Near
  <2>2. t.counter = 1 /\ t.message = 1 /\ t.encrypted /\ t.at # "start"
    BY <1>8, <1>14 DEF Posted
  <2> QED
    BY <2>1, <2>2 DEF Ahead
<1>16. Matches(e, t)
  <2>1. t.crypto = c /\ t.message = 1
    BY <1>8, <1>14 DEF Posted
  <2> QED
    BY <1>4, <1>5, <2>1 DEF Matches, Announcement
<1>17. Kept(u, t)
  <2>1. u.at \notin Ended
    BY <1>2 DEF Ended, Writing
  <2>2. Hands(u, v)
    BY <1>6, <1>7, <1>8, <2>1, EmptyElements DEF Hands, Moves, Held
  <2>3. Hands(v, t)
    BY <1>11, <1>14, HandsSame DEF Posted
  <2>4. Hands(u, t)
    BY <2>2, <2>3, HandsOn
  <2> QED
    BY <1>8, <1>9, <1>14, <2>4 DEF Kept, Posted, Stored
<1> QED
  BY <1>13, <1>15, <1>16, <1>17 DEF Onward

LEMMA TakeHandshakeKeeps ==
    ASSUME Inv, NEW e \in Endpoints, NEW u, Local(e, u), Near(e, ep[e], u),
           e # Responder => Stored(u) \subseteq Stored(ep[e]),
           ep[e].at # "start", NEW p, Shakes(e, u, p), NEW t \in TakeHandshake(e, u, p)
    PROVE  Local(e, t) /\ Onward(e, t) /\ Kept(u, t)
<1>1. u \in States /\ Control(e, u)
  BY DEF Local, Typed
<1>2. CASE ~IsKey(p)
  <2>1. t = Fail(u)
    BY <1>2 DEF TakeHandshake
  <2>2. u.at # "start" /\ Onward(e, u) /\ ep[e] \in States
    BY NearOnward, LocalOf DEF Near
  <2>3. Down(u, t)
    BY <2>1, <2>2, GotoDown DEF Fail
  <2>4. Local(e, t) /\ Onward(e, t)
    BY <2>2, <2>3, OnwardDown
  <2>5. /\ t.buffer = u.buffer /\ t.ready = u.ready /\ t.handed = u.handed
        /\ t.queue = u.queue /\ t.at = "failed" /\ t.in_flight = u.in_flight
    BY <1>1, <2>1 DEF Fail, Goto, States
  <2>6. Kept(u, t)
    BY <2>5, HandsSame DEF Kept, Stored, Ended
  <2> QED
    BY <2>4, <2>6
<1>3. CASE IsKey(p)
  <2> DEFINE keyed(o) == [u EXCEPT !.crypto = o.context]
  <2>1. PICK o \in set_peer_public_key(u.crypto, p.body) :
           t = IF ~o.ok THEN Fail(keyed(o))
               ELSE IF e = Responder
                    THEN [keyed(o) EXCEPT !.at = "posted", !.call = "HANDSHAKE"]
                    ELSE Send(StartChunks(e, [keyed(o) EXCEPT !.encrypted = TRUE]),
                              u.message + 1)
    BY <1>3 DEF TakeHandshake
  <2>2. p.type = "HANDSHAKE" /\ p.body \in Pairs
    BY <1>3 DEF IsKey, Shakes, Genuine
  <2>3. u.crypto \in Contexts /\ u.crypto.handle = u.crypto.own /\ u.crypto.own \in Pairs
    BY <1>1 DEF States, Control, Shaking, Shakes, Writing
  <2>4. /\ o.context \in Contexts
        /\ o.context.handle = u.crypto.handle /\ o.context.own = u.crypto.own
        /\ o.ok => /\ o.context.ready /\ o.context.key # NoKey
                   /\ o.context.key = Derive(u.crypto.own, u.crypto.own, p.body)
        /\ ~o.ok => o.context.ready = u.crypto.ready /\ o.context.key = u.crypto.key
    BY <2>1, <2>2, <2>3, PeerKeyOutcome
  <2>5. "failed" \in AtStates /\ "posted" \in AtStates
    BY DEF AtStates
  <2>6. CASE ~o.ok
    <3>1. t = [u EXCEPT !.crypto = o.context, !.at = "failed"]
      BY <2>1, <2>6 DEF Fail, Goto
    <3>2. Keyed(u, o.context, t) /\ t.at = "failed"
      BY <1>1, <2>4, <2>5, <3>1 DEF Keyed, States
    <3> QED
      BY <2>2, <2>4, <2>6, <3>2, KeyRefused
  <2>7. CASE o.ok /\ e = Responder
    <3>1. t = [u EXCEPT !.crypto = o.context, !.at = "posted", !.call = "HANDSHAKE"]
      BY <2>1, <2>7
    <3>2. Keyed(u, o.context, t) /\ t.at = "posted" /\ t.call = "HANDSHAKE"
      BY <1>1, <2>4, <2>5, <3>1 DEF Keyed, States
    <3> QED
      BY <2>2, <2>4, <2>7, <3>2, ResponderAgrees
  <2>8. CASE o.ok /\ e # Responder
    <3>1. t = Send(StartChunks(e, Agreed(u, o.context)), u.message + 1)
      BY <2>1, <2>8 DEF Agreed
    <3> QED
      BY <2>2, <2>4, <2>8, <3>1, InitiatorAgrees
  <2> QED
    BY <2>6, <2>7, <2>8
<1> QED
  BY <1>2, <1>3

LEMMA QueueTail ==
    ASSUME NEW seq \in Seq(Datagrams), seq # << >>
    PROVE  /\ Tail(seq) \in Seq(Datagrams) /\ Head(seq) \in Elements(seq)
           /\ Elements(Tail(seq)) \subseteq Elements(seq)
<1>1. /\ Len(seq) \in Nat /\ Len(seq) > 0 /\ DOMAIN seq = 1 .. Len(seq)
      /\ Tail(seq) \in Seq(Datagrams) /\ Head(seq) = seq[1]
      /\ DOMAIN Tail(seq) = 1 .. Len(seq) - 1
      /\ \A i \in 1 .. Len(seq) - 1 : Tail(seq)[i] = seq[i + 1]
  OBVIOUS
<1>2. \A i \in 1 .. Len(seq) - 1 : i + 1 \in 1 .. Len(seq)
  BY <1>1
<1> QED
  BY <1>1, <1>2 DEF Elements

LEMMA HandshakeKeeps == ASSUME Inv, NEW e \in Endpoints, handshake_initiator(e) PROVE Preserved
<1> DEFINE s == ep[e]
<1>1. e # Responder /\ s.at = "writing" /\ s.call = "HANDSHAKE" /\ UNCHANGED <<net, drawn>>
  BY DEF handshake_initiator
<1>2. s \in States /\ Local(e, s) /\ Typed(e, s) /\ Control(e, s) /\ InitiatorOK(s)
  BY <1>1, LocalOf
<1>3. CASE Become(e, Fail(s))
  <2>1. Down(s, Fail(s))
    BY <1>1, <1>2, GotoDown DEF Fail
  <2>2. Good(e, Fail(s), {})
    BY <1>1, <2>1, DownGood
  <2> QED
    BY <1>1, <1>3, <2>2, BecomeKeeps
<1>4. CASE ~s.loop_error /\ Become(e, Goto(s, "handshake"))
  <2> DEFINE t == Goto(s, "handshake")
  <2>0. "handshake" \in AtStates
    BY DEF AtStates
  <2>1. /\ t \in States
        /\ t.at = "handshake" /\ t.call = s.call /\ t.message = s.message
        /\ t.crypto = s.crypto /\ t.encrypted = s.encrypted /\ t.counter = s.counter
        /\ t.in_flight = s.in_flight /\ t.received = s.received /\ t.queue = s.queue
        /\ t.buffer = s.buffer /\ t.expected = s.expected /\ t.ready = s.ready
        /\ t.peer = s.peer /\ t.loops = s.loops /\ t.loop_error = s.loop_error
        /\ t.running = s.running
        /\ t.handed = s.handed
    BY <1>2, <2>0 DEF States, Goto
  <2> HIDE DEF t
  <2>2. Stored(t) = Stored(s) /\ Alive(s)
    BY <1>1, <2>1 DEF Stored, Alive, Ended
  <2>3. Typed(e, t)
    BY <1>2, <2>1, <2>2 DEF Typed
  <2>4. Control(e, t)
    <3>1. Increasing(t.ready)
      BY <1>2, <2>1 DEF Control
    <3> QED
      BY <1>1, <1>2, <2>1, <3>1 DEF Control, Shaking, Posting, Writing, Ended
  <2>5. InitiatorOK(t)
    BY <1>1, <1>2, <2>1, <2>2 DEF InitiatorOK, Shaking, Posting, Writing
  <2>6. Local(e, t)
    BY <1>1, <2>3, <2>4, <2>5, LocalParts
  <2>7. Onward(e, t)
    <3>1. s.counter \in Nat /\ s.message \in Nat
      BY <1>2 DEF States
    <3>2. Ahead(e, s, t)
      BY <1>1, <2>1, <3>1 DEF Ahead
    <3>3. Matches(e, t)
      BY <1>1, <2>1 DEF Matches
    <3> QED
      BY <3>2, <3>3 DEF Onward
  <2>8. Kept(s, t)
    <3>1. Hands(s, t)
      BY <1>1, <2>1, HandsSame DEF Ended
    <3> QED
      BY <2>1, <2>2, <3>1 DEF Kept
  <2> QED
    BY <1>1, <1>4, <2>6, <2>7, <2>8, QuietKeeps DEF t
<1>5. ASSUME ~s.loop_error, s.queue # << >>,
             NEW t \in TakeHandshake(e, [s EXCEPT !.queue = Tail(@)], Head(s.queue)),
             Become(e, t)
      PROVE  Preserved
  <2> DEFINE u == [s EXCEPT !.queue = Tail(@)]
             p == Head(s.queue)
  <2>1. s.queue \in Seq(Datagrams)
    BY <1>2 DEF States
  <2>2. Tail(s.queue) \in Seq(Datagrams) /\ p \in Elements(s.queue)
        /\ Elements(Tail(s.queue)) \subseteq Elements(s.queue)
    BY <1>5, <2>1, QueueTail
  <2>3. /\ u \in States
        /\ u.at = s.at /\ u.call = s.call /\ u.message = s.message
        /\ u.crypto = s.crypto /\ u.encrypted = s.encrypted /\ u.counter = s.counter
        /\ u.in_flight = s.in_flight /\ u.received = s.received /\ u.queue = Tail(s.queue)
        /\ u.buffer = s.buffer /\ u.expected = s.expected /\ u.ready = s.ready
        /\ u.peer = s.peer /\ u.loops = s.loops /\ u.loop_error = s.loop_error
        /\ u.running = s.running
        /\ u.handed = s.handed
    BY <1>2, <2>2 DEF States
  <2>4. t \in TakeHandshake(e, u, p)
    BY <1>5
  <2> HIDE DEF u, p
  <2>5. Stored(u) \subseteq Stored(s) /\ Alive(s) /\ s.loops
    BY <1>1, <1>2, <1>5, <2>2, <2>3 DEF Stored, Alive, Ended, Control
  <2>6. Local(e, u)
    <3>1. Typed(e, u)
      BY <1>2, <2>2, <2>3, <2>5 DEF Typed
    <3>2. Control(e, u)
      <4>1. Increasing(u.ready)
        BY <1>2, <2>3 DEF Control
      <4> QED
        BY <1>1, <1>2, <2>3, <4>1 DEF Control, Shaking, Posting, Writing, Ended
    <3>3. InitiatorOK(u)
      BY <1>1, <1>2, <2>2, <2>3, <2>5 DEF InitiatorOK, Shaking, Posting, Writing
    <3> QED
      BY <1>1, <3>1, <3>2, <3>3, LocalParts
  <2>7. Near(e, s, u)
    BY <2>3 DEF Near
  <2>8. Shakes(e, u, p)
    <3>1. Genuine(p) /\ p.to = e /\ p.from = s.peer /\ p.seq \in s.received /\ p \in Stored(s)
      BY <1>2, <2>2, <2>5 DEF Typed, Stored
    <3>2. Tells(ep[p.from], p)
      BY <3>1, Told
    <3>3. u.encrypted => p.type # "HANDSHAKE"
      BY <1>2, <2>2, <2>3, <3>1 DEF InitiatorOK, Genuine
    <3> QED
      BY <1>1, <2>3, <2>5, <3>1, <3>2, <3>3 DEF Shakes, Writing
  <2>9. Local(e, t) /\ Onward(e, t) /\ Kept(u, t)
    BY <1>1, <2>4, <2>5, <2>6, <2>7, <2>8, TakeHandshakeKeeps
  <2>10. Hands(s, u)
    BY <1>1, <2>2, <2>3 DEF Hands, Held, Ended
  <2>11. Kept(s, t)
    BY <2>3, <2>5, <2>9, <2>10, HandsOn DEF Kept
  <2> QED
    BY <1>1, <1>5, <2>9, <2>11, QuietKeeps
<1> QED
  BY <1>3, <1>4, <1>5 DEF handshake_initiator

-----------------------------------------------------------------------------
(* receive_loop *)

\* s has heard of its peer; received is what received_packets_ holds then.
Hears(s, from, received, u) ==
    /\ u \in States
    /\ u.at = s.at /\ u.call = s.call /\ u.message = s.message
    /\ u.crypto = s.crypto /\ u.encrypted = s.encrypted /\ u.counter = s.counter
    /\ u.in_flight \subseteq s.in_flight /\ u.received = received /\ u.queue = s.queue
    /\ u.buffer = s.buffer /\ u.expected = s.expected /\ u.ready = s.ready
    /\ u.peer = from /\ u.loops = s.loops /\ u.loop_error = s.loop_error
    /\ u.running = s.running
    /\ u.handed = s.handed

LEMMA HearsLocal ==
    ASSUME Inv, NEW e \in Endpoints, ep[e].loops, NEW p, Genuine(p), p.to = e,
           Accepted(ep[e], p.from), NEW received \in SUBSET Nat,
           ep[e].received \subseteq received, NEW u, Hears(ep[e], p.from, received, u)
    PROVE  /\ Local(e, u) /\ Near(e, ep[e], u) /\ Onward(e, u)
           /\ Hands(ep[e], u) /\ Clean(e, u)
<1> DEFINE s == ep[e]
<1>1. /\ s \in States /\ Local(e, s) /\ Typed(e, s) /\ Control(e, s) /\ s.at # "start"
      /\ e = Responder => ResponderOK(s)
      /\ e # Responder => InitiatorOK(s)
  BY LocalOf, LoopsAwake
<1>2. s.peer = p.from \/ s.peer = NoPeer
  BY DEF Accepted
<1>3. p.from \in Endpoints /\ (e = Responder => p.from \in Initiators)
  BY ConnectionAssumption DEF Genuine, Datagrams, Endpoints
<1>4. Stored(u) = Stored(s) /\ Alive(s)
  BY DEF Stored, Hears, Alive
<1>5. s.peer = NoPeer => Stored(s) = {}
  BY <1>1, ConnectionAssumption DEF Typed, Genuine, Datagrams, Endpoints
<1>6. Typed(e, u)
  BY <1>1, <1>2, <1>4, <1>5 DEF Typed, Hears
<1>7. Control(e, u)
  <2>1. Increasing(u.ready)
    BY <1>1 DEF Control, Hears
  <2> QED
    BY <1>1, <2>1 DEF Control, Hears, Shaking, Posting, Writing, Ended
<1>8. ASSUME e = Responder PROVE ResponderOK(u)
  <2>1. p.from # NoPeer /\ p.from \in Initiators
    BY <1>3, <1>8, ConnectionAssumption
  <2> QED
    BY <1>1, <1>8, <2>1 DEF ResponderOK, Hears, Posting, Writing, Asked
<1>9. ASSUME e # Responder PROVE InitiatorOK(u)
  <2>1. p.from = Responder
    BY <1>1, <1>2, <1>9, ConnectionAssumption DEF InitiatorOK
  <2> QED
    BY <1>1, <1>4, <1>9, <2>1 DEF InitiatorOK, Hears, Posting, Writing, Shaking
<1>10. Local(e, u)
  BY <1>6, <1>7, <1>8, <1>9, LocalParts
<1>11. Near(e, s, u)
  BY <1>2 DEF Near, Hears
<1>12. Onward(e, u)
  BY <1>1, <1>11, NearOnward
<1>13. Hands(s, u)
  BY HandsSame DEF Hears
<1>14. Clean(e, u)
  BY <1>13, HandsPlain DEF Clean
<1> QED
  BY <1>10, <1>11, <1>12, <1>13, <1>14

\* The acknowledgement goes to the peer.
LEMMA AckGenuine ==
    ASSUME NEW e \in Endpoints, NEW u, Local(e, u), u.peer # NoPeer, NEW p, Genuine(p),
           p.to = e, NEW q \in Acknowledge(u, p)
    PROVE  Genuine(q) /\ q.from = e /\ q.type = "ACK"
<1>1. q = Datagram(e, u.peer, "ACK", p.seq, 0, NoKey, "junk")
  BY DEF Acknowledge
<1>2. q.from = e /\ q.to = u.peer /\ q.type = "ACK"
  BY <1>1 DEF Datagram
<1>3. u.peer \in Endpoints /\ p.seq \in Nat
  BY DEF Local, Typed, States, Genuine, Datagrams
<1>4. q \in Datagrams
  BY <1>1, <1>3 DEF Datagram, Datagrams
<1>5. (e = Responder => u.peer \in Initiators) /\ (e # Responder => u.peer = Responder)
  BY DEF Local, ResponderOK, InitiatorOK
<1> QED
  BY <1>2, <1>4, <1>5, ConnectionAssumption DEF Genuine

\* A step of receive_loop: e becomes t, keeps at most the packet p, and acknowledges it.
LEMMA HeardKeeps ==
    ASSUME Inv, NEW e \in Endpoints, NEW p \in net, NEW t, Become(e, t), UNCHANGED drawn,
           Local(e, t), Onward(e, t), Clean(e, t), t.in_flight \subseteq ep[e].in_flight,
           \A q \in Stored(t) : q \in Stored(ep[e]) \/ Copy(q, p),
           NEW acks, net' \subseteq net \union acks,
           \A q \in acks : Genuine(q) /\ q.from = e /\ q.type = "ACK"
    PROVE  Preserved
<1>1. \A q \in acks : Tells(t, q)
  BY DEF Tells
<1>2. p \in Sent
  BY DEF Sent
<1>3. Sends(e, t, acks)
  BY <1>1, <1>2 DEF Sends
<1>4. Good(e, t, acks)
  BY <1>3 DEF Good, Onward
<1> QED
  BY <1>4, BecomeKeeps

\* Data for an endpoint that does not yet decrypt it: it is the responder, and its key is
\* still in async_send_to.
LEMMA CiphertextUnexpected ==
    ASSUME Inv, NEW e \in Endpoints, ep[e].loops, ~ep[e].encrypted, ep[e].at \notin Ended,
           NEW p, Genuine(p), Tells(ep[p.from], p), p.to = e, p.type = "DATA"
    PROVE  ep[e].at = "writing"
<1> DEFINE s == ep[e]
<1>1. Control(e, s) /\ s \in States /\ s.at # "start"
  BY LocalOf, LoopsAwake
<1>2. p.from \in Endpoints /\ ep[p.from].encrypted
  BY DEF Genuine, Datagrams, Tells
<1>3. CASE e = Responder
  <2>1. p.from \in Initiators
    BY <1>2, <1>3 DEF Genuine, Endpoints
  <2>2. s.crypto.ready /\ ~Posting(s, "HANDSHAKE")
    BY <1>2, <1>3, <2>1 DEF Inv, KeysMatch
  <2>3. s.at # "handshake"
    BY <1>3, <2>2, LocalOf DEF ResponderOK
  <2> QED
    BY <1>1, <2>2, <2>3 DEF Control, Posting, States, AtStates, Ended
<1>4. CASE e # Responder
  <2>1. e \in Initiators /\ p.from = Responder
    BY <1>2, <1>4 DEF Genuine, Endpoints
  <2>2. ep[Responder].peer = e /\ ep[Responder].message = p.body /\ p.body # 0
    BY <2>1 DEF Tells, Genuine, CONFIRM, CONFIRM_FAILED
  <2> QED
    BY <2>1, <2>2 DEF Inv, KeysMatch, Asked
<1> QED
  BY <1>3, <1>4

\* A new packet reaches whoever waits for it.
LEMMA PushKeeps ==
    ASSUME Inv, NEW e \in Endpoints, ep[e].loops, NEW p \in net, p.to = e,
           Accepted(ep[e], p.from), p.type \in {"DATA", "HANDSHAKE"},
           p.seq \notin ep[e].received,
           NEW u, Hears(ep[e], p.from, ep[e].received \union {p.seq}, u),
           NEW q \in Datagrams, Copy(q, p), q.type = "DATA" /\ u.encrypted => q.key = NoKey,
           NEW t \in Push(e, u, q)
    PROVE  /\ Local(e, t) /\ Onward(e, t) /\ Clean(e, t) /\ t.in_flight = u.in_flight
           /\ \A x \in Stored(t) : x \in Stored(u) \/ x = q
<1> DEFINE s == ep[e]
<1>1. /\ s \in States /\ Local(e, s) /\ Typed(e, s) /\ Control(e, s) /\ s.at # "start"
      /\ e = Responder => ResponderOK(s)
      /\ e # Responder => InitiatorOK(s)
  BY LocalOf, LoopsAwake
<1>2. Genuine(p) /\ Tells(ep[p.from], p)
  BY DEF Inv, Traffic, Sent
<1>3. Genuine(q) /\ Tells(ep[q.from], q)
  BY <1>2, CopyGenuine, CopyTells DEF Copy
<1>4. s.received \union {p.seq} \in SUBSET Nat
  BY <1>1, <1>2 DEF States, Genuine, Datagrams
<1>5. Local(e, u) /\ Near(e, s, u) /\ Onward(e, u) /\ Hands(s, u)
  BY <1>2, <1>4, HearsLocal
<1>6. u \in States /\ q.to = e /\ q.from = u.peer /\ q.seq \in u.received
  BY DEF Hears, Copy
<1>7. Stored(u) = Stored(s) /\ Alive(s) /\ u.loops = s.loops
  BY DEF Stored, Hears, Alive
<1>8. e # Responder /\ u.encrypted => q.seq # 0
  BY <1>1, <1>7 DEF InitiatorOK, Hears, Copy
<1>9. CASE u.at = "handshake"
  <2>1. t \in TakeHandshake(e, u, q)
    BY <1>9 DEF Push
  <2>2. e # Responder /\ u.encrypted => q.type # "HANDSHAKE"
    <3>1. e # Responder => q.from = Responder
      BY <1>5, <1>6 DEF Local, InitiatorOK
    <3> QED
      BY <1>3, <1>8, <3>1 DEF Genuine
  <2>3. Shakes(e, u, q)
    BY <1>3, <1>6, <1>7, <1>9, <2>2 DEF Shakes
  <2>4. Local(e, t) /\ Onward(e, t) /\ Kept(u, t)
    BY <1>1, <1>5, <1>7, <2>1, <2>3, TakeHandshakeKeeps
  <2>5. Clean(e, t)
    BY <1>5, <2>4, HandsOn, HandsPlain DEF Clean, Kept
  <2> QED
    BY <2>4, <2>5 DEF Kept
<1>10. CASE u.at # "handshake" /\ u.running
  <2>1. t = Chunk(e, u, q)
    BY <1>10 DEF Push
  <2>2. u.encrypted
    BY <1>5, <1>10 DEF Local, Control
  <2>3. Local(e, t) /\ Moves(e, u, t, DataOf({q}))
    BY <1>3, <1>5, <1>6, <2>1, <2>2, ChunkKeeps DEF Acceptable
  <2>4. \A x \in Held(u) \union DataOf({q}) : Tells(ep[x.from], x) /\ x.from = u.peer
    <3>1. \A x \in Stored(u) : Tells(ep[x.from], x) /\ x.from = u.peer
      BY <1>5, <1>7, Told DEF Local, Typed
    <3> QED
      BY <1>3, <1>6, <3>1 DEF Held, Stored, DataOf
  <2>5. Onward(e, t)
    BY <1>1, <1>5, <2>3, <2>4, OnwardMoves
  <2>6. t.in_flight = u.in_flight /\ \A x \in Stored(t) : x \in Stored(u) \/ x = q
    BY <2>3 DEF Moves, Framed, Stored, Held, DataOf
  <2>7. ASSUME Plain(u) PROVE Plain(t)
    <3>1. \A x \in Held(u) \union Elements(u.handed) \union DataOf({q}) : x.key = NoKey
      BY <2>2, <2>7 DEF Plain, Held, DataOf
    <3>2. t.queue = u.queue /\ (t.at \notin Ended => u.at \notin Ended)
      BY <2>3 DEF Moves, Framed, Ended
    <3> QED
      BY <2>3, <2>7, <3>1, <3>2 DEF Plain, Held, Moves
  <2>8. Clean(e, t)
    BY <1>5, <2>7, HandsPlain DEF Clean
  <2> QED
    BY <2>3, <2>5, <2>6, <2>8
<1>11. CASE u.at # "handshake" /\ ~u.running
  <2>1. t = [u EXCEPT !.queue = Append(u.queue, q)]
    BY <1>11 DEF Push
  <2>2. Append(u.queue, q) \in Seq(Datagrams)
        /\ Elements(Append(u.queue, q)) = Elements(u.queue) \union {q}
    BY <1>6, AppendElements DEF States
  <2>3. /\ t \in States
        /\ t.at = u.at /\ t.call = u.call /\ t.message = u.message
        /\ t.crypto = u.crypto /\ t.encrypted = u.encrypted /\ t.counter = u.counter
        /\ t.in_flight = u.in_flight /\ t.received = u.received
        /\ t.queue = Append(u.queue, q) /\ t.buffer = u.buffer
        /\ t.expected = u.expected /\ t.ready = u.ready /\ t.peer = u.peer
        /\ t.loops = u.loops /\ t.loop_error = u.loop_error /\ t.running = u.running
        /\ t.handed = u.handed
    BY <1>6, <2>1, <2>2 DEF States
  <2> HIDE DEF s
  <2>4. Stored(t) = Stored(u) \union {q} /\ Elements(t.queue) = Elements(u.queue) \union {q}
    BY <2>2, <2>3 DEF Stored
  <2>5. Typed(e, t)
    <3>1. Alive(u) /\ Typed(e, u)
      BY <1>5, <1>7 DEF Alive, Local, s
    <3> QED
      BY <1>3, <1>6, <2>3, <2>4, <3>1 DEF Typed
  <2>6. Control(e, t)
    <3>1. Control(e, u) /\ u.at # "start"
      BY <1>1, <1>5 DEF Local, Near
    <3>2. Increasing(t.ready)
      BY <2>3, <3>1 DEF Control
    <3> QED
      BY <2>3, <3>1, <3>2 DEF Control, Shaking, Posting, Writing, Ended
  <2>7. ASSUME e = Responder PROVE ResponderOK(t)
    <3>1. ResponderOK(u)
      BY <1>5, <2>7 DEF Local
    <3> QED
      BY <2>3, <3>1 DEF ResponderOK, Posting, Writing, Asked
  <2>8. ASSUME e # Responder PROVE InitiatorOK(t)
    <3>1. InitiatorOK(u) /\ Alive(u)
      BY <1>5, <1>7, <2>8 DEF Local, Alive, s
    <3> QED
      BY <1>8, <2>3, <2>4, <2>8, <3>1 DEF InitiatorOK, Posting, Writing, Shaking
  <2>9. Local(e, t)
    BY <2>5, <2>6, <2>7, <2>8, LocalParts
  <2>10. Onward(e, t)
    BY <1>5, <2>3 DEF Onward, Ahead, Matches, Posting, Writing, Asked
  <2>11. ASSUME q.type = "DATA", t.at \notin Ended, t.at = "writing" => FALSE
         PROVE  q.key = NoKey
    BY <1>1, <1>2, <2>3, <2>11, CiphertextUnexpected DEF Hears, Copy, s
  <2>12. Clean(e, t)
    <3> SUFFICES ASSUME Plain(s), s.at = "writing" => t.at # "writing" \/ t = s
                 PROVE  Plain(t)
      BY DEF Clean, s
    <3>1. Plain(u) /\ u.at = s.at
      BY <1>5, HandsPlain DEF Hears, s
    <3>2. t # s
      BY <2>3 DEF Hears, s
    <3>3. t.at # "writing"
      BY <2>3, <3>1, <3>2
    <3> QED
      BY <2>3, <2>4, <2>11, <3>1, <3>3 DEF Plain
  <2> QED
    BY <2>3, <2>4, <2>9, <2>10, <2>12
<1> QED
  BY <1>9, <1>10, <1>11

LEMMA ReceiveLoopKeeps ==
    ASSUME Inv, NEW p \in net, NEW again, receive_loop(p, again) PROVE Preserved
<1> DEFINE e == p.to
           h == [ep[e] EXCEPT !.silent = FALSE, !.peer = IF @ = NoPeer THEN p.from ELSE @]
           seen == [h EXCEPT !.received = @ \union {p.seq}]
           rest == IF again THEN net ELSE net \ {p}
           packet == p.type \in {"DATA", "HANDSHAKE"} /\ Accepted(ep[e], p.from)
           s == ep[e]
<1>1. Genuine(p) /\ p \in Datagrams /\ e \in Endpoints
  BY DEF Inv, Traffic, Sent, Genuine, Datagrams
<1>2. s.loops /\ UNCHANGED drawn /\ rest \subseteq net
  BY DEF receive_loop, Awake
<1>3. CASE ep' = ep /\ net' = rest
  BY <1>2, <1>3, NetworkKeeps DEF Sent
<1>4. ASSUME Accepted(s, p.from), ep' # ep \/ net' # rest
      PROVE  Preserved
  <2>1. s \in States
    BY <1>1, LocalOf
  <2>2. p.from \in Endpoints /\ p.from # NoPeer /\ p.seq \in Nat
    BY <1>1, ConnectionAssumption DEF Datagrams, Endpoints
  <2>3. (IF s.peer = NoPeer THEN p.from ELSE s.peer) = p.from
    BY <1>4 DEF Accepted
  <2>4. h = [s EXCEPT !.silent = FALSE, !.peer = p.from]
    BY <2>1, <2>3 DEF States
  <2>5. Hears(s, p.from, s.received, h)
    BY <2>1, <2>2, <2>4 DEF Hears, States
  <2>6. seen = [s EXCEPT !.silent = FALSE, !.peer = p.from, !.received = s.received \union {p.seq}]
    BY <2>1, <2>4 DEF States
  <2>7. s.received \union {p.seq} \in SUBSET Nat /\ s.received \in SUBSET Nat
    BY <2>1, <2>2 DEF States
  <2>8. Hears(s, p.from, s.received \union {p.seq}, seen)
    BY <2>1, <2>2, <2>6, <2>7 DEF Hears, States
  <2> HIDE DEF h, seen
  <2>9. Local(e, h) /\ Onward(e, h) /\ Hands(s, h) /\ Clean(e, h)
    BY <1>1, <1>2, <1>4, <2>5, <2>7, HearsLocal
  <2>10. Stored(h) = Stored(s) /\ Stored(seen) = Stored(s)
    BY <2>5, <2>8 DEF Stored, Hears
  <2>11. \A q \in Acknowledge(h, p) : Genuine(q) /\ q.from = e /\ q.type = "ACK"
    <3>1. h.peer # NoPeer
      BY <2>2, <2>5 DEF Hears
    <3> QED
      BY <1>1, <2>9, <3>1, AckGenuine
  <2>12. CASE p.type = "ACK" /\ Become(e, [h EXCEPT !.in_flight = {q \in @ : q.seq # p.seq}])
              /\ net' = rest
    <3> DEFINE left == {q \in h.in_flight : q.seq # p.seq}
               t == [h EXCEPT !.in_flight = left]
    <3>0. Become(e, t)
      BY <2>12
    <3>1. left \subseteq h.in_flight /\ left \in SUBSET Datagrams
      BY <2>5 DEF Hears, States
    <3> HIDE DEF left
    <3>2. Hears(s, p.from, s.received, t)
      BY <2>5, <3>1 DEF Hears, States
    <3> HIDE DEF t
    <3>3. Local(e, t) /\ Onward(e, t) /\ Clean(e, t)
      BY <1>1, <1>2, <1>4, <2>7, <3>2, HearsLocal
    <3>4. Stored(t) = Stored(s) /\ t.in_flight \subseteq s.in_flight
      BY <3>2 DEF Hears, Stored
    <3> DEFINE acks == {}
    <3>5. net' \subseteq net \union acks /\ \A q \in acks : Genuine(q) /\ q.from = e /\ q.type = "ACK"
      BY <1>2, <2>12
    <3> HIDE DEF acks
    <3> QED
      BY <1>1, <1>2, <3>0, <3>3, <3>4, <3>5, HeardKeeps
  <2>13. CASE Become(e, h) /\ net' = rest \union Acknowledge(h, p)
    <3>1. h.in_flight \subseteq s.in_flight
      BY <2>5 DEF Hears
    <3> QED
      BY <1>1, <1>2, <2>9, <2>10, <2>11, <2>13, <3>1, HeardKeeps
  <2>14. CASE Become(e, StoreLoopError(h)) /\ net' = rest \union Acknowledge(h, p)
    <3> DEFINE t == StoreLoopError(h)
    <3>1. h.at # "start"
      BY <1>1, <1>2, <2>5, LoopsAwake DEF Hears
    <3>2. Down(h, t)
      BY <2>9, <3>1, StoreLoopErrorDown
    <3> HIDE DEF t
    <3>3. Local(e, t) /\ Onward(e, t)
      BY <1>1, <2>1, <2>9, <3>2, OnwardDown
    <3>4. Stored(t) = Stored(s) /\ t.in_flight \subseteq s.in_flight
      BY <2>5, <2>10, <3>2 DEF Hears, Stored, Down
    <3>5. Clean(e, t)
      <4>1. Hands(h, t)
        BY <3>2, HandsSame DEF Down
      <4> QED
        BY <2>9, <4>1, HandsOn, HandsPlain DEF Clean
    <3> QED
      BY <1>1, <1>2, <2>11, <2>14, <3>3, <3>4, <3>5, HeardKeeps DEF t
  <2>15. ASSUME packet, p.seq \notin h.received, NEW t \in Push(e, seen, Opened(h, p)),
                Become(e, t), net' = rest \union Acknowledge(h, p)
         PROVE  Preserved
    <3> DEFINE q == Opened(h, p)
    <3>1. q \in Datagrams /\ Copy(q, p)
      <4>1. CASE q = p
        BY <1>1, <4>1 DEF Copy
      <4>2. CASE q = [p EXCEPT !.key = NoKey]
        <5> HIDE DEF q
        <5> QED
          BY <1>1, <4>2 DEF Copy, Datagrams
      <4> QED
        BY <4>1, <4>2 DEF Opened
    <3> HIDE DEF q
    <3>2. p.seq \notin s.received
      BY <2>5, <2>15 DEF Hears
    <3>5. q.type = "DATA" /\ seen.encrypted => q.key = NoKey
      BY <2>5, <2>8 DEF q, Opened, Hears
    <3>3. /\ Local(e, t) /\ Onward(e, t) /\ Clean(e, t) /\ t.in_flight = seen.in_flight
          /\ \A x \in Stored(t) : x \in Stored(seen) \/ x = q
      BY <1>1, <1>2, <2>8, <2>15, <3>1, <3>2, <3>5, PushKeeps DEF q
    <3>4. t.in_flight \subseteq s.in_flight
      BY <2>8, <3>3 DEF Hears
    <3> QED
      BY <1>1, <1>2, <2>10, <2>11, <2>15, <3>1, <3>3, <3>4, HeardKeeps
  <2> QED
    BY <1>4, <2>12, <2>13, <2>14, <2>15 DEF receive_loop, h, seen
<1> QED
  BY <1>3, <1>4 DEF receive_loop

-----------------------------------------------------------------------------
(* The invariant *)

LEMMA InvInit == ASSUME Init PROVE Inv
<1>1. DOMAIN ep = Endpoints /\ drawn = {} /\ net = {}
      /\ \A e \in Endpoints : ep[e] = Fresh(IF e = Responder THEN NoPeer ELSE Responder)
  BY DEF Init
<1>2. \A peer \in Endpoints \union {NoPeer} : Fresh(peer) \in States
  <2>1. NoKey \in Keys
    BY DEF Keys
  <2>2. NewContext \in Contexts
    BY <2>1 DEF NewContext, Contexts, NoPair
  <2> QED
    BY <2>2 DEF Fresh, States, AtStates
<1>3. ASSUME NEW e \in Endpoints
      PROVE  Local(e, ep[e])
  <2> DEFINE s == ep[e]
             peer == IF e = Responder THEN NoPeer ELSE Responder
  <2>1. s = Fresh(peer) /\ peer \in Endpoints \union {NoPeer}
    BY <1>1 DEF Endpoints
  <2>2. /\ s \in States /\ s.at = "start" /\ s.call = "DATA" /\ s.message = 0
        /\ ~s.encrypted /\ s.counter = 0 /\ s.in_flight = {} /\ s.queue = << >>
        /\ s.buffer = {} /\ s.expected = 1 /\ s.ready = << >> /\ s.peer = peer
        /\ ~s.loops /\ ~s.loop_error /\ ~s.running /\ ~s.crypto.ready
    <3>1. s \in States
      BY <1>2, <2>1
    <3> QED
      BY <2>1, <3>1 DEF Fresh, NewContext
  <2>3. Typed(e, s)
    <3>1. IsFiniteSet(s.buffer) /\ Stored(s) = {} /\ Elements(s.queue) = {}
          /\ Elements(s.ready) = {}
      BY <2>2, EmptyElements, FS_EmptySet DEF Stored
    <3> QED
      BY <2>2, <3>1 DEF Typed
  <2>4. Control(e, s)
    <3>1. Increasing(s.ready)
      BY <2>2 DEF Increasing
    <3> QED
      BY <2>1, <2>2, <3>1 DEF Control, Shaking, Posting, Writing, Ended
  <2>5. e = Responder => ResponderOK(s)
    BY <2>2 DEF ResponderOK, Posting, Writing, Asked
  <2>6. e # Responder => InitiatorOK(s)
    <3>1. LastMessage \in Nat
      BY ConnectionAssumption DEF LastMessage, Announcement
    <3> QED
      BY <2>2, <3>1 DEF InitiatorOK, Posting, Writing, Shaking
  <2> QED
    BY <2>3, <2>4, <2>5, <2>6, LocalParts
<1>4. \A e \in Endpoints : LET s == ep[e] IN
         /\ s.at = "start" /\ ~s.encrypted /\ ~s.crypto.ready /\ s.message = 0
         /\ s.in_flight = {} /\ Stored(s) = {}
  BY <1>1, EmptyElements DEF Fresh, NewContext, Stored
<1>5. Sent = {}
  BY <1>1, <1>4 DEF Sent
<1>6. Traffic
  BY <1>4, <1>5 DEF Traffic
<1>7. Responder \in Endpoints /\ Initiators \subseteq Endpoints
  BY DEF Endpoints
<1>8. KeysMatch
  BY <1>4, <1>7 DEF KeysMatch, Asked
<1>9. Consent
  BY <1>4, <1>7 DEF Consent, Announcement
<1> QED
  BY <1>1, <1>3, <1>4, <1>6, <1>7, <1>8, <1>9 DEF Inv, Writing

LEMMA StepPreserves == ASSUME Inv, [Next]_vars PROVE Preserved
<1>1. CASE UNCHANGED vars
  <2>1. UNCHANGED <<ep, net, drawn>>
    BY <1>1 DEF vars
  <2> QED
    BY <2>1, NetworkKeeps DEF Sent
<1>2. ASSUME NEW e \in Endpoints, AppStep(e)
      PROVE  Preserved
  BY <1>2, StartKeeps, SendPacketKeeps, SendErrorKeeps, ResponderKeeps, HandshakeKeeps,
     MessageSentKeeps, CloseKeeps DEF AppStep
<1>3. ASSUME NEW e \in Endpoints,
             \/ answer(e) \/ resend_packet(e) \/ Silence(e) \/ IdleTimeout(e)
             \/ LoopFails(e) \/ Killed(e)
      PROVE  Preserved
  BY <1>3, AnswerKeeps, NetworkStep, SilenceKeeps, LoopFailsKeeps, KilledKeeps
<1>4. ASSUME NEW p \in net, NEW again \in Again, receive_loop(p, again)
      PROVE  Preserved
  BY <1>4, ReceiveLoopKeeps
<1>5. CASE Lose
  BY <1>5, NetworkStep
<1> QED
  BY <1>1, <1>2, <1>3, <1>4, <1>5 DEF Next

\* What each endpoint keeps, what the packets under way say of their senders, and the keys
\* of the two sides fit together in every state of a conversation, whatever fails, is lost,
\* delivered again or out of order, and however often start_loops draws a new key pair.
THEOREM Invariance == Spec => []Inv
<1>1. ASSUME Inv, [Next]_vars PROVE Inv'
  BY <1>1, StepPreserves DEF Preserved
<1> QED
  BY <1>1, InvInit, PTL DEF Spec

LEMMA InvTyped == ASSUME Inv PROVE TypeOK
<1>1. net \subseteq Datagrams
  BY DEF Inv, Traffic, Sent, Genuine
<1>2. drawn \subseteq Pairs
  BY DEF Inv
<1>3. ASSUME NEW e \in Endpoints
      PROVE  LET s == ep[e]
             IN  /\ s.at \in AtStates /\ s.call \in {"DATA", "HANDSHAKE"}
                 /\ s.peer \in Endpoints \union {NoPeer}
                 /\ s.in_flight \subseteq Datagrams
                 /\ \A p \in s.in_flight : p.from = e /\ p.seq < s.counter
                 /\ s.buffer \subseteq Datagrams /\ \A p \in s.buffer : p.seq > s.expected
                 /\ \A p \in s.buffer : p.seq \in s.received
  BY LocalOf DEF Typed, States
<1> QED
  BY <1>1, <1>2, <1>3 DEF TypeOK

\* Every variable has its type; packets in flight have numbers below sequence_counter_, and
\* packets_buffer holds only packets beyond expected_sequence.
THEOREM Typing == Spec => []TypeOK
  BY Invariance, InvTyped, PTL

LEMMA InvDecryptable == ASSUME Inv PROVE Decryptable
<1> SUFFICES ASSUME NEW p \in net, p.type = "DATA", ep[p.to].encrypted,
                    ep[p.to].peer = p.from
             PROVE  p.key # NoKey /\ CanDecrypt(ep[p.to].crypto, p.key)
  BY DEF Decryptable
<1>1. Genuine(p) /\ Tells(ep[p.from], p) /\ p.key = ep[p.from].crypto.key
  BY DEF Inv, Traffic, Sent
<1>2. p.from \in Endpoints /\ p.to \in Endpoints /\ ep[p.from].encrypted
  BY <1>1 DEF Genuine, Datagrams, Tells
<1>3. /\ ep[p.from].crypto.ready /\ ep[p.from].crypto.key # NoKey
      /\ ep[p.to].crypto.ready
  BY <1>2, LocalOf DEF Control
<1>4. ep[p.from].crypto.key = ep[p.to].crypto.key
  <2>1. CASE p.from \in Initiators
    BY <1>1, <1>2, <2>1 DEF Genuine, Inv, KeysMatch
  <2>2. CASE p.from = Responder
    BY <1>1, <1>2, <2>2 DEF Genuine, Inv, KeysMatch
  <2> QED
    BY <1>2, <2>1, <2>2 DEF Endpoints
<1> QED
  BY <1>1, <1>3, <1>4 DEF CanDecrypt

\* decrypt_data can open every packet of data that the peer of an encrypted endpoint has sent
\* and the network still holds: a restart of the loops with a new key pair does not change
\* the key of either side.
THEOREM NothingUndecryptable == Spec => []Decryptable
  BY Invariance, InvDecryptable, PTL

LEMMA InvConsent == ASSUME Inv PROVE ConsentFirst
<1> SUFFICES ASSUME NEW p \in net \union UNION {ep[e].in_flight : e \in Initiators},
                    p.type = "DATA", p.from \in Initiators, p.body > Announcement
             PROVE  ep[Responder].message = CONFIRM /\ ep[Responder].peer = p.from
  BY DEF ConsentFirst
<1>1. p \in Sent
  BY DEF Sent, Endpoints
<1>2. Genuine(p) /\ Tells(ep[p.from], p)
  BY <1>1 DEF Inv, Traffic
<1>3. ep[p.from].encrypted /\ p.body <= ep[p.from].message
  BY <1>2 DEF Tells
<1>4. ep[p.from].message > Announcement
  <2>1. p.body \in Nat /\ ep[p.from].message \in Nat
    <3>1. p.from \in Endpoints /\ p.body \in Nat
      BY <1>2 DEF Genuine, Datagrams
    <3>2. ep[p.from] \in States
      BY <3>1, LocalOf
    <3> QED
      BY <3>1, <3>2 DEF States
  <2> QED
    BY <1>3, <2>1 DEF Announcement
<1> QED
  BY <1>3, <1>4 DEF Inv, KeysMatch, Consent

\* Sender::start_transfer sends no content, to whatever receiver and however often packets
\* arrive, unless that receiver's user has accepted this very sender.
THEOREM ConsentBeforeContent == Spec => []ConsentFirst
  BY Invariance, InvConsent, PTL
LEMMA PlainInit == ASSUME Init PROVE PlainInv
<1>1. \A e \in Endpoints : ep[e] = Fresh(IF e = Responder THEN NoPeer ELSE Responder)
  BY DEF Init
<1>2. ASSUME NEW e \in Endpoints
      PROVE  ep[e].buffer = {} /\ ep[e].ready = << >> /\ ep[e].handed = << >> /\ ep[e].queue = << >>
  <2>1. \A peer : LET s == Fresh(peer)
                 IN  s.buffer = {} /\ s.ready = << >> /\ s.handed = << >> /\ s.queue = << >>
    BY DEF Fresh
  <2> QED
    BY <1>1, <2>1
<1> QED
  BY <1>2, EmptyElements DEF PlainInv, Plain

\* receive() never returns ciphertext, as long as an async_send_to completes before the
\* endpoint reads its next datagram.
THEOREM PlaintextOnly == PromptSpec => []HandedIsPlain
<1>1. Init => Inv /\ PlainInv
  BY InvInit, PlainInit
<1>2. ASSUME Inv /\ PlainInv, [Next /\ PromptCompletion]_vars
      PROVE  (Inv /\ PlainInv)'
  <2>1. CASE Next /\ PromptCompletion
    BY <1>2, <2>1, StepPreserves DEF Preserved
  <2>2. CASE UNCHANGED vars
    <3>1. Inv'
      BY <1>2, <2>2, StepPreserves DEF Preserved
    <3>2. ep' = ep
      BY <2>2 DEF vars
    <3> QED
      BY <1>2, <3>1, <3>2 DEF PlainInv
  <2> QED
    BY <1>2, <2>1, <2>2
<1>3. PlainInv => HandedIsPlain
  BY DEF PlainInv, Plain, HandedIsPlain, Elements
<1> QED
  BY <1>1, <1>2, <1>3, PTL DEF PromptSpec
=============================================================================
