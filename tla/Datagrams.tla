----------------------------- MODULE Datagrams -----------------------------
(***************************************************************************)
(* The UDP service under one direction of a FileHopZ connection: packets   *)
(* travel from endpoint A to endpoint B, acknowledgements travel back.     *)
(* The network may lose, delay, duplicate and reorder datagrams, so each   *)
(* direction is the set of datagrams that may still be handed over.  The   *)
(* network is outside the repository; its behaviour is what protohopz.cpp  *)
(* relies on (async_send_to / async_receive_from on a UDP socket).         *)
(***************************************************************************)
EXTENDS Naturals, FiniteSets, Functions

VARIABLES
    net,    \* datagrams on their way from A to B
    acks    \* sequence numbers of ACK datagrams on their way from B to A

netVars == <<net, acks>>

Packet(type, seq, body) == [type |-> type, seq |-> seq, body |-> body]

\* Mutant of Without: an ACK is taken as cumulative.
Without_Cumulative(f, key) == Restrict(f, {x \in DOMAIN f : x > key})

\* std::unordered_map::insert_or_assign and erase on a partial function.
With(f, key, value) == [x \in DOMAIN f \union {key} |-> IF x = key THEN value ELSE f[x]]
Without(f, key) == Restrict(f, DOMAIN f \ {key})

Emit(packet) == net' = net \union {packet}

LosePacket == /\ \E p \in net : net' = net \ {p}
              /\ UNCHANGED acks

LoseAck == /\ \E s \in acks : acks' = acks \ {s}
           /\ UNCHANGED net
=============================================================================
