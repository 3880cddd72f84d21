----------------------------- MODULE FifoChannel -----------------------------
(***************************************************************************)
(* What one direction of a ProtoStream promises its two applications: the  *)
(* receiver is handed exactly the messages that were sent, each once and   *)
(* in the order of the calls.  Messages are numbered by their send call.   *)
(***************************************************************************)
EXTENDS Naturals, Sequences

CONSTANT N                    \* messages the sending application may send

VARIABLES accepted,           \* messages that send() has taken
          handed              \* the messages handed to the receiver, in order

channelVars == <<accepted, handed>>

FirstMessages(n) == [i \in 1 .. n |-> i]

Init == accepted = 0 /\ handed = << >>

Accept == /\ accepted < N
          /\ accepted' = accepted + 1
          /\ UNCHANGED handed

\* Any number of messages may become deliverable at once.
Hand == /\ \E n \in (Len(handed) + 1) .. accepted : handed' = FirstMessages(n)
        /\ UNCHANGED accepted

Next == Accept \/ Hand

Spec == Init /\ [][Next]_channelVars
=============================================================================
