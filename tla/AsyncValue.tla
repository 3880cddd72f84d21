----------------------------- MODULE AsyncValue -----------------------------
(***************************************************************************)
(* Async_value: a value, and coroutines that wait for a signal.  wait()    *)
(* never looks at the value: only a signal given after it counts.  set()   *)
(* wakes everybody who waits (drained_signal_), notify_one() the one who   *)
(* has waited longest (cwnd_), update() nobody.  A wait that races with a  *)
(* timer is cancelled when the timer wins (wait_in_flight_drained).        *)
(***************************************************************************)
EXTENDS Naturals, Sequences, SequencesExt

CONSTANTS
    Waiters,     \* the coroutines that call wait()
    Values       \* bound of the model: the values

VARIABLES
    value,       \* value_ (version_ is never read)
    waiters,     \* waiters_: the coroutines whose handlers are in it
    pending      \* the coroutines inside wait()

valueVars == <<value, waiters, pending>>

Init ==
    /\ value \in Values
    /\ waiters = << >> /\ pending = {}

\* wait() registers the handler.
wait(w) ==
    /\ w \notin pending
    /\ waiters' = Append(waiters, w)
    /\ pending' = pending \union {w}
    /\ UNCHANGED value

\* Mutant of Left: the list is copied instead of moved.
Left_Copied(list) == list

\* waiters_ after std::move.
Left(list) == << >>

\* A handler that set() calls runs at once; its coroutine may call wait() again before the
\* next handler runs, and is then in the new list.
Rejoin(again, list, w) == IF w \in again THEN Append(list, w) ELSE list

\* set() calls one handler after the other.
set(v) ==
    /\ value' = v
    /\ \E again \in SUBSET pending :
          /\ waiters' = FoldLeft(LAMBDA list, w : Rejoin(again, list, w), Left(waiters), waiters)
          /\ pending' = again

update(v) ==
    /\ value' = v
    /\ UNCHANGED <<waiters, pending>>

\* notify_one() with somebody waiting; without, it does nothing.
notify_one ==
    /\ waiters # << >>
    /\ waiters' = Tail(waiters)
    /\ pending' = pending \ {Head(waiters)}
    /\ UNCHANGED value

\* The timer wins: the waiter is erased and its handler runs with operation_aborted.
cancel(w) ==
    /\ w \in pending
    /\ \E i \in 1 .. Len(waiters) : waiters[i] = w /\ waiters' = RemoveAt(waiters, i)
    /\ pending' = pending \ {w}
    /\ UNCHANGED value

Next ==
    \/ notify_one
    \/ \E v \in Values : set(v) \/ update(v)
    \/ \E w \in Waiters : wait(w) \/ cancel(w)

Spec == Init /\ [][Next]_valueVars

-----------------------------------------------------------------------------
(* properties *)

\* waiters_ holds each coroutine that is inside wait() exactly once, and nobody else,
\* also when the coroutines that set() wakes wait again.
TypeOK ==
    /\ value \in Values
    /\ waiters \in Seq(Waiters)
    /\ pending = {waiters[i] : i \in 1 .. Len(waiters)}
    /\ \A i, j \in 1 .. Len(waiters) : waiters[i] = waiters[j] => i = j
=============================================================================
