----------------------------- MODULE AsyncQueue -----------------------------
(***************************************************************************)
(* Async_queue: values that are pushed, and coroutines that wait in pop()  *)
(* for one.  push() calls the handler of the first waiter itself (dispatch *)
(* runs it at once on the only thread), and that coroutine may call pop()  *)
(* again before push() returns; ProtoHopZ and ProtoStream each own one     *)
(* queue, popped by one coroutine after another.  Values are numbered by   *)
(* their push.                                                             *)
(***************************************************************************)
EXTENDS Naturals, Sequences, SequencesExt

CONSTANTS
    Consumers,   \* the coroutines that call pop()
    N            \* bound of the model: values pushed

ASSUME QueueAssumption == N \in Nat

VARIABLES
    queue,       \* queue_
    waiters,     \* waiters_: the coroutines whose handlers are in it
    pending,     \* the coroutines inside pop()
    pushed,      \* history: how many values have been pushed
    handed       \* history: the values pop() has returned, in order

queueVars == <<queue, waiters, pending, pushed, handed>>

Init ==
    /\ queue = << >> /\ waiters = << >> /\ pending = {}
    /\ pushed = 0 /\ handed = << >>

\* A handler runs once: the coroutine leaves pop() with a value.  The handler of a
\* coroutine that has left pop() is empty, and a value given to it is gone.
Complete(c, value) ==
    /\ handed' = IF c \in pending THEN Append(handed, value) ELSE handed
    /\ pending' = pending \ {c}

\* push() with somebody waiting: the first waiter gets the value.
push_to_waiter ==
    /\ pushed < N /\ waiters # << >>
    /\ pushed' = pushed + 1
    /\ waiters' = Tail(waiters)
    /\ Complete(Head(waiters), pushed + 1)
    /\ UNCHANGED queue

\* push() with nobody waiting.
push_to_queue ==
    /\ pushed < N /\ waiters = << >>
    /\ pushed' = pushed + 1
    /\ queue' = Append(queue, pushed + 1)
    /\ UNCHANGED <<waiters, pending, handed>>

\* Mutants of Ready and Oldest: pop() always waits; it takes the newest value.
Ready_Never(values) == FALSE
Oldest_Newest(values) == values[Len(values)]

Ready(values)  == values # << >>
Oldest(values) == Head(values)

\* pop() with a value in the queue completes at once.
pop_ready(c) ==
    /\ c \notin pending /\ Ready(queue)
    /\ handed' = Append(handed, Oldest(queue))
    /\ queue' = Tail(queue)
    /\ UNCHANGED <<waiters, pending, pushed>>

\* pop() without one waits.
pop_wait(c) ==
    /\ c \notin pending /\ ~Ready(queue)
    /\ waiters' = Append(waiters, c)
    /\ pending' = pending \union {c}
    /\ UNCHANGED <<queue, pushed, handed>>

\* Mutant of Erased: the waiter is only marked as cancelled.
Erased_Marked(list, i) == list

\* std::remove and erase of one waiter.
Erased(list, i) == RemoveAt(list, i)

\* The slot of a waiting coroutine is signalled: pop() returns operation_aborted.  The
\* slot is cleared when the coroutine resumes, so nobody else can be cancelled.
cancel(c) ==
    /\ c \in pending
    /\ \E i \in 1 .. Len(waiters) : waiters[i] = c /\ waiters' = Erased(waiters, i)
    /\ pending' = pending \ {c}
    /\ UNCHANGED <<queue, pushed, handed>>

Next ==
    \/ push_to_waiter \/ push_to_queue
    \/ \E c \in Consumers : pop_ready(c) \/ pop_wait(c) \/ cancel(c)

Spec == Init /\ [][Next]_queueVars

-----------------------------------------------------------------------------
(* properties *)

\* waiters_ holds each coroutine that is inside pop() exactly once, and nobody else:
\* a coroutine that is missing would never be resumed, one that is there twice would
\* be resumed in the middle of something else.
TypeOK ==
    /\ queue \in Seq(1 .. N)
    /\ waiters \in Seq(Consumers)
    /\ pushed \in 0 .. N
    /\ handed \in Seq(1 .. N)
    /\ pending = {waiters[i] : i \in 1 .. Len(waiters)}
    /\ \A i, j \in 1 .. Len(waiters) : waiters[i] = waiters[j] => i = j

\* Nobody waits in pop() while a value lies in the queue, whatever the order of push,
\* pop and cancel.
NobodyWaitsInVain == queue = << >> \/ pending = {}

\* Every value that was pushed has been returned by one pop() or is still queued, in the
\* order of push, also when waits are cancelled.
NothingLost == handed \o queue = [i \in 1 .. pushed |-> i]
=============================================================================
