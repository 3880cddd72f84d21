------------------------------ MODULE MCAsync ------------------------------
(***************************************************************************)
(* One object at a time: an Async_queue or an Async_value.                 *)
(***************************************************************************)
EXTENDS AsyncQueue

CONSTANTS Waiters, Values

VARIABLES
    object,                  \* "queue" or "value", settled at the start
    held, listeners, inside  \* the variables of AsyncValue

Value == INSTANCE AsyncValue WITH value <- held, waiters <- listeners, pending <- inside

listenVars == <<held, listeners, inside>>
asyncVars  == <<object, queueVars, listenVars>>

QueueStep == object = "queue" /\ Next /\ UNCHANGED <<object, listenVars>>
ValueStep == object = "value" /\ Value!Next /\ UNCHANGED <<object, queueVars>>

AsyncInit == Init /\ Value!Init /\ object \in {"queue", "value"}

AsyncSpec == AsyncInit /\ [][QueueStep \/ ValueStep]_asyncVars

-----------------------------------------------------------------------------
(* properties *)

\* The type of Async_value: waiters_ holds each coroutine that is inside wait() exactly
\* once, also when the coroutines that set() wakes wait again.
ValueTypeOK == Value!TypeOK
=============================================================================
