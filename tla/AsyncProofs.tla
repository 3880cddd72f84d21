----------------------------- MODULE AsyncProofs ----------------------------
(***************************************************************************)
(* The invariants of AsyncQueue and of AsyncValue hold for any number of   *)
(* coroutines and of values.  Together they are inductive.                 *)
(***************************************************************************)
EXTENDS MCAsync, SequenceTheorems, NaturalsInduction, TLAPS

\* The shape of waiters_, in the words of TypeOK.
IsList(S, list, coroutines) ==
    /\ list \in Seq(S)
    /\ coroutines = {list[i] : i \in 1 .. Len(list)}
    /\ \A i, j \in 1 .. Len(list) : list[i] = list[j] => i = j

Rejoins == INSTANCE FoldLemmas WITH Op <- Value!Rejoin

\* NothingLost value by value.
Numbered ==
    /\ Len(handed) + Len(queue) = pushed
    /\ \A i \in 1 .. Len(handed) : handed[i] = i
    /\ \A i \in 1 .. Len(queue) : queue[i] = Len(handed) + i

Typed == queue \in Seq(1 .. N) /\ handed \in Seq(1 .. N) /\ pushed \in 0 .. N

\* The inductive invariant.
Inv == Typed /\ IsList(Consumers, waiters, pending) /\ NobodyWaitsInVain /\ Numbered

-----------------------------------------------------------------------------
(* waiters_ *)

\* The waiter that is taken off the front leaves.
LEMMA FirstLeaves ==
    ASSUME NEW S, NEW list \in Seq(S), NEW coroutines, IsList(S, list, coroutines), list # << >>
    PROVE  Head(list) \in coroutines /\ IsList(S, Tail(list), coroutines \ {Head(list)})
<1>1. /\ Tail(list) \in Seq(S) /\ Len(list) \in Nat \ {0}
      /\ Len(Tail(list)) = Len(list) - 1 /\ Head(list) = list[1]
      /\ \A i \in 1 .. Len(Tail(list)) : Tail(list)[i] = list[i + 1]
    BY HeadTailProperties, EmptySeq
<1>2. \A i \in 1 .. Len(list) : i # 1 => \E j \in 1 .. Len(Tail(list)) : Tail(list)[j] = list[i]
    <2> TAKE i \in 1 .. Len(list)
    <2> HAVE i # 1
    <2> WITNESS i - 1 \in 1 .. Len(Tail(list))
    <2> QED
        BY <1>1
<1>3. \A j \in 1 .. Len(Tail(list)) : \E i \in 1 .. Len(list) : i # 1 /\ Tail(list)[j] = list[i]
    BY <1>1
<1>4. coroutines \ {Head(list)} = {Tail(list)[j] : j \in 1 .. Len(Tail(list))}
    BY <1>1, <1>2, <1>3 DEF IsList
<1>5. \A i, j \in 1 .. Len(Tail(list)) : Tail(list)[i] = Tail(list)[j] => i = j
    BY <1>1 DEF IsList
<1> QED
    BY <1>1, <1>4, <1>5 DEF IsList

\* The coroutine that waits comes last.
LEMMA LastComes ==
    ASSUME NEW S, NEW list \in Seq(S), NEW coroutines, IsList(S, list, coroutines),
           NEW c \in S, c \notin coroutines
    PROVE  IsList(S, Append(list, c), coroutines \union {c})
<1> DEFINE more == Append(list, c)
<1>1. /\ more \in Seq(S) /\ Len(list) \in Nat /\ Len(more) = Len(list) + 1
      /\ \A i \in 1 .. Len(list) : more[i] = list[i]
      /\ more[Len(more)] = c
    BY AppendProperties, LenProperties
<1>2. coroutines \union {c} = {more[i] : i \in 1 .. Len(more)}
    BY <1>1 DEF IsList
<1>3. \A i, j \in 1 .. Len(more) : more[i] = more[j] => i = j
    BY <1>1 DEF IsList
<1> QED
    BY <1>1, <1>2, <1>3 DEF IsList

\* The waiter that is cancelled leaves, and nobody else.
LEMMA OneIsErased ==
    ASSUME NEW S, NEW list \in Seq(S), NEW coroutines, IsList(S, list, coroutines),
           NEW i \in 1 .. Len(list)
    PROVE  IsList(S, RemoveAt(list, i), coroutines \ {list[i]})
<1> DEFINE rest == RemoveAt(list, i)
           front == SubSeq(list, 1, i - 1)
           back == SubSeq(list, i + 1, Len(list))
<1>1. Len(list) \in Nat /\ i \in Nat /\ \A j \in 1 .. Len(list) : list[j] \in S
    BY LenProperties, ElementOfSeq
<1>2. /\ front \in Seq(S) /\ Len(front) = i - 1
      /\ \A j \in 1 .. i - 1 : front[j] = list[j]
    BY <1>1, SubSeqProperties
<1>3. /\ back \in Seq(S) /\ Len(back) = Len(list) - i
      /\ \A j \in 1 .. Len(list) - i : back[j] = list[j + i]
    BY <1>1, SubSeqProperties
<1>4. /\ rest \in Seq(S)
      /\ Len(rest) = Len(list) - 1
      /\ \A j \in 1 .. Len(rest) : rest[j] = IF j < i THEN list[j] ELSE list[j + 1]
    <2>1. rest = front \o back
        BY DEF RemoveAt
    <2>2. /\ rest \in Seq(S)
          /\ Len(rest) = Len(front) + Len(back)
          /\ \A j \in 1 .. Len(front) + Len(back) :
                rest[j] = IF j <= Len(front) THEN front[j] ELSE back[j - Len(front)]
        <3> HIDE DEF rest, front, back
        <3> QED
            BY <1>2, <1>3, <2>1, ConcatProperties
    <2> HIDE DEF rest, front, back
    <2>3. Len(rest) = Len(list) - 1
        BY <1>1, <1>2, <1>3, <2>2
    <2>4. ASSUME NEW j \in 1 .. Len(rest)
          PROVE  rest[j] = IF j < i THEN list[j] ELSE list[j + 1]
        <3>1. CASE j < i
            BY <1>1, <1>2, <1>3, <2>2, <3>1
        <3>2. CASE j >= i
            <4>1. rest[j] = back[j - (i - 1)] /\ j - (i - 1) \in 1 .. Len(list) - i
                BY <1>1, <1>2, <1>3, <2>2, <2>3, <3>2
            <4>2. (j - (i - 1)) + i = j + 1
                BY <1>1, <2>3
            <4>3. back[j - (i - 1)] = list[(j - (i - 1)) + i]
                BY <1>3, <4>1
            <4>4. ~(j < i)
                BY <1>1, <2>3, <3>2
            <4> QED
                BY <4>1, <4>2, <4>3, <4>4
        <3> QED
            BY <1>1, <3>1, <3>2
    <2> QED
        BY <2>2, <2>3, <2>4
<1> HIDE DEF rest
<1>5. \A j \in 1 .. Len(list) : j # i => \E k \in 1 .. Len(rest) : rest[k] = list[j]
    <2> TAKE j \in 1 .. Len(list)
    <2> HAVE j # i
    <2>1. CASE j < i
        BY <1>1, <1>4, <2>1
    <2>2. CASE j > i
        <3>1. j - 1 \in 1 .. Len(rest) /\ rest[j - 1] = list[j]
            BY <1>1, <1>4, <2>2
        <3> QED
            BY <3>1
    <2> QED
        BY <1>1, <2>1, <2>2
<1>6. \A k \in 1 .. Len(rest) : \E j \in 1 .. Len(list) : j # i /\ rest[k] = list[j]
    BY <1>1, <1>4
<1>7. coroutines \ {list[i]} = {rest[k] : k \in 1 .. Len(rest)}
    <2>1. \A j \in 1 .. Len(list) : list[j] = list[i] <=> j = i
        BY DEF IsList
    <2>2. coroutines = {list[j] : j \in 1 .. Len(list)}
        BY DEF IsList
    <2>3. ASSUME NEW x \in coroutines, x # list[i]
          PROVE  x \in {rest[k] : k \in 1 .. Len(rest)}
        <3>1. PICK j \in 1 .. Len(list) : x = list[j]
            BY <2>2
        <3>2. PICK k \in 1 .. Len(rest) : rest[k] = list[j]
            BY <1>5, <2>3, <3>1
        <3> QED
            BY <3>1, <3>2
    <2>4. ASSUME NEW k \in 1 .. Len(rest)
          PROVE  rest[k] \in coroutines \ {list[i]}
        <3>1. PICK j \in 1 .. Len(list) : j # i /\ rest[k] = list[j]
            BY <1>6
        <3> QED
            BY <2>1, <2>2, <3>1
    <2> QED
        BY <2>3, <2>4
<1>8. \A j, k \in 1 .. Len(rest) : rest[j] = rest[k] => j = k
    BY <1>1, <1>4 DEF IsList
<1> QED
    BY <1>4, <1>7, <1>8 DEF IsList, rest

-----------------------------------------------------------------------------
(* The actions of AsyncQueue *)

\* Nobody waits at the start.
LEMMA InitInv == Init => Inv
    BY QueueAssumption DEF Init, Inv, Typed, IsList, NobodyWaitsInVain, Numbered

\* push, whoever waits.
LEMMA PushKeepsInv == ASSUME Inv, push_to_waiter \/ push_to_queue PROVE Inv'
<1>1. pushed + 1 \in 1 .. N /\ Len(handed) \in Nat /\ Len(queue) \in Nat
    BY QueueAssumption, LenProperties DEF Inv, Typed, push_to_waiter, push_to_queue
<1>2. CASE push_to_waiter
    <2>1. /\ Head(waiters) \in pending
          /\ IsList(Consumers, Tail(waiters), pending \ {Head(waiters)})
        BY <1>2, FirstLeaves DEF Inv, IsList, push_to_waiter
    <2>2. queue = << >> /\ queue' = << >>
        BY <1>2, <2>1 DEF Inv, NobodyWaitsInVain, push_to_waiter
    <2>3. pushed' = pushed + 1 /\ handed' = Append(handed, pushed + 1)
        BY <1>2, <2>1 DEF push_to_waiter, Complete
    <2>4. Typed'
        BY <1>1, <2>2, <2>3, AppendProperties, EmptySeq, QueueAssumption DEF Inv, Typed
    <2>5. IsList(Consumers, waiters, pending)'
        BY <1>2, <2>1 DEF push_to_waiter, Complete
    <2>6. Numbered'
        BY <1>1, <2>2, <2>3, AppendProperties, EmptySeq DEF Inv, Typed, Numbered
    <2> QED
        BY <2>2, <2>4, <2>5, <2>6 DEF Inv, NobodyWaitsInVain
<1>3. CASE push_to_queue
    <2>1. pushed' = pushed + 1 /\ queue' = Append(queue, pushed + 1) /\ handed' = handed
        BY <1>3 DEF push_to_queue
    <2>2. Typed'
        BY <1>1, <2>1, AppendProperties, QueueAssumption DEF Inv, Typed
    <2>3. pending = {} /\ pending' = {} /\ IsList(Consumers, waiters, pending)'
        BY <1>3 DEF Inv, IsList, push_to_queue
    <2>4. Numbered'
        <3>1. /\ Len(queue') = Len(queue) + 1
              /\ \A i \in 1 .. Len(queue) : queue'[i] = queue[i]
              /\ queue'[Len(queue) + 1] = pushed + 1
            BY <1>1, <2>1, AppendProperties DEF Inv, Typed
        <3>2. pushed + 1 = Len(handed) + (Len(queue) + 1)
            BY <1>1 DEF Inv, Numbered
        <3>3. \A i \in 1 .. Len(queue') : queue'[i] = Len(handed) + i
            BY <1>1, <3>1, <3>2 DEF Inv, Numbered
        <3> QED
            BY <2>1, <3>1, <3>2, <3>3 DEF Inv, Numbered
    <2> QED
        BY <2>2, <2>3, <2>4 DEF Inv, NobodyWaitsInVain
<1> QED
    BY <1>2, <1>3

\* pop, whether it waits or not.
LEMMA PopKeepsInv == ASSUME Inv, NEW c \in Consumers, pop_ready(c) \/ pop_wait(c) PROVE Inv'
<1>1. CASE pop_ready(c)
    <2>1. /\ queue # << >> /\ queue' = Tail(queue) /\ handed' = Append(handed, Head(queue))
          /\ pushed' = pushed /\ waiters' = waiters /\ pending' = pending
        BY <1>1 DEF pop_ready, Ready, Oldest
    <2>2. /\ Head(queue) \in 1 .. N /\ Head(queue) = queue[1]
          /\ Tail(queue) \in Seq(1 .. N) /\ Len(queue) \in Nat \ {0}
          /\ Len(Tail(queue)) = Len(queue) - 1
          /\ \A i \in 1 .. Len(Tail(queue)) : Tail(queue)[i] = queue[i + 1]
        <3>1. queue \in Seq(1 .. N) /\ Head(queue) = queue[1]
            BY DEF Inv, Typed
        <3> QED
            BY <2>1, <3>1, HeadTailProperties, EmptySeq
    <2>3. /\ Append(handed, Head(queue)) \in Seq(1 .. N) /\ Len(handed) \in Nat
          /\ Len(Append(handed, Head(queue))) = Len(handed) + 1
          /\ \A i \in 1 .. Len(handed) : Append(handed, Head(queue))[i] = handed[i]
          /\ Append(handed, Head(queue))[Len(handed) + 1] = Head(queue)
        BY <2>2, AppendProperties, LenProperties DEF Inv, Typed
    <2>4. Typed'
        BY <2>1, <2>2, <2>3 DEF Inv, Typed
    <2>5. Head(queue) = Len(handed) + 1
        BY <2>2, <2>3 DEF Inv, Numbered
    <2>6. Numbered'
        BY <2>1, <2>2, <2>3, <2>5 DEF Inv, Numbered
    <2>7. IsList(Consumers, waiters, pending)'
        BY <2>1 DEF Inv
    <2> QED
        BY <2>1, <2>4, <2>6, <2>7 DEF Inv, NobodyWaitsInVain
<1>2. CASE pop_wait(c)
    <2>1. IsList(Consumers, waiters, pending)'
        BY <1>2, LastComes DEF Inv, IsList, pop_wait
    <2>2. Typed' /\ Numbered' /\ queue' = << >>
        BY <1>2 DEF Inv, Typed, Numbered, pop_wait, Ready
    <2> QED
        BY <2>1, <2>2 DEF Inv, NobodyWaitsInVain
<1> QED
    BY <1>1, <1>2

\* cancellation of a pop.
LEMMA CancelKeepsInv == ASSUME Inv, NEW c \in Consumers, cancel(c) PROVE Inv'
<1>1. PICK i \in 1 .. Len(waiters) : waiters[i] = c /\ waiters' = RemoveAt(waiters, i)
    BY DEF cancel, Erased
<1>2. IsList(Consumers, waiters', pending \ {c})
    <2>1. waiters \in Seq(Consumers) /\ IsList(Consumers, waiters, pending)
        BY DEF Inv, IsList
    <2>2. IsList(Consumers, RemoveAt(waiters, i), pending \ {waiters[i]})
        BY <2>1, OneIsErased
    <2> QED
        BY <1>1, <2>2
<1>3. pending' = pending \ {c} /\ UNCHANGED <<queue, pushed, handed>>
    BY DEF cancel
<1> QED
    BY <1>2, <1>3 DEF Inv, Typed, NobodyWaitsInVain, Numbered, IsList

\* A step of something else.
LEMMA StutterKeepsInv == ASSUME Inv, UNCHANGED queueVars PROVE Inv'
<1>1. /\ queue' = queue /\ waiters' = waiters /\ pending' = pending
      /\ pushed' = pushed /\ handed' = handed
    BY DEF queueVars
<1>2. IsList(Consumers, waiters, pending)'
    BY <1>1 DEF Inv, IsList
<1> QED
    BY <1>1, <1>2 DEF Inv, Typed, NobodyWaitsInVain, Numbered

\* The inductive invariant of the queue, for any number of coroutines and of values.
THEOREM InvAlways == Spec => []Inv
<1>1. Inv /\ [Next]_queueVars => Inv'
    BY PushKeepsInv, PopKeepsInv, CancelKeepsInv, StutterKeepsInv DEF Next
<1> QED
    BY InitInv, <1>1, PTL DEF Spec

-----------------------------------------------------------------------------
(* The properties of AsyncQueue *)

\* What the invariant says of the properties.
LEMMA InvMeans == Inv => TypeOK /\ NobodyWaitsInVain /\ NothingLost
<1> SUFFICES ASSUME Inv PROVE TypeOK /\ NobodyWaitsInVain /\ NothingLost
    OBVIOUS
<1>1. TypeOK
    BY DEF Inv, Typed, IsList, TypeOK
<1> DEFINE all == handed \o queue
<1>2. /\ all \in Seq(1 .. N) /\ Len(handed) \in Nat /\ Len(queue) \in Nat
      /\ Len(all) = pushed
      /\ \A i \in 1 .. pushed :
            all[i] = IF i <= Len(handed) THEN handed[i] ELSE queue[i - Len(handed)]
    BY ConcatProperties, LenProperties DEF Inv, Typed, Numbered
<1>3. \A i \in 1 .. pushed : all[i] = i
    BY <1>2 DEF Inv, Numbered
<1>4. DOMAIN all = 1 .. pushed
    BY <1>2, LenProperties
<1>5. all = [i \in 1 .. pushed |-> i]
    BY <1>2, <1>3, <1>4, LenProperties
<1> QED
    BY <1>1, <1>5 DEF Inv, NothingLost

\* TypeOK: waiters_ holds each coroutine inside pop() exactly once, whatever the order of
\* push, pop and cancellation.
THEOREM QueueTyped == Spec => []TypeOK
    BY InvAlways, InvMeans, PTL

\* NobodyWaitsInVain: no coroutine waits in pop() while a value is queued.
THEOREM QueueServes == Spec => []NobodyWaitsInVain
    BY InvAlways, InvMeans, PTL

\* NothingLost: what pop() has returned and what is queued are the values pushed, in
\* their order.
THEOREM QueueKeepsAll == Spec => []NothingLost
    BY InvAlways, InvMeans, PTL

-----------------------------------------------------------------------------
(* AsyncValue *)

\* The waiters that set() wakes and that wait again form a list of their own, in which
\* each is once.
LEMMA WokenRejoin ==
    ASSUME NEW S, NEW list \in Seq(S), NEW coroutines, IsList(S, list, coroutines),
           NEW again \in SUBSET coroutines
    PROVE  IsList(S, FoldLeft(LAMBDA l, w : Value!Rejoin(again, l, w), << >>, list), again)
<1> DEFINE n == Len(list)
<1>0. n \in Nat /\ DOMAIN list = 1 .. n
  BY LenProperties
<1>1. PICK g : Rejoins!Steps(g, again, << >>, list, n)
  BY ONLY <1>0, Rejoins!FoldSteps
<1>2. FoldLeft(LAMBDA l, w : Value!Rejoin(again, l, w), << >>, list) = g[n]
  BY <1>1 DEF Rejoins!Steps, FoldLeft, MapThenFoldSet, Max, Rejoins!Fold, Rejoins!FoldLeft,
              Rejoins!MapThenFoldSet, Rejoins!Max
<1>3. /\ g[0] = << >>
      /\ \A i \in 1 .. n : g[i] = IF list[i] \in again THEN Append(g[i - 1], list[i]) ELSE g[i - 1]
  BY <1>1 DEF Rejoins!Steps, Value!Rejoin
<1> DEFINE Upto(k) == {list[i] : i \in 1 .. k}
           Good(k) == IsList(S, g[k], again \intersect Upto(k))
           W == {k \in Nat : k <= n => Good(k)}
<1>4. 0 \in W
  <2>1. Upto(0) = {}
    OBVIOUS
  <2>2. IsList(S, << >>, {})
    BY DEF IsList
  <2> HIDE DEF Upto
  <2> QED
    BY <1>3, <2>1, <2>2
<1>5. ASSUME NEW k \in Nat, k \in W
      PROVE  k + 1 \in W
  <2> SUFFICES ASSUME k + 1 <= n PROVE Good(k + 1)
    OBVIOUS
  <2>1. IsList(S, g[k], again \intersect Upto(k))
    BY <1>0, <1>5
  <2>2. k + 1 \in 1 .. n /\ (k + 1) - 1 = k
    BY <1>0
  <2>3. list[k + 1] \in S /\ list[k + 1] \notin Upto(k)
    BY <1>0, <2>2 DEF IsList
  <2>4. Upto(k + 1) = Upto(k) \union {list[k + 1]}
    <3>1. 1 .. (k + 1) = (1 .. k) \union {k + 1}
      OBVIOUS
    <3> QED
      BY <3>1
  <2>5. g[k + 1] = IF list[k + 1] \in again THEN Append(g[k], list[k + 1]) ELSE g[k]
    BY <1>3, <2>2
  <2> HIDE DEF Upto
  <2>6. CASE list[k + 1] \in again
    <3>1. again \intersect Upto(k + 1) = (again \intersect Upto(k)) \union {list[k + 1]}
      BY <2>4, <2>6
    <3>2. g[k] \in Seq(S)
      BY <2>1 DEF IsList
    <3> QED
      BY <2>1, <2>3, <2>5, <2>6, <3>1, <3>2, LastComes
  <2>7. CASE list[k + 1] \notin again
    <3>1. again \intersect Upto(k + 1) = again \intersect Upto(k)
      BY <2>4, <2>7
    <3> QED
      BY <2>1, <2>5, <2>7, <3>1
  <2> QED
    BY <2>6, <2>7
<1>6. Good(n)
  <2>1. n \in W
    <3> HIDE DEF W
    <3> QED
      BY <1>0, <1>4, <1>5, Rejoins!NatSetInduction
  <2> HIDE DEF Good
  <2> QED
    BY <2>1
<1>7. again \intersect Upto(n) = again
  BY DEF IsList
<1> HIDE DEF Upto
<1> QED
  BY <1>2, <1>6, <1>7

\* The inductive invariant, in the words of ValueTypeOK.
ValueInv ==
    /\ held \in Values
    /\ IsList(Waiters, listeners, inside)

\* Every operation of Async_value keeps its type.
LEMMA ValueKeepsInv == ASSUME ValueInv, Value!Next PROVE ValueInv'
<1>0. listeners \in Seq(Waiters) /\ inside \subseteq Waiters
  BY DEF ValueInv, IsList
<1>1. CASE Value!notify_one
  <2>1. IsList(Waiters, listeners', inside')
    BY <1>0, <1>1, FirstLeaves DEF ValueInv, Value!notify_one
  <2> QED
    BY <1>1, <2>1 DEF ValueInv, Value!notify_one
<1>2. ASSUME NEW v \in Values, Value!set(v)
      PROVE  ValueInv'
  <2>1. PICK again \in SUBSET inside :
           /\ listeners' = FoldLeft(LAMBDA l, w : Value!Rejoin(again, l, w), << >>, listeners)
           /\ inside' = again
    BY <1>2 DEF Value!set, Value!Left, FoldLeft, MapThenFoldSet, Max, Value!FoldLeft,
                Value!MapThenFoldSet, Value!Max
  <2>2. IsList(Waiters, listeners', inside')
    BY <1>0, <2>1, WokenRejoin DEF ValueInv
  <2> QED
    BY <1>0, <1>2, <2>2 DEF ValueInv, Value!set
<1>3. ASSUME NEW v \in Values, Value!update(v)
      PROVE  ValueInv'
  BY <1>3 DEF ValueInv, IsList, Value!update
<1>4. ASSUME NEW w \in Waiters, Value!wait(w)
      PROVE  ValueInv'
  <2>1. IsList(Waiters, listeners', inside')
    BY <1>0, <1>4, LastComes DEF ValueInv, Value!wait
  <2> QED
    BY <1>4, <2>1 DEF ValueInv, Value!wait
<1>5. ASSUME NEW w \in Waiters, Value!cancel(w)
      PROVE  ValueInv'
  <2>1. PICK i \in 1 .. Len(listeners) :
           listeners[i] = w /\ listeners' = RemoveAt(listeners, i)
    BY <1>5 DEF Value!cancel, RemoveAt, Value!RemoveAt
  <2>2. IsList(Waiters, listeners', inside')
    BY <1>0, <1>5, <2>1, OneIsErased DEF ValueInv, Value!cancel
  <2> QED
    BY <1>0, <1>5, <2>2 DEF ValueInv, Value!cancel
<1> QED
  BY <1>1, <1>2, <1>3, <1>4, <1>5 DEF Value!Next

\* ValueTypeOK: waiters_ holds each coroutine inside wait() exactly once, for any number of
\* them, also when those that set() wakes wait again before it returns, and when a timer
\* cancels one of them.
THEOREM ValueTyped == AsyncSpec => []ValueTypeOK
<1>1. AsyncInit => ValueInv
  BY DEF AsyncInit, Value!Init, ValueInv, IsList
<1>2. ValueInv /\ [QueueStep \/ ValueStep]_asyncVars => ValueInv'
  <2> SUFFICES ASSUME ValueInv, [QueueStep \/ ValueStep]_asyncVars PROVE ValueInv'
    OBVIOUS
  <2>1. CASE ValueStep
    BY <2>1, ValueKeepsInv DEF ValueStep
  <2>2. CASE UNCHANGED listenVars
    BY <2>2 DEF listenVars, ValueInv, IsList
  <2> QED
    BY <2>1, <2>2 DEF QueueStep, asyncVars
<1>3. ValueInv => ValueTypeOK
  BY DEF ValueInv, IsList, ValueTypeOK, Value!TypeOK
<1> QED
  BY <1>1, <1>2, <1>3, PTL DEF AsyncSpec
=============================================================================
