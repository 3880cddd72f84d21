----------------------------- MODULE FoldLemmas -----------------------------
(***************************************************************************)
(* What a fold of the community modules keeps, for an operator that this   *)
(* module takes as a constant.                                             *)
(***************************************************************************)
EXTENDS Integers, Sequences, SequencesExt, FiniteSetTheorems, WellFoundedInduction, TLAPS

CONSTANT Op(_, _, _)

LEMMA NatSetInduction ==
    ASSUME NEW S, 0 \in S, \A n \in Nat : n \in S => n + 1 \in S
    PROVE  Nat \subseteq S
<1> SUFFICES ASSUME Nat \ S # {} PROVE FALSE
  OBVIOUS
<1> DEFINE R == {ss \in Nat \X Nat : ss[1] < ss[2]}
<1>1. IsWellFoundedOn(R, Nat)
  BY NatLessThanWellFounded DEF OpToRel
<1>2. \A m, n \in Nat : m < n => <<m, n>> \in R
  OBVIOUS
<1> HIDE DEF R
<1>3. PICK n \in Nat \ S : \A m \in Nat \ S : ~ (<<m, n>> \in R)
  BY <1>1, WFMin
<1>4. n # 0 /\ n - 1 \in Nat /\ n - 1 < n
  OBVIOUS
<1>5. n - 1 \in S
  BY <1>2, <1>3, <1>4
<1> QED
  BY <1>4, <1>5

\* The largest of a set of indices.
LEMMA MaxIn ==
    ASSUME NEW n \in Nat, NEW s \in SUBSET (1 .. n), s # {}
    PROVE  Max(s) \in s /\ \A i \in s : Max(s) >= i
<1> DEFINE W == {k \in Nat : \A t \in SUBSET (1 .. k) : t # {} => \E x \in t : \A y \in t : x >= y}
<1>1. 0 \in W
  <2>1. SUBSET (1 .. 0) = {{}}
    OBVIOUS
  <2> QED
    BY <2>1
<1>2. ASSUME NEW k \in Nat, k \in W
      PROVE  k + 1 \in W
  <2> SUFFICES ASSUME NEW t \in SUBSET (1 .. k + 1), t # {}
               PROVE  \E x \in t : \A y \in t : x >= y
    OBVIOUS
  <2>1. CASE k + 1 \in t
    BY <2>1
  <2>2. CASE k + 1 \notin t
    <3>1. t \in SUBSET (1 .. k)
      BY <2>2
    <3> QED
      BY <1>2, <3>1
  <2> QED
    BY <2>1, <2>2
<1>3. n \in W
  <2> HIDE DEF W
  <2> QED
    BY <1>1, <1>2, NatSetInduction
<1>4. \E x \in s : \A y \in s : x >= y
  BY <1>3
<1> QED
  BY <1>4 DEF Max

Fold(a, base, seq) == FoldLeft(LAMBDA x, y : Op(a, x, y), base, seq)

\* The function FoldLeft defines by recursion on the set of indices.
Unfolds(iter, a, base, seq, n) ==
    /\ Fold(a, base, seq) = iter[1 .. n]
    /\ iter[{}] = base
    /\ \A s \in SUBSET (1 .. n) :
          s # {} => iter[s] = Op(a, iter[s \ {Max(s)}], seq[Max(s)])

LEMMA FoldRecursion ==
    ASSUME NEW a, NEW base, NEW seq, NEW n \in Nat, DOMAIN seq = 1 .. n
    PROVE  \E iter : Unfolds(iter, a, base, seq, n)
<1> DEFINE Sub == SUBSET (1 .. n)
           Rec(f) == [s \in Sub |-> IF s = {} THEN base ELSE Op(a, f[s \ {Max(s)}], seq[Max(s)])]
           Upto(k) == {s \in Sub : Cardinality(s) <= k}
           Is(k, g) == \A s \in Upto(k) :
                         g[s] = IF s = {} THEN base ELSE Op(a, g[s \ {Max(s)}], seq[Max(s)])
           W == {k \in Nat : \E g : Is(k, g)}
<1>0. \A s \in Sub : IsFiniteSet(s) /\ Cardinality(s) \in Nat
  <2>1. IsFiniteSet(1 .. n)
    BY FS_Interval
  <2> QED
    BY <2>1, FS_Subset, FS_CardinalityType
<1>1. 0 \in W
  <2> DEFINE g == [s \in Sub |-> base]
  <2>1. \A s \in Upto(0) : s = {}
    BY <1>0, FS_EmptySet
  <2>2. \A s \in Upto(0) : g[s] = base
    OBVIOUS
  <2> QED
    BY <2>1, <2>2
<1>2. ASSUME NEW k \in Nat, k \in W
      PROVE  k + 1 \in W
  <2>1. PICK g : \A s \in Upto(k) :
                    g[s] = IF s = {} THEN base ELSE Op(a, g[s \ {Max(s)}], seq[Max(s)])
    BY <1>2
  <2> DEFINE h == [s \in Sub |-> IF Cardinality(s) <= k THEN g[s]
                                 ELSE Op(a, g[s \ {Max(s)}], seq[Max(s)])]
  <2>2. \A s \in Upto(k) : h[s] = g[s]
    OBVIOUS
  <2>3. ASSUME NEW s \in Sub, s # {}, Cardinality(s) <= k + 1
        PROVE  s \ {Max(s)} \in Upto(k)
    <3>1. Max(s) \in s
      BY <2>3, MaxIn
    <3>2. Cardinality(s \ {Max(s)}) = Cardinality(s) - 1
      BY <1>0, <3>1, FS_RemoveElement
    <3>3. Cardinality(s) \in Nat /\ s \ {Max(s)} \in Sub
      BY <1>0
    <3> QED
      BY <2>3, <3>2, <3>3
  <2>4. ASSUME NEW s \in Upto(k + 1)
        PROVE  h[s] = IF s = {} THEN base ELSE Op(a, h[s \ {Max(s)}], seq[Max(s)])
    <3>1. CASE s \in Upto(k)
      <4>1. s # {} => s \ {Max(s)} \in Upto(k)
        BY <1>0, <2>3, <3>1
      <4> QED
        BY <2>1, <2>2, <3>1, <4>1
    <3>2. CASE s \notin Upto(k)
      <4>1. s # {}
        BY <3>2, FS_EmptySet
      <4>2. s \ {Max(s)} \in Upto(k)
        BY <2>3, <4>1
      <4>3. h[s] = Op(a, g[s \ {Max(s)}], seq[Max(s)])
        BY <3>2
      <4> QED
        BY <2>2, <4>1, <4>2, <4>3
    <3> QED
      BY <3>1, <3>2
  <2>5. Is(k + 1, h)
    BY <2>4
  <2> HIDE DEF h, Is
  <2> QED
    BY <2>5
<1>3. n \in W
  <2> HIDE DEF W
  <2> QED
    BY <1>1, <1>2, NatSetInduction
<1>4. PICK g : \A s \in Upto(n) :
                 g[s] = IF s = {} THEN base ELSE Op(a, g[s \ {Max(s)}], seq[Max(s)])
  BY <1>3
<1>5. \A s \in Sub : s \in Upto(n)
  <2>1. IsFiniteSet(1 .. n) /\ Cardinality(1 .. n) = n
    BY FS_Interval
  <2> SUFFICES ASSUME NEW s \in Sub PROVE Cardinality(s) <= n
    OBVIOUS
  <2>2. Cardinality(s) <= Cardinality(1 .. n)
    BY <2>1, FS_Subset
  <2> QED
    BY <2>1, <2>2
<1> DEFINE f == [s \in Sub |-> g[s]]
<1>6. f = Rec(f)
  <2>1. \A s \in Sub : s \ {Max(s)} \in Sub
    OBVIOUS
  <2>2. \A s \in Sub : f[s] = Rec(f)[s]
    BY <1>4, <1>5, <2>1
  <2> QED
    BY <2>2
<1> HIDE DEF f
<1> DEFINE iter == CHOOSE it : it = Rec(it)
<1>7. iter = Rec(iter)
  <2> HIDE DEF Rec
  <2> QED
    BY <1>6
<1>8. Fold(a, base, seq) = iter[1 .. n]
  BY DEF Fold, FoldLeft, MapThenFoldSet
<1> HIDE DEF iter
<1>9. Unfolds(iter, a, base, seq, n)
  BY <1>7, <1>8 DEF Unfolds
<1> QED
  BY <1>9

\* The values the fold takes on its way: one after the other, from left to right.
Steps(g, a, base, seq, n) ==
    /\ g[0] = base
    /\ \A i \in 1 .. n : g[i] = Op(a, g[i - 1], seq[i])
    /\ Fold(a, base, seq) = g[n]

LEMMA FoldSteps ==
    ASSUME NEW a, NEW base, NEW seq, NEW n \in Nat, DOMAIN seq = 1 .. n
    PROVE  \E g : Steps(g, a, base, seq, n)
<1>0. PICK iter : Unfolds(iter, a, base, seq, n)
  BY FoldRecursion
<1>1. /\ Fold(a, base, seq) = iter[1 .. n]
      /\ iter[{}] = base
      /\ \A s \in SUBSET (1 .. n) :
            s # {} => iter[s] = Op(a, iter[s \ {Max(s)}], seq[Max(s)])
  BY <1>0 DEF Unfolds
<1> DEFINE g == [i \in 0 .. n |-> iter[1 .. i]]
<1>2. g[0] = base
  <2>1. 1 .. 0 = {}
    OBVIOUS
  <2> QED
    BY <1>1, <2>1
<1>3. ASSUME NEW i \in 1 .. n
      PROVE  g[i] = Op(a, g[i - 1], seq[i])
  <2>1. i \in 1 .. i /\ 1 .. i \in SUBSET (1 .. n)
    OBVIOUS
  <2>2. Max(1 .. i) \in 1 .. i /\ \A j \in 1 .. i : Max(1 .. i) >= j
    BY <2>1, MaxIn
  <2>3. Max(1 .. i) = i
    BY <2>1, <2>2
  <2>4. (1 .. i) \ {i} = 1 .. (i - 1)
    OBVIOUS
  <2>5. iter[1 .. i] = Op(a, iter[1 .. (i - 1)], seq[i])
    BY <1>1, <2>1, <2>3, <2>4
  <2> QED
    BY <2>5
<1>4. Fold(a, base, seq) = g[n]
  BY <1>1
<1> HIDE DEF g
<1>5. Steps(g, a, base, seq, n)
  BY <1>2, <1>3, <1>4 DEF Steps
<1> QED
  BY <1>5
=============================================================================
