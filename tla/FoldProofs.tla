------------------------------ MODULE FoldProofs ------------------------------
(***************************************************************************)
(* Folds over finite sets, for the proofs about operators that take the    *)
(* elements of a set one at a time: the fold exists, and what each step    *)
(* keeps holds of all of it.                                               *)
(***************************************************************************)
EXTENDS Integers, FiniteSets, FiniteSetTheorems, WellFoundedInduction, TLAPS

\* A set of natural numbers that is not empty has a least one.
LEMMA Least ==
    ASSUME NEW S, S \subseteq Nat, S # {}
    PROVE  \E m \in S : \A o \in S : m <= o
<1> DEFINE Below == {ss \in Nat \X Nat : ss[1] < ss[2]}
<1>1. IsWellFoundedOn(Below, Nat)
  BY NatLessThanWellFounded, Zenon DEF OpToRel
<1>2. PICK m \in S : \A o \in S : <<o, m>> \notin Below
  BY <1>1, WFMin
<1>3. ASSUME NEW o \in S PROVE m <= o
  <2>1. <<o, m>> \in Nat \X Nat /\ <<o, m>> \notin Below /\ <<o, m>>[1] = o /\ <<o, m>>[2] = m
    BY <1>2
  <2>2. ~(o < m)
    BY <2>1
  <2> QED
    BY <2>2
<1> QED
  BY <1>3

\* The element a fold takes first, and what the rest of it is.
Pick(T) == CHOOSE x \in T : TRUE
Rest(T) == T \ {Pick(T)}

\* What holds of the empty set, and of every set that it holds of the rest of, holds
\* of all subsets of a finite set.
LEMMA FoldInduction ==
    ASSUME NEW S, IsFiniteSet(S), NEW G, {} \in G,
           \A T \in SUBSET S : T # {} /\ Rest(T) \in G => T \in G
    PROVE  SUBSET S \subseteq G
<1> DEFINE bad == {T \in SUBSET S : T \notin G}
           sizes == {Cardinality(T) : T \in bad}
<1> SUFFICES ASSUME bad # {} PROVE FALSE
  OBVIOUS
<1>1. \A T \in SUBSET S : IsFiniteSet(T) /\ Cardinality(T) \in Nat
  BY FS_Subset, FS_CardinalityType
<1>2. PICK m \in sizes : \A o \in sizes : m <= o
  <2>1. sizes \subseteq Nat /\ sizes # {}
    BY <1>1
  <2> QED
    BY <2>1, Least
<1>3. PICK T \in bad : m = Cardinality(T)
  BY <1>2
<1>4. T # {} /\ Pick(T) \in T
  BY <1>3 DEF Pick
<1>5. Cardinality(Rest(T)) = Cardinality(T) - 1 /\ Rest(T) \in SUBSET S
  BY <1>1, <1>3, <1>4, FS_RemoveElement DEF Rest
<1>6. Rest(T) \notin bad
  <2>1. m \in Nat /\ ~(m <= m - 1)
    BY <1>1, <1>3
  <2>2. m - 1 \notin sizes
    BY <1>2, <2>1
  <2> QED
    BY <1>3, <1>5, <2>2
<1> QED
  BY <1>3, <1>4, <1>5, <1>6

\* What a step h of a fold makes of it.
FoldStep(it, T, base, h) == IF T = {} THEN base ELSE h[<<Pick(T), it[Rest(T)]>>]

\* h takes an element of S and an accumulator to an accumulator; it is the fold.
Steps(h, S, Acc) == \A x \in S : \A a \in Acc : h[<<x, a>>] \in Acc
Folds(it, S, Acc, base, h) ==
    it \in [SUBSET S -> Acc] /\ \A T \in SUBSET S : it[T] = FoldStep(it, T, base, h)

\* A fold over a finite set exists.
LEMMA FoldExists ==
    ASSUME NEW S, IsFiniteSet(S), NEW Acc, NEW base \in Acc, NEW h, Steps(h, S, Acc)
    PROVE  \E it : Folds(it, S, Acc, base, h)
<1> DEFINE upTo(n) == {T \in SUBSET S : Cardinality(T) <= n}
           Rec(it, n) == /\ it \in [upTo(n) -> Acc]
                         /\ \A T \in upTo(n) : it[T] = FoldStep(it, T, base, h)
           none == {n \in Nat : \A it : ~Rec(it, n)}
<1>0. \A x \in S : \A a \in Acc : h[<<x, a>>] \in Acc
  BY DEF Steps
<1>1. \A T \in SUBSET S : IsFiniteSet(T) /\ Cardinality(T) \in Nat
  BY FS_Subset, FS_CardinalityType
<1>2. \A T \in SUBSET S : T # {} =>
        /\ Pick(T) \in T /\ Pick(T) \in S
        /\ Rest(T) \in SUBSET S /\ Cardinality(Rest(T)) = Cardinality(T) - 1
  BY <1>1, FS_RemoveElement DEF Pick, Rest
<1>3. Rec([T \in upTo(0) |-> base], 0)
  <2>1. \A T \in upTo(0) : T = {}
    BY <1>1, FS_EmptySet
  <2> QED
    BY <2>1 DEF FoldStep
<1>4. ASSUME NEW n \in Nat, NEW it, Rec(it, n) PROVE \E next : Rec(next, n + 1)
  <2> DEFINE next == [T \in upTo(n + 1) |-> FoldStep(it, T, base, h)]
  <2>1. ASSUME NEW T \in upTo(n + 1), T # {} PROVE Rest(T) \in upTo(n)
    BY <1>1, <1>2, <2>1
  <2>2. \A T \in upTo(n) : T \in upTo(n + 1) /\ next[T] = it[T]
    BY <1>1, <1>4
  <2>3. ASSUME NEW T \in upTo(n + 1)
        PROVE  next[T] = FoldStep(next, T, base, h) /\ next[T] \in Acc
    <3>1. CASE T = {}
      BY <3>1 DEF FoldStep
    <3>2. CASE T # {}
      <4>1. Rest(T) \in upTo(n) /\ Pick(T) \in S /\ it[Rest(T)] \in Acc
        BY <1>2, <1>4, <2>1, <3>2
      <4>2. next[Rest(T)] = it[Rest(T)]
        BY <2>2, <4>1
      <4>3. next[T] = h[<<Pick(T), it[Rest(T)]>>]
        BY <3>2 DEF FoldStep
      <4> QED
        BY <1>0, <3>2, <4>1, <4>2, <4>3 DEF FoldStep
    <3> QED
      BY <3>1, <3>2
  <2> QED
    BY <2>3
<1>5. none = {}
  <2> SUFFICES ASSUME none # {} PROVE FALSE
    OBVIOUS
  <2>1. PICK m \in none : \A o \in none : m <= o
    <3>1. none \subseteq Nat
      OBVIOUS
    <3> QED
      BY <3>1, Least
  <2>2. m # 0 /\ m \in Nat
    <3> HIDE DEF Rec
    <3> QED
      BY <1>3, <2>1
  <2>3. m - 1 \in Nat /\ m - 1 \notin none
    <3>1. m - 1 \in Nat /\ ~(m <= m - 1)
      BY <2>2
    <3> HIDE DEF none
    <3> QED
      BY <2>1, <3>1
  <2>4. PICK it : Rec(it, m - 1)
    BY <2>3
  <2>5. \E next : Rec(next, (m - 1) + 1)
    <3> HIDE DEF Rec
    <3> QED
      BY <1>4, <2>3, <2>4
  <2>6. (m - 1) + 1 = m
    BY <2>2
  <2> QED
    BY <2>1, <2>5, <2>6
<1>6. PICK it : Rec(it, Cardinality(S))
  BY <1>1, <1>5
<1>7. upTo(Cardinality(S)) = SUBSET S
  BY <1>1, FS_Subset
<1> QED
  BY <1>6, <1>7 DEF Folds
==============================================================================
