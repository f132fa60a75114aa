------------------------------ MODULE Induction ------------------------------
(* Induction over the natural numbers, for sets of numbers, and the functions that
   a recursive definition defines.  *)
EXTENDS Integers, FiniteSets, FiniteSetTheorems, WellFoundedInduction, TLAPS

\* Induction, for a set of numbers.
LEMMA SetInduction ==
    ASSUME NEW P \in SUBSET Nat, 0 \in P, \A n \in P : n + 1 \in P
    PROVE  P = Nat
  <1> DEFINE R == OpToRel(<, Nat)
  <1> SUFFICES ASSUME P # Nat PROVE FALSE
    OBVIOUS
  <1>1. IsWellFoundedOn(R, Nat)
    BY NatLessThanWellFounded
  <1> HIDE DEF R
  <1>2. PICK x \in Nat \ P : \A y \in Nat \ P : <<y, x>> \notin R
    BY <1>1, WFMin
  <1>3. x - 1 \in Nat /\ x - 1 < x /\ x - 1 + 1 = x
    OBVIOUS
  <1>4. <<x - 1, x>> \in R
    BY <1>3 DEF OpToRel, R
  <1> QED
    BY <1>2, <1>3, <1>4

\* A function can be applied over and over again.
Iterating(g, S, a, F) ==
    g \in [Nat -> S] /\ g[0] = a /\ \A n \in Nat : g[n + 1] = F[g[n]]
LEMMA Iterates ==
    ASSUME NEW S, NEW a \in S, NEW F \in [S -> S]
    PROVE  \E g : Iterating(g, S, a, F)
  <1> DEFINE Starts(h, n) == h[0] = a /\ \A k \in 0 .. n - 1 : h[k + 1] = F[h[k]]
             P == {n \in Nat : \E h \in [0 .. n -> S] : Starts(h, n)}
             Q == {n \in Nat : \A g, h \in [0 .. n -> S] :
                                 Starts(g, n) /\ Starts(h, n) => g = h}
  <1>1. P = Nat
    <2>1. 0 \in P
      <3> DEFINE h == [k \in 0 .. 0 |-> a]
      <3>1. h \in [0 .. 0 -> S] /\ Starts(h, 0)
        OBVIOUS
      <3> QED
        BY <3>1
    <2>2. ASSUME NEW n \in P PROVE n + 1 \in P
      <3>1. PICK h \in [0 .. n -> S] : Starts(h, n)
        OBVIOUS
      <3> DEFINE g == [k \in 0 .. n + 1 |-> IF k = n + 1 THEN F[h[n]] ELSE h[k]]
      <3>2. g \in [0 .. n + 1 -> S]
        OBVIOUS
      <3>3. g[0] = a
        BY <3>1
      <3>4. ASSUME NEW k \in 0 .. n PROVE g[k + 1] = F[g[k]]
        <4>1. CASE k = n
          BY <4>1
        <4>2. CASE k # n
          BY <4>2, <3>1
        <4> QED
          BY <4>1, <4>2
      <3> HIDE DEF g
      <3>5. Starts(g, n + 1)
        BY <3>3, <3>4
      <3> QED
        BY <3>2, <3>5
    <2> QED
      BY <2>1, <2>2, SetInduction
  <1>2. Q = Nat
    <2>1. 0 \in Q
      <3> SUFFICES ASSUME NEW g \in [0 .. 0 -> S], NEW h \in [0 .. 0 -> S],
                          Starts(g, 0), Starts(h, 0)
                   PROVE  g = h
        OBVIOUS
      <3> QED
        OBVIOUS
    <2>2. ASSUME NEW n \in Q PROVE n + 1 \in Q
      <3>0. n + 1 \in Nat
        OBVIOUS
      <3> SUFFICES ASSUME NEW g \in [0 .. n + 1 -> S], NEW h \in [0 .. n + 1 -> S],
                          Starts(g, n + 1), Starts(h, n + 1)
                   PROVE  g = h
        BY <3>0
      <3> DEFINE gg == [k \in 0 .. n |-> g[k]]
                 hh == [k \in 0 .. n |-> h[k]]
      <3>1. gg \in [0 .. n -> S] /\ hh \in [0 .. n -> S]
        OBVIOUS
      <3>2. Starts(gg, n) /\ Starts(hh, n)
        OBVIOUS
      <3>3. gg = hh
        BY <3>1, <3>2
      <3>4. ASSUME NEW k \in 0 .. n PROVE g[k] = h[k]
        BY <3>3
      <3>5. g[n + 1] = h[n + 1]
        BY <3>4
      <3> QED
        BY <3>4, <3>5
    <2> QED
      BY <2>1, <2>2, SetInduction
  <1> DEFINE nth(n) == CHOOSE h \in [0 .. n -> S] : Starts(h, n)
             g == [n \in Nat |-> nth(n)[n]]
  <1>3. ASSUME NEW n \in Nat PROVE nth(n) \in [0 .. n -> S] /\ Starts(nth(n), n)
    BY <1>1
  <1>4. g \in [Nat -> S]
    <2>1. ASSUME NEW n \in Nat PROVE nth(n)[n] \in S
      <3>1. n \in 0 .. n
        OBVIOUS
      <3> QED
        BY <1>3, <3>1
    <2> QED
      BY <2>1
  <1>5. g[0] = a
    BY <1>3
  <1>6. ASSUME NEW n \in Nat PROVE g[n + 1] = F[g[n]]
    <2> DEFINE h == [k \in 0 .. n |-> nth(n + 1)[k]]
    <2>0. n + 1 \in Nat
      OBVIOUS
    <2>1. nth(n + 1) \in [0 .. n + 1 -> S] /\ Starts(nth(n + 1), n + 1)
      BY <1>3, <2>0
    <2> HIDE DEF nth
    <2>2. h \in [0 .. n -> S] /\ Starts(h, n)
      BY <2>1
    <2>3. nth(n) = h
      BY <1>2, <1>3, <2>2
    <2>4. nth(n + 1)[n] = nth(n)[n]
      BY <2>3
    <2>5. nth(n + 1)[n + 1] = F[nth(n + 1)[n]]
      BY <2>1
    <2> QED
      BY <2>4, <2>5
  <1> HIDE DEF g
  <1> QED
    BY <1>4, <1>5, <1>6 DEF Iterating

\* Sets that grow within a finite set stop growing after as many steps as it has
\* elements.
LEMMA Saturates ==
    ASSUME NEW T, IsFiniteSet(T), NEW F \in [SUBSET T -> SUBSET T],
           \A V \in SUBSET T : V \subseteq F[V],
           NEW g, NEW a, Iterating(g, SUBSET T, a, F)
    PROVE  /\ Cardinality(T) \in Nat
           /\ F[g[Cardinality(T)]] = g[Cardinality(T)]
  <1> DEFINE P == {i \in Nat : F[g[i]] = g[i] \/ Cardinality(g[i]) >= i}
  <1>1. \A i \in Nat : g[i] \in SUBSET T /\ g[i + 1] = F[g[i]]
    BY DEF Iterating
  <1>2. \A V \in SUBSET T : IsFiniteSet(V) /\ Cardinality(V) \in Nat
    BY FS_Subset, FS_CardinalityType
  <1>3. Cardinality(T) \in Nat
    BY <1>2
  <1>4. 0 \in P
    BY <1>1, <1>2
  <1>5. ASSUME NEW i \in P PROVE i + 1 \in P
    <2>1. i \in Nat /\ i + 1 \in Nat
      OBVIOUS
    <2>2. PICK V, W : V = g[i] /\ W = g[i + 1]
      OBVIOUS
    <2>3. V \in SUBSET T /\ W \in SUBSET T /\ W = F[V] /\ V \subseteq W
      BY <1>1, <2>1, <2>2
    <2>4. CASE W = V
      <3>1. F[g[i + 1]] = g[i + 1]
        BY <2>2, <2>3, <2>4
      <3> QED
        BY <2>1, <3>1
    <2>5. CASE W # V
      <3>1. Cardinality(V) >= i
        BY <2>2, <2>3, <2>5
      <3>2. /\ IsFiniteSet(W) /\ Cardinality(V) <= Cardinality(W)
            /\ Cardinality(V) = Cardinality(W) => V = W
        BY <1>2, <2>3, FS_Subset
      <3>3. Cardinality(W) >= i + 1
        BY <1>2, <2>1, <2>3, <2>5, <3>1, <3>2
      <3> QED
        BY <2>1, <2>2, <3>3
    <2> QED
      BY <2>4, <2>5
  <1>6. P = Nat
    <2> HIDE DEF P
    <2>1. P \in SUBSET Nat
      BY DEF P
    <2> QED
      BY <1>4, <1>5, <2>1, SetInduction
  <1>7. PICK c, V : c = Cardinality(T) /\ V = g[c]
    OBVIOUS
  <1>8. V \in SUBSET T /\ F[V] \in SUBSET T
    BY <1>1, <1>3, <1>7
  <1>9. CASE Cardinality(V) >= c
    <2>1. Cardinality(V) <= c /\ (Cardinality(V) = c => V = T)
      BY <1>7, <1>8, FS_Subset
    <2>2. V = T
      BY <1>2, <1>3, <1>7, <1>8, <1>9, <2>1
    <2> QED
      BY <1>3, <1>7, <1>8, <2>2
  <1> QED
    BY <1>3, <1>6, <1>7, <1>9
=============================================================================
