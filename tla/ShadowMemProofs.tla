--------------------------- MODULE ShadowMemProofs ---------------------------
(***************************************************************************)
(* Proofs about ShadowMem: types, the numbers of shadow variables, the     *)
(* interface of a call, which its caller and its callee compute apart, and *)
(* that every use sees the last write of the bytes that it reads.          *)
(***************************************************************************)
EXTENDS ShadowMem, Induction, SequenceTheorems

-----------------------------------------------------------------------------
(* Sequences                                                               *)

\* A function of the step and of the last value can be applied over and over again.
IteratingWith(g, S, a, F) ==
    g \in [Nat -> S] /\ g[0] = a /\ \A n \in Nat : g[n + 1] = F[<<n, g[n]>>]
LEMMA IteratesWith ==
    ASSUME NEW S, NEW a \in S, NEW F \in [Nat \X S -> S]
    PROVE  \E g : IteratingWith(g, S, a, F)
  <1> DEFINE T == Nat \X S
             G == [p \in T |-> <<p[1] + 1, F[p]>>]
  <1>1. G \in [T -> T]
    OBVIOUS
  <1>2. <<0, a>> \in T
    OBVIOUS
  <1>3. \A p \in T : G[p] = <<p[1] + 1, F[p]>>
    OBVIOUS
  <1>4. PICK h : Iterating(h, T, <<0, a>>, G)
    <2> HIDE DEF G, T
    <2> QED
      BY <1>1, <1>2, Iterates
  <1>5. h \in [Nat -> T] /\ h[0] = <<0, a>> /\ \A n \in Nat : h[n + 1] = G[h[n]]
    BY <1>4 DEF Iterating
  <1> DEFINE P == {n \in Nat : h[n][1] = n}
  <1>6. P = Nat
    <2>1. 0 \in P
      BY <1>5
    <2>2. ASSUME NEW n \in P PROVE n + 1 \in P
      <3>1. h[n] \in T /\ h[n + 1] = <<h[n][1] + 1, F[h[n]]>>
        BY <1>3, <1>5
      <3>2. h[n + 1][1] = n + 1
        BY <3>1
      <3> QED
        BY <3>2
    <2>3. P \in SUBSET Nat
      OBVIOUS
    <2> HIDE DEF P
    <2> QED
      BY <2>1, <2>2, <2>3, SetInduction
  <1> DEFINE g == [n \in Nat |-> h[n][2]]
  <1>7. g \in [Nat -> S] /\ g[0] = a
    BY <1>5
  <1>8. ASSUME NEW n \in Nat PROVE g[n + 1] = F[<<n, g[n]>>]
    <2>1. h[n] \in T /\ h[n][1] = n
      BY <1>5, <1>6
    <2>2. h[n] = <<n, h[n][2]>>
      BY <2>1
    <2>3. h[n + 1] = <<h[n][1] + 1, F[h[n]]>>
      BY <1>3, <1>5, <2>1
    <2>4. h[n + 1][2] = F[h[n]]
      BY <2>3
    <2>5. n + 1 \in Nat
      OBVIOUS
    <2> QED
      BY <2>2, <2>4, <2>5
  <1> HIDE DEF g
  <1> QED
    BY <1>7, <1>8 DEF IteratingWith

\* The elements of a concatenation.
LEMMA ConcatElements ==
    ASSUME NEW S, NEW s \in Seq(S), NEW t \in Seq(S)
    PROVE  ToSet(s \o t) = ToSet(s) \cup ToSet(t)
  <1>1. /\ s \o t \in Seq(S) /\ Len(s \o t) = Len(s) + Len(t)
        /\ \A i \in 1 .. Len(s) + Len(t) :
             (s \o t)[i] = IF i <= Len(s) THEN s[i] ELSE t[i - Len(s)]
    BY ConcatProperties
  <1>2. Len(s) \in Nat /\ Len(t) \in Nat /\ DOMAIN s = 1 .. Len(s) /\ DOMAIN t = 1 .. Len(t)
    BY LenProperties
  <1>3. DOMAIN (s \o t) = 1 .. Len(s) + Len(t)
    BY <1>1, LenProperties
  <1>4. ASSUME NEW x \in ToSet(s \o t) PROVE x \in ToSet(s) \cup ToSet(t)
    <2>1. PICK i \in 1 .. Len(s) + Len(t) : x = (s \o t)[i]
      BY <1>3 DEF ToSet
    <2>2. CASE i <= Len(s)
      <3>1. i \in DOMAIN s /\ x = s[i]
        BY <1>1, <1>2, <2>1, <2>2
      <3> QED
        BY <3>1 DEF ToSet
    <2>3. CASE ~(i <= Len(s))
      <3>1. i - Len(s) \in DOMAIN t /\ x = t[i - Len(s)]
        BY <1>1, <1>2, <2>1, <2>3
      <3> QED
        BY <3>1 DEF ToSet
    <2> QED
      BY <2>2, <2>3
  <1>5. ASSUME NEW x \in ToSet(s) PROVE x \in ToSet(s \o t)
    <2>1. PICK i \in DOMAIN s : x = s[i]
      BY DEF ToSet
    <2>2. i \in 1 .. Len(s) + Len(t) /\ i <= Len(s)
      BY <1>2, <2>1
    <2>3. (s \o t)[i] = x
      BY <1>1, <2>1, <2>2
    <2> QED
      BY <1>3, <2>2, <2>3 DEF ToSet
  <1>6. ASSUME NEW x \in ToSet(t) PROVE x \in ToSet(s \o t)
    <2>1. PICK i \in DOMAIN t : x = t[i]
      BY DEF ToSet
    <2>2. PICK j : j = i + Len(s)
      OBVIOUS
    <2>3. j \in 1 .. Len(s) + Len(t) /\ ~(j <= Len(s)) /\ j - Len(s) = i
      BY <1>2, <2>1, <2>2
    <2>4. (s \o t)[j] = x
      BY <1>1, <2>1, <2>3
    <2> QED
      BY <1>3, <2>3, <2>4 DEF ToSet
  <1> QED
    BY <1>4, <1>5, <1>6

\* What FlattenSeq computes: a sequence of the elements of all sequences.
LEMMA FlattenElements ==
    ASSUME NEW S, NEW s \in Seq(Seq(S))
    PROVE  /\ FlattenSeq(s) \in Seq(S)
           /\ \A x : x \in ToSet(FlattenSeq(s)) <=> \E i \in DOMAIN s : x \in ToSet(s[i])
  <1> DEFINE n == Len(s)
             D == 1 .. n
             step(f) == [i \in D |-> IF i = 1 THEN s[i] ELSE f[i - 1] \o s[i]]
  <1>0. n \in Nat /\ DOMAIN s = D /\ \A i \in D : s[i] \in Seq(S)
    BY LenProperties, ElementOfSeq
  <1>1. CASE n = 0
    <2>1. FlattenSeq(s) = s
      BY <1>1 DEF FlattenSeq
    <2>2. s = <<>> /\ DOMAIN s = {}
      BY <1>0, <1>1
    <2>3. <<>> \in Seq(S) /\ ToSet(<<>>) = {}
      BY DEF ToSet
    <2> QED
      BY <2>1, <2>2, <2>3
  <1>2. CASE n # 0
    <2>0. 1 \in D /\ n \in D
      BY <1>0, <1>2
    <2> DEFINE F == [p \in Nat \X Seq(S) |->
                        IF p[1] + 1 \in D THEN p[2] \o s[p[1] + 1] ELSE <<>>]
    <2>1. F \in [Nat \X Seq(S) -> Seq(S)]
      <3> SUFFICES ASSUME NEW p \in Nat \X Seq(S)
                   PROVE  (IF p[1] + 1 \in D THEN p[2] \o s[p[1] + 1] ELSE <<>>) \in Seq(S)
        OBVIOUS
      <3>1. CASE p[1] + 1 \in D
        BY <1>0, <3>1, ConcatProperties
      <3> QED
        BY <3>1
    <2>2. \A k \in Nat, t \in Seq(S) : k + 1 \in D => F[<<k, t>>] = t \o s[k + 1]
      OBVIOUS
    <2>3. <<>> \in Seq(S)
      OBVIOUS
    <2> HIDE DEF F
    <2>4. PICK g : IteratingWith(g, Seq(S), <<>>, F)
      BY <2>1, <2>3, IteratesWith
    <2>41. /\ g \in [Nat -> Seq(S)] /\ g[0] = <<>>
           /\ \A k \in Nat : g[k + 1] = F[<<k, g[k]>>]
      BY <2>4 DEF IteratingWith
    <2> DEFINE f == [i \in D |-> g[i]]
    <2>5. \A i \in D : i \in Nat /\ i - 1 \in Nat /\ i - 1 + 1 = i
      BY <1>0
    <2>6. ASSUME NEW i \in D PROVE g[i] = g[i - 1] \o s[i]
      <3>1. PICK k \in Nat : k = i - 1 /\ k + 1 = i
        BY <2>5
      <3>2. g[k + 1] = g[k] \o s[k + 1]
        BY <2>2, <2>41, <3>1
      <3> QED
        BY <3>1, <3>2
    <2>7. f = step(f)
      <3>1. g[1] = s[1]
        <4>1. g[1] = g[0] \o s[1]
          <5>1. g[0 + 1] = F[<<0, g[0]>>] /\ 0 + 1 = 1
            BY <2>41
          <5> QED
            BY <2>0, <2>2, <2>41, <5>1
        <4>2. <<>> \o s[1] = s[1]
          BY <1>0, <2>0, ConcatEmptySeq
        <4> QED
          BY <2>41, <4>1, <4>2
      <3>2. ASSUME NEW i \in D, i # 1 PROVE g[i] = f[i - 1] \o s[i]
        <4>1. i - 1 \in D
          BY <1>0, <3>2
        <4>2. f[i - 1] = g[i - 1]
          BY <4>1
        <4> QED
          BY <2>6, <4>2
      <3> HIDE DEF D
      <3> QED
        BY <3>1, <3>2
    <2>8. PICK h : h = step(h) /\ FlattenSeq(s) = h[n]
      <3> DEFINE h == CHOOSE h : h = step(h)
      <3>1. h = step(h)
        BY <2>7
      <3>2. FlattenSeq(s) = h[n]
        BY <1>2 DEF FlattenSeq
      <3> QED
        BY <3>1, <3>2
    <2>9. h[1] = s[1] /\ \A i \in D : i # 1 => h[i] = h[i - 1] \o s[i]
      BY <2>0, <2>8
    <2> DEFINE Good(i) == /\ h[i] \in Seq(S)
                          /\ \A x : x \in ToSet(h[i]) <=> \E j \in 1 .. i : x \in ToSet(s[j])
               P == {k \in Nat : k + 1 \in D => Good(k + 1)}
    <2>10. 0 \in P
      <3>1. Good(1)
        BY <1>0, <2>0, <2>9
      <3> QED
        BY <3>1
    <2>11. ASSUME NEW k \in P PROVE k + 1 \in P
      <3>0. k \in Nat /\ k + 1 \in Nat
        OBVIOUS
      <3> SUFFICES ASSUME k + 1 + 1 \in D PROVE Good(k + 1 + 1)
        BY <3>0
      <3>1. PICK i, j : j = k + 1 /\ i = k + 1 + 1
        OBVIOUS
      <3>2. i \in D /\ i # 1 /\ j \in D /\ j = i - 1 /\ i \in Nat /\ j \in Nat
        BY <1>0, <3>0, <3>1
      <3>3. Good(j)
        BY <3>1, <3>2
      <3>4. h[i] = h[j] \o s[i]
        BY <2>9, <3>2
      <3>5. h[i] \in Seq(S) /\ ToSet(h[i]) = ToSet(h[j]) \cup ToSet(s[i])
        BY <1>0, <3>2, <3>3, <3>4, ConcatProperties, ConcatElements
      <3>6. 1 .. i = (1 .. j) \cup {i}
        BY <3>2
      <3>7. Good(i)
        BY <3>3, <3>5, <3>6
      <3> QED
        BY <3>1, <3>7
    <2>12. P = Nat
      <3>1. P \in SUBSET Nat
        OBVIOUS
      <3> HIDE DEF P
      <3> QED
        BY <2>10, <2>11, <3>1, SetInduction
    <2>13. Good(n)
      <3>1. PICK k \in Nat : k = n - 1 /\ k + 1 = n
        BY <2>0, <2>5
      <3>2. k + 1 \in D => Good(k + 1)
        BY <2>12
      <3> QED
        BY <2>0, <3>1, <3>2
    <2> QED
      BY <1>0, <2>8, <2>13
  <1> QED
    BY <1>1, <1>2

-----------------------------------------------------------------------------
(* Variables in the order of their nodes and offsets                       *)

\* Variables are ordered.
LEMMA BelowOrders ==
    ASSUME NEW x \in Nat \X Nat, NEW y \in Nat \X Nat, NEW z \in Nat \X Nat
    PROVE  /\ ~Below(x, x)
           /\ x # y => Below(x, y) \/ Below(y, x)
           /\ Below(x, y) /\ Below(y, z) => Below(x, z)
  <1>1. /\ x = <<x[1], x[2]>> /\ y = <<y[1], y[2]>>
        /\ x[1] \in Nat /\ x[2] \in Nat /\ y[1] \in Nat /\ y[2] \in Nat
        /\ z[1] \in Nat /\ z[2] \in Nat
    OBVIOUS
  <1>2. PICK a \in Nat, b \in Nat, c \in Nat, d \in Nat, e \in Nat, f \in Nat :
          x[1] = a /\ x[2] = b /\ y[1] = c /\ y[2] = d /\ z[1] = e /\ z[2] = f
    BY <1>1
  <1>3. x # y => a # c \/ b # d
    BY <1>1, <1>2
  <1>4. ~Below(x, x)
    BY <1>2 DEF Below
  <1>5. x # y => Below(x, y) \/ Below(y, x)
    BY <1>2, <1>3 DEF Below
  <1>6. Below(x, y) /\ Below(y, z) => Below(x, z)
    BY <1>2 DEF Below
  <1> QED
    BY <1>4, <1>5, <1>6

\* What InOrder computes: all elements of a set, each at its rank.
LEMMA InOrderLists ==
    ASSUME NEW S \in SUBSET (Nat \X Nat), IsFiniteSet(S)
    PROVE  InOrder(S) \in Seq(S) /\ ToSet(InOrder(S)) = S
  <1> DEFINE under(x) == {y \in S : Below(y, x)}
             rank(x) == Cardinality(under(x))
             c == Cardinality(S)
             R == [x \in S |-> rank(x) + 1]
  <1>1. c \in Nat
    BY FS_CardinalityType
  <1>2. ASSUME NEW x \in S PROVE rank(x) \in Nat /\ rank(x) + 1 <= c
    <2>1. under(x) \in SUBSET (S \ {x})
      BY BelowOrders
    <2>2. IsFiniteSet(S \ {x}) /\ Cardinality(S \ {x}) = c - 1
      BY FS_RemoveElement
    <2>3. IsFiniteSet(under(x)) /\ rank(x) <= c - 1
      BY <2>1, <2>2, FS_Subset
    <2>4. rank(x) \in Nat
      BY <2>3, FS_CardinalityType
    <2> QED
      BY <1>1, <2>3, <2>4
  <1>3. ASSUME NEW x \in S, NEW y \in S, Below(x, y) PROVE rank(x) < rank(y)
    <2>1. IsFiniteSet(under(y)) /\ under(x) \in SUBSET under(y)
      <3>1. IsFiniteSet(under(y))
        BY FS_Subset
      <3>2. ASSUME NEW z \in under(x) PROVE z \in under(y)
        BY <1>3, BelowOrders
      <3> QED
        BY <3>1, <3>2
    <2>2. x \in under(y) /\ x \notin under(x)
      BY <1>3, BelowOrders
    <2> HIDE DEF under
    <2>3. rank(x) <= rank(y) /\ rank(x) # rank(y)
      BY <2>1, <2>2, FS_Subset
    <2> QED
      BY <1>2, <2>3
  <1>4. R \in [S -> 1 .. c]
    <2>1. ASSUME NEW x \in S PROVE rank(x) + 1 \in 1 .. c
      <3>1. PICK r : r = rank(x)
        OBVIOUS
      <3>2. r \in Nat /\ r + 1 <= c
        BY <1>2, <3>1
      <3> QED
        BY <1>1, <3>1, <3>2
    <2> HIDE DEF rank
    <2> QED
      BY <2>1
  <1>5. ASSUME NEW x \in S, NEW y \in S, R[x] = R[y] PROVE x = y
    <2>1. rank(x) = rank(y) /\ rank(x) \in Nat
      <3>1. PICK r, t : r = rank(x) /\ t = rank(y)
        OBVIOUS
      <3>2. r \in Nat /\ t \in Nat /\ r + 1 = t + 1
        BY <1>2, <1>5, <3>1
      <3> QED
        BY <3>1, <3>2
    <2>2. ~Below(x, y) /\ ~Below(y, x)
      BY <1>3, <2>1
    <2> QED
      BY <2>2, BelowOrders
  <1> HIDE DEF R, c
  <1>6. ASSUME NEW k \in 1 .. c PROVE \E x \in S : R[x] = k
    <2>1. R \in Injection(S, 1 .. c)
      BY <1>4, <1>5 DEF Injection, IsInjective
    <2>2. IsFiniteSet(1 .. c) /\ Cardinality(1 .. c) = c
      BY <1>1, FS_Interval
    <2>3. R \in Surjection(S, 1 .. c)
      BY <2>1, <2>2, FS_Injection DEF c
    <2> QED
      BY <2>3 DEF Surjection
  <1>7. \A k \in 1 .. c : InOrder(S)[k] \in S /\ R[InOrder(S)[k]] = k
    <2> SUFFICES ASSUME NEW k \in 1 .. c
                 PROVE  InOrder(S)[k] \in S /\ R[InOrder(S)[k]] = k
      OBVIOUS
    <2>1. PICK x \in S : rank(x) = k - 1
      <3>1. PICK x \in S : rank(x) + 1 = k
        BY <1>6 DEF R
      <3>2. PICK r : r = rank(x)
        OBVIOUS
      <3>3. r \in Nat /\ r + 1 = k
        BY <1>2, <3>1, <3>2
      <3>4. r = k - 1
        BY <1>1, <3>3
      <3> QED
        BY <3>2, <3>4
    <2>2. PICK y : y = InOrder(S)[k]
      OBVIOUS
    <2>3. y = CHOOSE z \in S : rank(z) = k - 1
      BY <2>2 DEF InOrder, c
    <2>4. y \in S /\ rank(y) = k - 1
      BY <2>1, <2>3
    <2>5. rank(y) + 1 = k
      BY <1>1, <2>4
    <2> QED
      BY <2>2, <2>4, <2>5 DEF R
  <1>8. DOMAIN InOrder(S) = 1 .. c
    BY DEF InOrder, c
  <1>9. InOrder(S) \in Seq(S)
    <2>1. InOrder(S) = [k \in 1 .. c |-> InOrder(S)[k]]
      BY DEF InOrder, c
    <2> QED
      BY <1>1, <1>7, <2>1
  <1>10. ASSUME NEW x \in S PROVE \E k \in 1 .. c : InOrder(S)[k] = x
    <2>1. R[x] \in 1 .. c
      BY <1>4
    <2>2. InOrder(S)[R[x]] \in S /\ R[InOrder(S)[R[x]]] = R[x]
      BY <1>7, <2>1
    <2>3. InOrder(S)[R[x]] = x
      BY <1>5, <2>2
    <2> QED
      BY <2>1, <2>3
  <1>11. PICK q : q = InOrder(S)
    OBVIOUS
  <1>12. DOMAIN q = 1 .. c /\ (\A k \in 1 .. c : q[k] \in S)
         /\ (\A x \in S : \E k \in 1 .. c : q[k] = x)
    BY <1>7, <1>8, <1>10, <1>11
  <1>13. ToSet(q) = {q[k] : k \in 1 .. c}
    BY <1>12 DEF ToSet
  <1>14. ToSet(q) = S
    BY <1>12, <1>13
  <1> QED
    BY <1>9, <1>11, <1>14

\* A set of positions that is not empty has a last and a first one.
LEMMA MaxMin ==
    ASSUME NEW n \in Nat, NEW T \in SUBSET (1 .. n), T # {}
    PROVE  /\ Max(T) \in T /\ \A x \in T : x <= Max(T)
           /\ Min(T) \in T /\ \A x \in T : Min(T) <= x
  <1> DEFINE Ends(V) == /\ \E x \in V : \A y \in V : x >= y
                        /\ \E x \in V : \A y \in V : x =< y
             P == {k \in Nat : \A V \in SUBSET (1 .. k) : V # {} => Ends(V)}
  <1>1. 0 \in P
    <2>1. 1 .. 0 = {}
      OBVIOUS
    <2> QED
      BY <2>1
  <1>2. ASSUME NEW k \in P PROVE k + 1 \in P
    <2>1. k \in Nat /\ k + 1 \in Nat /\ \A V \in SUBSET (1 .. k) : V # {} => Ends(V)
      OBVIOUS
    <2> SUFFICES ASSUME NEW V \in SUBSET (1 .. k + 1), V # {} PROVE Ends(V)
      BY <2>1
    <2> DEFINE W == V \ {k + 1}
    <2>2. W \in SUBSET (1 .. k) /\ V \in SUBSET Int
      BY <2>1
    <2>3. CASE W = {}
      <3>1. V = {k + 1}
        BY <2>3
      <3> QED
        BY <2>1, <3>1
    <2>4. CASE W # {}
      <3>1. Ends(W)
        BY <2>1, <2>2, <2>4
      <3>2. \E x \in V : \A y \in V : x =< y
        <4>1. PICK x \in W : \A y \in W : x =< y
          BY <3>1
        <4>2. x =< k + 1 /\ x \in V
          BY <2>1, <2>2
        <4> QED
          BY <4>1, <4>2
      <3>3. \E x \in V : \A y \in V : x >= y
        <4>1. CASE k + 1 \in V
          <5>1. \A y \in V : k + 1 >= y
            BY <2>1
          <5> QED
            BY <4>1, <5>1
        <4>2. CASE k + 1 \notin V
          <5>1. W = V
            BY <4>2
          <5> QED
            BY <3>1, <5>1
        <4> QED
          BY <4>1, <4>2
      <3> QED
        BY <3>2, <3>3
    <2> QED
      BY <2>3, <2>4
  <1>3. P = Nat
    <2>1. P \in SUBSET Nat
      OBVIOUS
    <2> HIDE DEF P
    <2> QED
      BY <1>1, <1>2, <2>1, SetInduction
  <1>4. Ends(T) /\ T \in SUBSET Int
    BY <1>3
  <1>5. Max(T) \in T /\ \A x \in T : Max(T) >= x
    BY <1>4 DEF Max
  <1>6. Min(T) \in T /\ \A x \in T : Min(T) =< x
    BY <1>4 DEF Min
  <1> QED
    BY <1>4, <1>5, <1>6

-----------------------------------------------------------------------------
(* The numbers of variables                                                *)

\* Numbers of nodes: those of two nodes are apart.
Taken(w, n) == w.base[n] # None
Numbers == [base : [Node -> Nat \cup {None}], max : Nat]
NumbersApart(w) ==
    /\ \A n \in Node : Taken(w, n) => w.base[n] + Width(n) <= w.max
    /\ \A m, n \in Node : m # n /\ Taken(w, m) /\ Taken(w, n) =>
         w.base[m] + Width(m) <= w.base[n] \/ w.base[n] + Width(n) <= w.base[m]
NumbersOK(w) == w \in Numbers /\ NumbersApart(w)

\* Nodes keep their numbers.
Extends(w, v) == \A n \in Node : Taken(w, n) => w.base[n] = v.base[n]

\* A step of IdsFor.
NumberNode(w, n) ==
    IF w.base[n] # None THEN w
    ELSE [base |-> [w.base EXCEPT ![n] = w.max], max |-> w.max + Width(n)]

\* Widths are positive.
LEMMA WidthPositive ==
    ASSUME NEW n \in Node
    PROVE  Width(n) \in Nat /\ Width(n) # 0
  BY GraphAssumption DEF Width

\* A number for one more node.
LEMMA NumberNodeApart ==
    ASSUME NEW w, NumbersOK(w), NEW n \in Node
    PROVE  LET v == NumberNode(w, n)
           IN  NumbersOK(v) /\ Extends(w, v) /\ Taken(v, n)
  <1> DEFINE v == NumberNode(w, n)
  <1>1. /\ w \in Numbers /\ w.base \in [Node -> Nat \cup {None}] /\ w.max \in Nat
        /\ NumbersApart(w)
    BY DEF NumbersOK, Numbers
  <1>2. CASE w.base[n] # None
    BY <1>2 DEF NumberNode, Extends, Taken
  <1>3. CASE w.base[n] = None
    <2>0. Width(n) \in Nat /\ \A m \in Node : Width(m) \in Nat
      BY WidthPositive
    <2>1. v = [base |-> [w.base EXCEPT ![n] = w.max], max |-> w.max + Width(n)]
      BY <1>3 DEF NumberNode
    <2>2. /\ v.base = [w.base EXCEPT ![n] = w.max] /\ v.max = w.max + Width(n)
          /\ v.base[n] = w.max
          /\ \A m \in Node : m # n => v.base[m] = w.base[m]
      BY <1>1, <2>1
    <2>3. v \in Numbers
      BY <1>1, <2>0, <2>1 DEF Numbers
    <2>4. Taken(v, n) /\ Extends(w, v)
      BY <1>1, <1>3, <2>2 DEF Taken, Extends, None
    <2> HIDE DEF v
    <2>5. ASSUME NEW m \in Node, Taken(v, m) PROVE v.base[m] + Width(m) <= v.max
      <3>1. CASE m = n
        <4>1. PICK a \in Nat, b \in Nat : a = w.max /\ b = Width(n)
          BY <1>1, <2>0
        <4> QED
          BY <2>2, <3>1, <4>1
      <3>2. CASE m # n
        <4>1. v.base[m] = w.base[m] /\ Taken(w, m)
          BY <2>2, <2>5, <3>2 DEF Taken
        <4>2. w.base[m] + Width(m) <= w.max
          BY <1>1, <4>1 DEF NumbersApart
        <4>3. PICK a \in Nat, b \in Nat, c \in Nat, d \in Nat :
                a = w.max /\ b = Width(n) /\ c = Width(m) /\ d = w.base[m]
          BY <1>1, <2>0, <4>1 DEF Taken
        <4> QED
          BY <2>2, <4>1, <4>2, <4>3
      <3> QED
        BY <3>1, <3>2
    <2>6. ASSUME NEW m \in Node, m # n, Taken(v, m)
          PROVE  v.base[m] + Width(m) <= v.base[n]
      <3>1. v.base[m] = w.base[m] /\ Taken(w, m)
        BY <2>2, <2>6 DEF Taken
      <3>2. w.base[m] + Width(m) <= w.max
        BY <1>1, <3>1 DEF NumbersApart
      <3> QED
        BY <2>2, <3>1, <3>2
    <2>7. ASSUME NEW l \in Node, NEW m \in Node, l # m, Taken(v, l), Taken(v, m)
          PROVE  v.base[l] + Width(l) <= v.base[m] \/ v.base[m] + Width(m) <= v.base[l]
      <3>1. CASE l = n
        BY <2>6, <2>7, <3>1
      <3>2. CASE m = n
        BY <2>6, <2>7, <3>2
      <3>3. CASE l # n /\ m # n
        <4>1. v.base[l] = w.base[l] /\ v.base[m] = w.base[m] /\ Taken(w, l) /\ Taken(w, m)
          BY <2>2, <2>7, <3>3 DEF Taken
        <4> QED
          BY <1>1, <2>7, <4>1 DEF NumbersApart
      <3> QED
        BY <3>1, <3>2, <3>3
    <2>8. NumbersApart(v)
      BY <2>5, <2>7 DEF NumbersApart
    <2> QED
      BY <2>3, <2>4, <2>8 DEF NumbersOK, v
  <1> QED
    BY <1>2, <1>3

\* What IdsFor computes: the numbers stay apart, none is changed, and every variable
\* has one.
LEMMA IdsForNumbers ==
    ASSUME NEW w, NumbersOK(w), NEW xs \in Seq(Node \X Nat)
    PROVE  /\ NumbersOK(IdsFor(w, xs)) /\ Extends(w, IdsFor(w, xs))
           /\ \A k \in DOMAIN xs : Taken(IdsFor(w, xs), xs[k][1])
  <1> DEFINE c == Len(xs)
             step(f) == [k \in 0 .. c |-> IF k = 0 THEN w ELSE NumberNode(f[k - 1], xs[k][1])]
             S == {v \in Numbers : NumbersApart(v)}
             F == [p \in Nat \X S |-> IF p[1] + 1 \in 1 .. c
                                      THEN NumberNode(p[2], xs[p[1] + 1][1]) ELSE p[2]]
  <1>0. c \in Nat /\ DOMAIN xs = 1 .. c /\ \A k \in 1 .. c : xs[k][1] \in Node
    <2>1. c \in Nat /\ DOMAIN xs = 1 .. c
      BY LenProperties
    <2>2. ASSUME NEW k \in 1 .. c PROVE xs[k][1] \in Node
      <3>1. xs[k] \in Node \X Nat
        BY ElementOfSeq
      <3> QED
        BY <3>1
    <2> QED
      BY <2>1, <2>2
  <1>1. \A v : v \in S <=> NumbersOK(v)
    BY DEF NumbersOK
  <1>2. w \in S
    BY <1>1
  <1>3. \A v \in S, k \in 1 .. c : NumberNode(v, xs[k][1]) \in S
    <2> SUFFICES ASSUME NEW v \in S, NEW k \in 1 .. c PROVE NumberNode(v, xs[k][1]) \in S
      OBVIOUS
    <2> HIDE DEF S
    <2> QED
      BY <1>0, <1>1, NumberNodeApart
  <1> HIDE DEF S
  <1>4. F \in [Nat \X S -> S]
    <2> SUFFICES ASSUME NEW p \in Nat \X S
                 PROVE  (IF p[1] + 1 \in 1 .. c
                         THEN NumberNode(p[2], xs[p[1] + 1][1]) ELSE p[2]) \in S
      OBVIOUS
    <2>1. p[2] \in S
      OBVIOUS
    <2> QED
      BY <1>3, <2>1
  <1>5. \A k \in Nat, v \in S : k + 1 \in 1 .. c => F[<<k, v>>] = NumberNode(v, xs[k + 1][1])
    OBVIOUS
  <1> HIDE DEF F
  <1>6. PICK g : IteratingWith(g, S, w, F)
    BY <1>2, <1>4, IteratesWith
  <1>7. g \in [Nat -> S] /\ g[0] = w /\ \A k \in Nat : g[k + 1] = F[<<k, g[k]>>]
    BY <1>6 DEF IteratingWith
  <1> DEFINE f == [k \in 0 .. c |-> g[k]]
  <1>8. f = step(f)
    <2>1. ASSUME NEW k \in 0 .. c, k # 0 PROVE g[k] = NumberNode(f[k - 1], xs[k][1])
      <3>1. PICK j : j = k - 1
        OBVIOUS
      <3>2. j \in Nat /\ j + 1 = k /\ j + 1 \in 1 .. c /\ j \in 0 .. c
        BY <1>0, <2>1, <3>1
      <3>3. g[j + 1] = NumberNode(g[j], xs[j + 1][1])
        BY <1>5, <1>7, <3>2
      <3>4. f[j] = g[j]
        BY <3>2
      <3> HIDE DEF f
      <3> QED
        BY <3>1, <3>2, <3>3, <3>4
    <2>2. 0 \in 0 .. c => g[0] = w
      BY <1>7
    <2> QED
      BY <2>1, <2>2
  <1>9. PICK h : h = step(h) /\ IdsFor(w, xs) = h[c]
    <2> DEFINE h == CHOOSE h : h = step(h)
    <2>1. h = step(h)
      BY <1>8
    <2>2. IdsFor(w, xs) = h[c]
      BY DEF IdsFor, NumberNode
    <2> QED
      BY <2>1, <2>2
  <1>10. /\ h[0] = w
         /\ \A k \in Nat : k + 1 \in 1 .. c => h[k + 1] = NumberNode(h[k], xs[k + 1][1])
    <2>1. h[0] = w
      <3>1. 0 \in 0 .. c
        BY <1>0
      <3> QED
        BY <1>9, <3>1
    <2>2. ASSUME NEW k \in Nat, k + 1 \in 1 .. c
          PROVE  h[k + 1] = NumberNode(h[k], xs[k + 1][1])
      <3>1. PICK i : i = k + 1
        OBVIOUS
      <3>2. i \in 0 .. c /\ i # 0 /\ i - 1 = k
        BY <1>0, <2>2, <3>1
      <3>3. h[i] = NumberNode(h[i - 1], xs[i][1])
        BY <1>9, <3>2
      <3> QED
        BY <3>1, <3>2, <3>3
    <2> QED
      BY <2>1, <2>2
  <1> DEFINE Good(k) == /\ NumbersOK(h[k]) /\ Extends(w, h[k])
                        /\ \A j \in 1 .. k : Taken(h[k], xs[j][1])
             P == {k \in Nat : k \in 0 .. c => Good(k)}
  <1>11. 0 \in P
    <2>1. NumbersOK(w) /\ Extends(w, w) /\ 1 .. 0 = {}
      BY DEF Extends
    <2> QED
      BY <1>10, <2>1
  <1>12. ASSUME NEW k \in P PROVE k + 1 \in P
    <2>0. k \in Nat /\ k + 1 \in Nat
      OBVIOUS
    <2> SUFFICES ASSUME k + 1 \in 0 .. c PROVE Good(k + 1)
      BY <2>0
    <2>1. k \in 0 .. c /\ k + 1 \in 1 .. c
      BY <1>0, <2>0
    <2>2. PICK i, v, n : i = k + 1 /\ v = h[k] /\ n = xs[k + 1][1]
      OBVIOUS
    <2>3. h[i] = NumberNode(v, n) /\ n \in Node
      BY <1>0, <1>10, <2>0, <2>1, <2>2
    <2>4. NumbersOK(v) /\ Extends(w, v) /\ \A j \in 1 .. k : Taken(v, xs[j][1])
      BY <2>1, <2>2
    <2>5. NumbersOK(h[i]) /\ Extends(v, h[i]) /\ Taken(h[i], n)
      BY <2>3, <2>4, NumberNodeApart
    <2>6. Extends(w, h[i])
      BY <2>4, <2>5 DEF Extends, Taken
    <2>7. ASSUME NEW j \in 1 .. i PROVE Taken(h[i], xs[j][1])
      <3>1. CASE j = i
        BY <2>2, <2>5, <3>1
      <3>2. CASE j # i
        <4>1. j \in 1 .. k /\ j \in 1 .. c
          BY <1>0, <2>0, <2>1, <2>2, <3>2
        <4>2. Taken(v, xs[j][1]) /\ xs[j][1] \in Node
          BY <1>0, <2>4, <4>1
        <4> QED
          BY <2>5, <4>2 DEF Extends, Taken
      <3> QED
        BY <3>1, <3>2
    <2> QED
      BY <2>2, <2>5, <2>6, <2>7
  <1>13. P = Nat
    <2>1. P \in SUBSET Nat
      OBVIOUS
    <2> HIDE DEF P
    <2> QED
      BY <1>11, <1>12, <2>1, SetInduction
  <1>14. Good(c)
    BY <1>0, <1>13
  <1> QED
    BY <1>0, <1>9, <1>14

-----------------------------------------------------------------------------
(* The interface of a function                                             *)

\* What is reachable are nodes.
LEMMA ReachableNodes ==
    ASSUME NEW S \in SUBSET Node
    PROVE  Reachable(S) \subseteq Node
  <1> DEFINE grown(V) == V \cup UNION {Points[n] : n \in V}
             F == [V \in SUBSET Node |-> grown(V)]
             step(f) == [i \in Nat |-> IF i = 0 THEN S ELSE grown(f[i - 1])]
             c == Cardinality(Node)
  <1>0. c \in Nat
    BY GraphAssumption, FS_CardinalityType
  <1>1. \A V \in SUBSET Node : grown(V) \in SUBSET Node
    <2> SUFFICES ASSUME NEW V \in SUBSET Node, NEW n \in V PROVE Points[n] \subseteq Node
      OBVIOUS
    <2> QED
      BY GraphAssumption
  <1>2. F \in [SUBSET Node -> SUBSET Node] /\ \A V \in SUBSET Node : F[V] = grown(V)
    BY <1>1
  <1> HIDE DEF F, grown
  <1>3. PICK g : Iterating(g, SUBSET Node, S, F)
    BY <1>2, Iterates
  <1>4. g \in [Nat -> SUBSET Node] /\ g[0] = S /\ \A i \in Nat : g[i + 1] = grown(g[i])
    BY <1>2, <1>3 DEF Iterating
  <1>5. g = step(g)
    <2>1. ASSUME NEW i \in Nat, i # 0 PROVE g[i] = grown(g[i - 1])
      <3>1. i - 1 \in Nat /\ i - 1 + 1 = i
        BY <2>1
      <3> QED
        BY <1>4, <3>1
    <2> QED
      BY <1>4, <2>1
  <1>6. PICK h : h = step(h) /\ Reachable(S) = h[c]
    <2> DEFINE h == CHOOSE h : h = step(h)
    <2>1. h = step(h)
      BY <1>5
    <2>2. Reachable(S) = h[c]
      BY DEF Reachable, grown
    <2> QED
      BY <2>1, <2>2
  <1> DEFINE P == {i \in Nat : h[i] \in SUBSET Node}
  <1>7. 0 \in P
    <2>1. h[0] = S
      BY <1>6
    <2> QED
      BY <2>1
  <1>8. ASSUME NEW i \in P PROVE i + 1 \in P
    <2>1. PICK j : j = i + 1
      OBVIOUS
    <2>2. j \in Nat /\ j # 0 /\ j - 1 = i
      BY <2>1
    <2>3. h[j] = grown(h[j - 1])
      BY <1>6, <2>2
    <2> QED
      BY <1>1, <2>1, <2>2, <2>3
  <1>9. P = Nat
    <2>1. P \in SUBSET Nat
      OBVIOUS
    <2> HIDE DEF P
    <2> QED
      BY <1>7, <1>8, <2>1, SetInduction
  <1> QED
    BY <1>0, <1>6, <1>9

\* The nodes of an interface.
LEMMA ReachNodes ==
    ASSUME NEW f \in Function
    PROVE  Reach(f) \subseteq Node
  BY ReachableNodes, GraphAssumption DEF Reach

\* Shadow variables of nodes.
Variables == {x \in Node \X Nat : x[2] \in Slots(x[1])}

\* Nodes have finitely many fields, and these have variables.
LEMMA FieldsFinite ==
    ASSUME NEW n \in Node
    PROVE  IsFiniteSet(Fields(n)) /\ Fields(n) \subseteq Slots(n) /\ Slots(n) \subseteq Nat
           /\ Fields(n) \subseteq Types[n] \cup {0}
  <1>1. Size[n] \in Nat /\ Types[n] \subseteq Nat /\ \A o \in Types[n] : o = 0 \/ o < Size[n]
    BY GraphAssumption
  <1>2. Types[n] \subseteq 0 .. Width(n) - 1
    <2> SUFFICES ASSUME NEW o \in Types[n] PROVE o \in 0 .. Width(n) - 1
      OBVIOUS
    <2>1. o \in Nat /\ (o = 0 \/ o < Size[n])
      BY <1>1
    <2>2. CASE Size[n] = 0
      BY <1>1, <2>1, <2>2 DEF Width
    <2>3. CASE Size[n] # 0
      BY <1>1, <2>1, <2>3 DEF Width
    <2> QED
      BY <2>2, <2>3
  <1>3. Width(n) \in Nat
    BY WidthPositive
  <1>4. IsFiniteSet(0 .. Width(n) - 1)
    BY <1>3, FS_Interval
  <1>5. IsFiniteSet(Types[n])
    BY <1>2, <1>4, FS_Subset
  <1>6. IsFiniteSet({0})
    BY FS_Singleton
  <1>7. n \in Array => Types[n] \subseteq 0 .. Size[n] - 1 /\ 0 \in 0 .. Size[n] - 1
    <2> SUFFICES ASSUME n \in Array
                 PROVE  Types[n] \subseteq 0 .. Size[n] - 1 /\ 0 \in 0 .. Size[n] - 1
      OBVIOUS
    <2>1. Size[n] # 0
      BY GraphAssumption
    <2>2. Width(n) = Size[n]
      BY <2>1 DEF Width
    <2> QED
      BY <1>1, <1>2, <2>1, <2>2
  <1>8. Slots(n) \subseteq Nat
    BY <1>1 DEF Slots
  <1>9. Fields(n) \subseteq Slots(n)
    BY <1>1, <1>7 DEF Fields, Slots
  <1> QED
    BY <1>5, <1>6, <1>8, <1>9 DEF Fields

\* The fields of an interface, as a set.
FieldsOf(f) == UNION {{n} \X Fields(n) : n \in Reach(f) \cap (read \cup mod)}

\* What Interface lists.
LEMMA InterfaceLists ==
    ASSUME NEW f \in Function
    PROVE  /\ Interface(f) \in Seq(Node \X Nat) /\ ToSet(Interface(f)) = FieldsOf(f)
           /\ DOMAIN Interface(f) = 1 .. Len(Interface(f)) /\ Len(Interface(f)) \in Nat
           /\ \A k \in DOMAIN Interface(f) :
                LET x == Interface(f)[k]
                IN  /\ x \in Variables /\ x[1] \in Reach(f) /\ x[1] \in read \cup mod
                    /\ x[2] \in Types[x[1]] \cup {0}
  <1> DEFINE A == Reach(f) \cap (read \cup mod)
             G == [n \in A |-> {n} \X Fields(n)]
             B == {{n} \X Fields(n) : n \in A}
             S == FieldsOf(f)
  <1>1. A \subseteq Node
    BY ReachNodes
  <1>2. IsFiniteSet(A)
    BY <1>1, GraphAssumption, FS_Subset
  <1>3. G \in Surjection(A, B)
    BY DEF Surjection
  <1>4. IsFiniteSet(B)
    <2> HIDE DEF A, B, G
    <2> QED
      BY <1>2, <1>3, FS_Surjection
  <1>5. \A T \in B : IsFiniteSet(T)
    <2> SUFFICES ASSUME NEW n \in A PROVE IsFiniteSet({n} \X Fields(n))
      OBVIOUS
    <2>1. IsFiniteSet({n}) /\ IsFiniteSet(Fields(n))
      BY <1>1, FS_Singleton, FieldsFinite
    <2> QED
      BY <2>1, FS_Product
  <1>6. IsFiniteSet(S)
    <2>1. S = UNION B
      BY DEF FieldsOf
    <2> HIDE DEF B, S
    <2> QED
      BY <1>4, <1>5, <2>1, FS_UNION
  <1>7. ASSUME NEW x \in S
        PROVE  /\ x \in Variables /\ x[1] \in Reach(f) /\ x[1] \in read \cup mod
               /\ x[2] \in Types[x[1]] \cup {0}
    <2>1. PICK n \in A : x \in {n} \X Fields(n)
      BY DEF FieldsOf
    <2>2. x[1] = n /\ x[2] \in Fields(n) /\ x = <<x[1], x[2]>> /\ n \in Node
      BY <1>1, <2>1
    <2>3. x[2] \in Slots(n) /\ x[2] \in Nat /\ x[2] \in Types[n] \cup {0}
      BY <2>2, FieldsFinite
    <2>4. x \in Node \X Nat
      BY <2>2, <2>3
    <2> QED
      BY <2>2, <2>3, <2>4 DEF Variables
  <1>8. S \in SUBSET (Nat \X Nat) /\ S \subseteq Node \X Nat
    <2>1. \A x \in S : x \in Node \X Nat
      BY <1>7 DEF Variables
    <2>2. Node \X Nat \subseteq Nat \X Nat
      BY GraphAssumption
    <2> QED
      BY <2>1, <2>2
  <1>9. Interface(f) = InOrder(S)
    BY DEF Interface, FieldsOf
  <1> HIDE DEF S
  <1>10. InOrder(S) \in Seq(S) /\ ToSet(InOrder(S)) = S
    BY <1>6, <1>8, InOrderLists
  <1>11. Interface(f) \in Seq(Node \X Nat)
    BY <1>8, <1>9, <1>10, SeqMonotonic
  <1>12. DOMAIN Interface(f) = 1 .. Len(Interface(f)) /\ Len(Interface(f)) \in Nat
    BY <1>11, LenProperties
  <1>13. \A k \in DOMAIN Interface(f) : Interface(f)[k] \in S
    BY <1>9, <1>10 DEF ToSet
  <1> QED
    BY <1>7, <1>9, <1>10, <1>11, <1>12, <1>13 DEF S

-----------------------------------------------------------------------------
(* The inductive invariant                                                 *)

\* What pseudo-instructions say about fields: their indices and their variables.
Says(ops, at, names) ==
    {<<p.idx, p.var>> : p \in {q \in ops : q.op \in names /\ q.at = at}}

\* What a call passes to the callee and gets from it, by the fields of the callee's
\* interface; the markers of the callee say the same of themselves.
Received(g) == {k \in DOMAIN Interface(g) : Interface(g)[k][1] \notin OnlyReturned(g)}
Changed(g) == {k \in DOMAIN Interface(g) : Interface(g)[k][1] \in mod}
Passed(g, indices) == {<<k, ShadowOf(InCaller(Interface(g)[k]))>> : k \in indices}
Marked(g, indices) == {<<k, Interface(g)[k]>> : k \in indices}

CallSays(g, ops, at) ==
    /\ Says(ops, at, {"arg_ref", "arg_mod"}) = Passed(g, Received(g))
    /\ Says(ops, at, {"arg_mod", "arg_new"}) = Passed(g, Changed(g))
MarkersSay(g, ops, at) ==
    /\ Says(ops, at, {"in"}) = Marked(g, Received(g))
    /\ Says(ops, at, {"out"}) = Marked(g, Changed(g))

\* A function has been instrumented, or is being visited.
Complete(f) ==
    /\ f \in ToSet(ModuleOrder)
    /\ f \notin ToSet(todo) \/ (f = fn /\ phase \in {"solve", "end"})
Visiting(f) == f = fn /\ phase = "visit"

Operations == {"global_init", "init", "arg_init", "load", "store", "trsfr_load",
               "arg_ref", "arg_mod", "arg_new", "in", "out"}
PseudoOps == [op : Operations, var : Node \X Nat, at : Nat,
              ptr : Value \cup {NoValue}, bytes : Nat, idx : Nat]
LateOps == {"init", "arg_init", "in", "out"}     \* put at the end of the visit
CallOps == {"arg_ref", "arg_mod", "arg_new"}

\* A pseudo-instruction of an access is about the variable of the cell it accesses.
Placed(f, p) ==
    p.ptr # NoValue => Cell[f][p.ptr] # NoCell /\ p.var = ShadowOf(Cell[f][p.ptr])
\* Register d as an operand of the k-th pseudo-instruction of cs.
OperandOK(cs, k, d) ==
    d < k /\ (d > 0 => IsDef(cs[d]) /\ cs[d].var = cs[k].var)
AllInstructions == UNION {Instruction[f] : f \in Function}

\* The functions to come are the rest of the module.
OrderInv ==
    /\ fn \in Function /\ fn \in ToSet(ModuleOrder)
    /\ phase \in {"begin", "visit", "solve", "end", "done"}
    /\ \E d \in 0 .. Len(ModuleOrder) :
         /\ todo \in Seq(Function) /\ Len(todo) = Len(ModuleOrder) - d
         /\ \A j \in 1 .. Len(todo) : todo[j] = ModuleOrder[d + j]
    /\ phase = "done" <=> todo = <<>>
    /\ todo # <<>> => fn = Head(todo)

\* The instructions of a function, and when it is begun and ended.
BodyInv(f) ==
    /\ body[f] \in Seq(Instruction[f]) /\ Len(body[f]) <= MaxBody[f]
    /\ region[f].to \in Int /\ region[f].to <= Len(body[f])
    /\ arg[f] = <<>> \/ arg[f] \in [1 .. Len(code[f]) -> None .. Len(code[f])]
    /\ \A k \in DOMAIN arg[f] : OperandOK(code[f], k, arg[f][k])
    /\ ~Complete(f) /\ ~Visiting(f) => body[f] = <<>> /\ code[f] = <<>>
    /\ ~Complete(f) => region[f].to = 0 /\ arg[f] = <<>>

\* Its pseudo-instructions.
CodeInv(f) ==
    /\ code[f] \in Seq(PseudoOps)
    /\ \A p \in ToSet(code[f]) :
         /\ p.var \in Variables /\ Taken(ids, p.var[1]) /\ Placed(f, p)
         /\ ~Complete(f) => p.at <= Len(body[f]) /\ p.op \notin LateOps

\* What its calls and its markers say.
CallsInv(f) ==
    /\ \A i \in DOMAIN body[f] : body[f][i].op = "call" =>
         body[f][i].callee \in Function /\ CallSays(body[f][i].callee, ToSet(code[f]), i)
    /\ Complete(f) /\ f \in Returns =>
         MarkersSay(f, ToSet(code[f]), Len(body[f]) + 1)

FunctionInv(f) == BodyInv(f) /\ CodeInv(f) /\ CallsInv(f)

\* The state of solveUses.
SolveInv ==
    /\ use \in 0 .. Len(code[fn]) /\ def \in None .. Len(code[fn])
    /\ prev \in None .. Len(code[fn])
    /\ phase = "solve" => /\ use \in 1 .. Len(code[fn])
                          /\ arg[fn] \in [1 .. Len(code[fn]) -> None .. Len(code[fn])]
                          /\ OperandOK(code[fn], use, def)
                          /\ prev # None => prev > 0 /\ OperandOK(code[fn], use, prev)

TypeInv ==
    /\ split \in BOOLEAN /\ read \subseteq Node /\ mod \subseteq Node
    /\ DOMAIN code = Function /\ DOMAIN body = Function
    /\ DOMAIN region = Function /\ DOMAIN arg = Function
    /\ shadows \subseteq Variables /\ IsFiniteSet(shadows)

ShadowInv ==
    /\ TypeInv /\ OrderInv /\ SolveInv /\ NumbersOK(ids)
    /\ \A f \in Function : FunctionInv(f)

-----------------------------------------------------------------------------
(* What follows from it                                                    *)

\* The interface of a function does not depend on what is being instrumented.
LEMMA FlagsStay ==
    ASSUME UNCHANGED flags
    PROVE  /\ Variables' = Variables
           /\ \A g, ops, at : CallSays(g, ops, at)' <=> CallSays(g, ops, at)
           /\ \A g, ops, at : MarkersSay(g, ops, at)' <=> MarkersSay(g, ops, at)
           /\ \A f, p : Placed(f, p)' <=> Placed(f, p)
  <1>1. split' = split /\ read' = read /\ mod' = mod
    BY DEF flags
  <1>2. \A n : Slots(n)' = Slots(n)
    BY <1>1 DEF Slots
  <1>3. Variables' = Variables
    BY <1>2 DEF Variables
  <1>4. \A f, p : Placed(f, p)' <=> Placed(f, p)
    BY <1>1 DEF Placed, ShadowOf
  <1> QED
    BY <1>1, <1>3, <1>4 DEF CallSays, MarkersSay, Passed, Marked, Received, Changed, Interface,
                            Fields, ShadowOf

\* The type invariant follows.
LEMMA TypeFollows ==
    ASSUME ShadowInv
    PROVE  TypeOK
  <1>1. TypeInv /\ OrderInv /\ SolveInv /\ \A f \in Function : BodyInv(f)
    BY DEF ShadowInv, FunctionInv
  <1>2. \A f \in Function : /\ Len(body[f]) <= MaxBody[f] /\ region[f].to <= Len(body[f])
                            /\ \A k \in DOMAIN arg[f] : arg[f][k] \in None .. Len(code[f])
    BY <1>1 DEF BodyInv
  <1>3. \A x \in shadows : x[1] \in Node /\ x[2] \in Slots(x[1])
    BY <1>1 DEF TypeInv, Variables
  <1> QED
    BY <1>1, <1>2, <1>3 DEF TypeOK, TypeInv, OrderInv, SolveInv

\* Numbers are distinct.
LEMMA DistinctFollows ==
    ASSUME ShadowInv
    PROVE  IdsDistinct
  <1> SUFFICES ASSUME NEW f \in Function, NEW g \in Function,
                      NEW j \in DOMAIN code[f], NEW k \in DOMAIN code[g],
                      FieldId(code[f][j].var) = FieldId(code[g][k].var),
                      ~(code[f][j].var[2] >= Width(code[f][j].var[1])),
                      ~(code[g][k].var[2] >= Width(code[g][k].var[1]))
               PROVE  code[f][j].var = code[g][k].var
    BY DEF IdsDistinct
  <1>1. PICK x, y : x = code[f][j].var /\ y = code[g][k].var
    OBVIOUS
  <1>2. x \in Variables /\ Taken(ids, x[1]) /\ y \in Variables /\ Taken(ids, y[1])
    BY <1>1 DEF ShadowInv, FunctionInv, CodeInv, ToSet
  <1>3. /\ x = <<x[1], x[2]>> /\ x[1] \in Node /\ x[2] \in Nat /\ x[2] \in Slots(x[1])
        /\ y = <<y[1], y[2]>> /\ y[1] \in Node /\ y[2] \in Nat /\ y[2] \in Slots(y[1])
    BY <1>2 DEF Variables
  <1>4. PICK a, b : a = ids.base[x[1]] /\ b = ids.base[y[1]]
    OBVIOUS
  <1>5. a \in Nat /\ b \in Nat
    BY <1>2, <1>3, <1>4 DEF ShadowInv, NumbersOK, Numbers, Taken
  <1>6. a + x[2] = b + y[2]
    BY <1>1, <1>4 DEF FieldId
  <1>7. PICK v, w : v = Width(x[1]) /\ w = Width(y[1])
    OBVIOUS
  <1>8. v \in Nat /\ w \in Nat /\ v # 0 /\ w # 0
    BY <1>3, <1>7, WidthPositive
  <1>9. x[2] < v /\ y[2] < w
    <2>1. ~(x[2] >= v) /\ ~(y[2] >= w)
      BY <1>1, <1>7
    <2> QED
      BY <1>3, <1>8, <2>1
  <1>10. x[1] # y[1] => a + v <= b \/ b + w <= a
    BY <1>2, <1>3, <1>4, <1>7 DEF ShadowInv, NumbersOK, NumbersApart
  <1>11. x[1] = y[1]
    BY <1>3, <1>5, <1>6, <1>8, <1>9, <1>10
  <1>12. x[2] = y[2]
    BY <1>3, <1>4, <1>5, <1>6, <1>11
  <1> QED
    BY <1>1, <1>3, <1>11, <1>12

\* What a function shows is what its pseudo-instructions say.
LEMMA ShownSays ==
    ASSUME NEW f, NEW at, NEW names
    PROVE  Shown(f, at, names) = Says(ToSet(code[f]), at, names)
  BY DEF Shown, Says, ToSet

\* Interfaces match.
LEMMA MatchFollows ==
    ASSUME ShadowInv
    PROVE  InterfacesMatch
  <1> SUFFICES ASSUME NEW f \in Function, NEW i \in DOMAIN body[f],
                      Finished(f), IsCall(f, i), body[f][i].callee \in Returns,
                      Finished(body[f][i].callee)
               PROVE  LET g == body[f][i].callee
                          inCaller(pairs) == {<<x[1], ShadowOf(InCaller(x[2]))>> : x \in pairs}
                          return == Len(body[g]) + 1
                      IN  /\ Shown(f, i, {"arg_ref", "arg_mod"})
                                = inCaller(Shown(g, return, {"in"}))
                          /\ Shown(f, i, {"arg_mod", "arg_new"})
                                = inCaller(Shown(g, return, {"out"}))
    BY DEF InterfacesMatch
  <1> DEFINE g == body[f][i].callee
             inCaller(pairs) == {<<x[1], ShadowOf(InCaller(x[2]))>> : x \in pairs}
             return == Len(body[g]) + 1
  <1>1. body[f][i].op = "call"
    BY DEF IsCall
  <1>2. g \in Function /\ CallSays(g, ToSet(code[f]), i)
    BY <1>1 DEF ShadowInv, FunctionInv, CallsInv
  <1>3. Complete(g)
    BY DEF Finished, Complete
  <1>4. MarkersSay(g, ToSet(code[g]), return)
    BY <1>2, <1>3 DEF ShadowInv, FunctionInv, CallsInv
  <1>5. \A indices : inCaller(Marked(g, indices)) = Passed(g, indices)
    <2> SUFFICES ASSUME NEW indices
                 PROVE  inCaller(Marked(g, indices)) = Passed(g, indices)
      OBVIOUS
    <2> DEFINE I == Interface(g)
               at(k) == ShadowOf(InCaller(I[k]))
    <2>1. Marked(g, indices) = {<<k, I[k]>> : k \in indices}
      BY DEF Marked
    <2>2. Passed(g, indices) = {<<k, at(k)>> : k \in indices}
      BY DEF Passed
    <2>3. ASSUME NEW y \in inCaller(Marked(g, indices)) PROVE y \in Passed(g, indices)
      <3>1. PICK x \in Marked(g, indices) : y = <<x[1], ShadowOf(InCaller(x[2]))>>
        OBVIOUS
      <3>2. PICK k \in indices : x = <<k, I[k]>>
        BY <2>1, <3>1
      <3>3. x[1] = k /\ x[2] = I[k]
        BY <3>2
      <3>4. y = <<k, at(k)>>
        BY <3>1, <3>3
      <3> QED
        BY <2>2, <3>4
    <2>4. ASSUME NEW y \in Passed(g, indices) PROVE y \in inCaller(Marked(g, indices))
      <3>1. PICK k \in indices : y = <<k, at(k)>>
        BY <2>2
      <3>2. PICK x : x = <<k, I[k]>>
        OBVIOUS
      <3>3. x \in Marked(g, indices) /\ x[1] = k /\ x[2] = I[k]
        BY <2>1, <3>2
      <3>4. y = <<x[1], ShadowOf(InCaller(x[2]))>>
        BY <3>1, <3>3
      <3> QED
        BY <3>3, <3>4
    <2> QED
      BY <2>3, <2>4
  <1>6. PICK h, r, a, b, c, d :
          /\ h = g /\ r = return /\ a = Shown(f, i, {"arg_ref", "arg_mod"})
          /\ b = Shown(f, i, {"arg_mod", "arg_new"})
          /\ c = Shown(g, return, {"in"}) /\ d = Shown(g, return, {"out"})
    OBVIOUS
  <1>7. a = Passed(g, Received(g)) /\ b = Passed(g, Changed(g))
    BY <1>2, <1>6, ShownSays DEF CallSays
  <1>8. c = Marked(g, Received(g)) /\ d = Marked(g, Changed(g))
    BY <1>4, <1>6, ShownSays DEF MarkersSay
  <1>9. a = inCaller(c) /\ b = inCaller(d)
    <2> HIDE DEF inCaller, g
    <2> QED
      BY <1>5, <1>7, <1>8
  <1> QED
    BY <1>6, <1>9

-----------------------------------------------------------------------------
(* Every step keeps it                                                     *)

\* It holds at the beginning.
LEMMA InitInv ==
    ASSUME Init
    PROVE  ShadowInv
  <1>1. PICK x \in Flags : read = x.read /\ mod = x.mod
    BY DEF Init
  <1>2. /\ split \in BOOLEAN /\ todo = ModuleOrder /\ fn = Head(todo) /\ phase = "begin"
        /\ body = [f \in Function |-> <<>>] /\ code = [f \in Function |-> <<>>]
        /\ region = [f \in Function |-> [kind |-> "none", from |-> 1, to |-> 0]]
        /\ arg = [f \in Function |-> <<>>] /\ shadows = {}
        /\ ids = [base |-> [n \in Node |-> None], max |-> 0]
        /\ use = 0 /\ def = None /\ prev = None
    BY DEF Init
  <1>3. TypeInv
    BY <1>1, <1>2, GraphAssumption, FS_EmptySet DEF TypeInv
  <1>4. OrderInv
    <2>1. /\ todo \in Seq(Function) /\ Len(todo) = Len(ModuleOrder) - 0
          /\ 0 \in 0 .. Len(ModuleOrder)
          /\ \A j \in 1 .. Len(todo) : todo[j] = ModuleOrder[0 + j]
      BY <1>2, FunctionsAssumption
    <2>2. fn = ModuleOrder[1] /\ 1 \in DOMAIN ModuleOrder /\ fn \in Function
      BY <1>2, FunctionsAssumption
    <2>3. fn \in ToSet(ModuleOrder)
      BY <2>2 DEF ToSet
    <2>4. todo # <<>> /\ phase = "begin" /\ fn = Head(todo)
      BY <1>2, FunctionsAssumption
    <2> QED
      BY <2>1, <2>2, <2>3, <2>4 DEF OrderInv
  <1>5. SolveInv
    <2>1. fn \in Function
      BY <1>4 DEF OrderInv
    <2>2. Len(code[fn]) = 0
      BY <1>2, <2>1
    <2> QED
      BY <1>2, <2>2 DEF SolveInv, None
  <1>6. NumbersOK(ids)
    BY <1>2 DEF NumbersOK, Numbers, NumbersApart, Taken
  <1>7. ASSUME NEW f \in Function PROVE FunctionInv(f)
    <2>1. ~Complete(f) /\ ~Visiting(f)
      BY <1>2 DEF Complete, Visiting
    <2>2. body[f] = <<>> /\ code[f] = <<>> /\ region[f].to = 0 /\ arg[f] = <<>>
      BY <1>2
    <2>3. MaxBody[f] \in Nat
      BY FunctionsAssumption
    <2>4. BodyInv(f)
      BY <2>1, <2>2, <2>3 DEF BodyInv
    <2>5. CodeInv(f)
      BY <2>1, <2>2 DEF CodeInv, ToSet
    <2>6. CallsInv(f)
      BY <2>1, <2>2 DEF CallsInv
    <2> QED
      BY <2>4, <2>5, <2>6 DEF FunctionInv
  <1> QED
    BY <1>3, <1>4, <1>5, <1>6, <1>7 DEF ShadowInv

\* The elements of a sequence are finitely many.
LEMMA ElementsFinite ==
    ASSUME NEW S, NEW s \in Seq(S)
    PROVE  IsFiniteSet(ToSet(s)) /\ ToSet(s) \subseteq S
  <1>1. Len(s) \in Nat /\ DOMAIN s = 1 .. Len(s) /\ \A i \in 1 .. Len(s) : s[i] \in S
    BY LenProperties, ElementOfSeq
  <1>2. IsFiniteSet(1 .. Len(s))
    BY <1>1, FS_Interval
  <1>3. [i \in 1 .. Len(s) |-> s[i]] \in Surjection(1 .. Len(s), ToSet(s))
    BY <1>1 DEF Surjection, ToSet
  <1>4. IsFiniteSet(ToSet(s))
    BY <1>2, <1>3, FS_Surjection
  <1> QED
    BY <1>1, <1>4 DEF ToSet

\* What Emit adds.
LEMMA EmitAdds ==
    ASSUME ShadowInv, NEW ps \in Seq(PseudoOps), NEW touched \in Seq(Node \X Nat),
           \A p \in ToSet(ps) : p.var \in Variables, ToSet(touched) \subseteq Variables,
           Emit(ps, touched)
    PROVE  /\ DOMAIN code' = Function /\ code'[fn] \in Seq(PseudoOps)
           /\ ToSet(code'[fn]) = ToSet(code[fn]) \cup ToSet(ps)
           /\ Len(code'[fn]) >= Len(code[fn]) /\ Len(code[fn]) \in Nat
           /\ Len(code'[fn]) \in Nat
           /\ \A f \in Function : f # fn => code'[f] = code[f]
           /\ shadows' \subseteq Variables /\ IsFiniteSet(shadows')
           /\ NumbersOK(ids') /\ Extends(ids, ids')
           /\ \A p \in ToSet(ps) : Taken(ids', p.var[1])
  <1> DEFINE vs == [k \in DOMAIN ps |-> ps[k].var]
             xs == touched \o vs
  <1>1. fn \in Function /\ code[fn] \in Seq(PseudoOps) /\ DOMAIN code = Function
    BY DEF ShadowInv, TypeInv, OrderInv, FunctionInv, CodeInv
  <1>2. /\ code' = [code EXCEPT ![fn] = @ \o ps] /\ shadows' = shadows \cup ToSet(xs)
        /\ ids' = IdsFor(ids, xs)
    BY DEF Emit
  <1>3. code'[fn] = code[fn] \o ps /\ \A f \in Function : f # fn => code'[f] = code[f]
    BY <1>1, <1>2
  <1>4. /\ code'[fn] \in Seq(PseudoOps) /\ Len(code'[fn]) = Len(code[fn]) + Len(ps)
        /\ ToSet(code'[fn]) = ToSet(code[fn]) \cup ToSet(ps)
    BY <1>1, <1>3, ConcatProperties, ConcatElements
  <1>5. Len(code[fn]) \in Nat /\ Len(ps) \in Nat /\ DOMAIN ps = 1 .. Len(ps)
    BY <1>1, LenProperties
  <1>6. ToSet(vs) = {p.var : p \in ToSet(ps)}
    BY DEF ToSet
  <1>7. vs \in Seq(Node \X Nat)
    <2>1. \A k \in 1 .. Len(ps) : ps[k].var \in Node \X Nat
      <3> SUFFICES ASSUME NEW k \in 1 .. Len(ps) PROVE ps[k].var \in Node \X Nat
        OBVIOUS
      <3>1. ps[k] \in PseudoOps
        BY ElementOfSeq
      <3> QED
        BY <3>1 DEF PseudoOps
    <2> QED
      BY <1>5, <2>1
  <1>8. xs \in Seq(Node \X Nat) /\ ToSet(xs) = ToSet(touched) \cup ToSet(vs)
    BY <1>7, ConcatProperties, ConcatElements, ZenonT(30)
  <1> HIDE DEF xs, vs
  <1>9. ToSet(xs) \subseteq Variables /\ IsFiniteSet(ToSet(xs))
    <2>1. ToSet(vs) \subseteq Variables
      BY <1>6
    <2>2. IsFiniteSet(ToSet(xs))
      BY <1>8, ElementsFinite
    <2> QED
      BY <1>8, <2>1, <2>2
  <1>10. shadows' \subseteq Variables /\ IsFiniteSet(shadows')
    BY <1>2, <1>9, FS_Union DEF ShadowInv, TypeInv
  <1>11. NumbersOK(ids)
    BY DEF ShadowInv
  <1>12. /\ NumbersOK(ids') /\ Extends(ids, ids')
         /\ \A k \in DOMAIN xs : Taken(ids', xs[k][1])
    BY <1>2, <1>8, <1>11, IdsForNumbers
  <1>13. ASSUME NEW p \in ToSet(ps) PROVE Taken(ids', p.var[1])
    <2>1. p.var \in ToSet(xs)
      BY <1>6, <1>8
    <2>2. PICK k \in DOMAIN xs : p.var = xs[k]
      BY <2>1 DEF ToSet
    <2> QED
      BY <1>12, <2>2
  <1>14. DOMAIN code' = Function
    BY <1>1, <1>2
  <1> QED
    BY <1>3, <1>4, <1>5, <1>10, <1>12, <1>13, <1>14

\* A function of which a step changes nothing, or only what its registers are.
LEMMA OtherFunction ==
    ASSUME ShadowInv, UNCHANGED flags, NEW f \in Function,
           body'[f] = body[f], code'[f] = code[f], region'[f] = region[f],
           \/ arg'[f] = arg[f]
           \/ /\ Complete(f) /\ arg'[f] \in [1 .. Len(code[f]) -> None .. Len(code[f])]
              /\ \A k \in 1 .. Len(code[f]) : OperandOK(code[f], k, arg'[f][k]),
           Complete(f)' <=> Complete(f), Visiting(f) => Visiting(f)',
           Extends(ids, ids')
    PROVE  FunctionInv(f)'
  <1>1. BodyInv(f) /\ CodeInv(f) /\ CallsInv(f)
    BY DEF ShadowInv, FunctionInv
  <1>2. BodyInv(f)'
    BY <1>1 DEF BodyInv
  <1>3. CodeInv(f)'
    <2>1. Variables' = Variables
      BY FlagsStay
    <2>2. code'[f] \in Seq(PseudoOps)
      BY <1>1 DEF CodeInv
    <2>3. ASSUME NEW p \in ToSet(code'[f])
          PROVE  /\ p.var \in Variables /\ Taken(ids', p.var[1]) /\ Placed(f, p)'
                 /\ ~Complete(f) => p.at <= Len(body[f]) /\ p.op \notin LateOps
      <3>1. /\ p.var \in Variables /\ Taken(ids, p.var[1]) /\ Placed(f, p)
            /\ ~Complete(f) => p.at <= Len(body[f]) /\ p.op \notin LateOps
        BY <1>1, <2>3 DEF CodeInv
      <3>2. p.var[1] \in Node
        BY <3>1 DEF Variables
      <3>3. Placed(f, p)'
        BY <3>1, FlagsStay
      <3> QED
        BY <3>1, <3>2, <3>3 DEF Extends, Taken
    <2> QED
      BY <2>1, <2>2, <2>3 DEF CodeInv
  <1>4. CallsInv(f)'
    <2>1. ASSUME NEW i \in DOMAIN body'[f], body'[f][i].op = "call"
          PROVE  /\ body'[f][i].callee \in Function
                 /\ CallSays(body[f][i].callee, ToSet(code[f]), i)'
      <3>1. PICK g, ops : g = body[f][i].callee /\ ops = ToSet(code[f])
        OBVIOUS
      <3>2. g \in Function /\ CallSays(g, ops, i)
        BY <1>1, <2>1, <3>1 DEF CallsInv
      <3>3. CallSays(g, ops, i)'
        BY <3>2, FlagsStay
      <3>4. body'[f][i].callee = g /\ ToSet(code'[f]) = ops
        BY <3>1
      <3> QED
        BY <3>2, <3>3, <3>4 DEF CallSays, Passed, Received, Changed
    <2>2. ASSUME Complete(f)', f \in Returns
          PROVE  MarkersSay(f, ToSet(code[f]), Len(body[f]) + 1)'
      <3>1. PICK ops, at : ops = ToSet(code[f]) /\ at = Len(body[f]) + 1
        OBVIOUS
      <3>2. MarkersSay(f, ops, at)
        BY <1>1, <2>2, <3>1 DEF CallsInv
      <3>3. MarkersSay(f, ops, at)'
        BY <3>2, FlagsStay
      <3>4. ToSet(code'[f]) = ops /\ Len(body'[f]) + 1 = at
        BY <3>1
      <3> QED
        BY <3>3, <3>4 DEF MarkersSay, Marked, Received, Changed
    <2> QED
      BY <2>1, <2>2 DEF CallsInv
  <1> QED
    BY <1>2, <1>3, <1>4 DEF FunctionInv

\* Pseudo-instructions elsewhere, or with other names, do not count.
LEMMA SaysOnly ==
    ASSUME NEW A, NEW B, NEW at, NEW names, \A p \in B : p.at # at \/ p.op \notin names
    PROVE  Says(A \cup B, at, names) = Says(A, at, names)
  BY DEF Says

\* What calls say depends on what is at their place only.
LEMMA CallSaysOnly ==
    ASSUME NEW g, NEW A, NEW B, NEW at, \A p \in B : p.at # at
    PROVE  CallSays(g, A \cup B, at) <=> CallSays(g, A, at)
  BY SaysOnly DEF CallSays

\* What markers say depends on markers only.
LEMMA MarkersSayOnly ==
    ASSUME NEW f, NEW A, NEW B, NEW at, \A p \in B : p.op # "in" /\ p.op # "out"
    PROVE  MarkersSay(f, A \cup B, at) <=> MarkersSay(f, A, at)
  <1>1. Says(A \cup B, at, {"in"}) = Says(A, at, {"in"})
    BY DEF Says
  <1>2. Says(A \cup B, at, {"out"}) = Says(A, at, {"out"})
    BY DEF Says
  <1> QED
    BY <1>1, <1>2 DEF MarkersSay

\* A function in the visit is not complete.
LEMMA VisitedFunction ==
    ASSUME ShadowInv, phase \in {"begin", "visit"}
    PROVE  ~Complete(fn)
  <1>1. todo # <<>> /\ fn = Head(todo) /\ todo \in Seq(Function)
    BY DEF ShadowInv, OrderInv
  <1>2. fn \in ToSet(todo)
    BY <1>1 DEF ToSet
  <1> QED
    BY <1>2 DEF Complete

\* The visit of an instruction.
LEMMA VisitInv ==
    ASSUME ShadowInv, NEW i \in Instruction[fn], NEW reads, NEW writes,
           NEW ps \in Seq(PseudoOps), NEW touched \in Seq(Node \X Nat),
           \A p \in ToSet(ps) : /\ p.var \in Variables /\ p.at = Here
                                /\ p.op \notin LateOps /\ Placed(fn, p),
           ToSet(touched) \subseteq Variables,
           i.op = "call" => i.callee \in Function /\ CallSays(i.callee, ToSet(ps), Here),
           VisitTouching(i, reads, writes, ps, touched)
    PROVE  ShadowInv'
  <1>1. /\ phase = "visit" /\ Len(body[fn]) < MaxBody[fn]
        /\ body' = [body EXCEPT ![fn] = Append(@, i)] /\ Emit(ps, touched)
        /\ UNCHANGED <<flags, todo, fn, phase, region, arg, use, def, prev>>
    BY DEF VisitTouching
  <1>2. PICK f : f = fn
    OBVIOUS
  <1>3. f \in Function /\ BodyInv(f) /\ CodeInv(f) /\ CallsInv(f) /\ TypeInv
    BY <1>2 DEF ShadowInv, OrderInv, FunctionInv
  <1>4. ~Complete(f) /\ Visiting(f) /\ ~Complete(f)' /\ Visiting(f)'
    BY <1>1, <1>2, VisitedFunction DEF Visiting, Complete
  <1>5. /\ DOMAIN code' = Function /\ code'[f] \in Seq(PseudoOps)
        /\ ToSet(code'[f]) = ToSet(code[f]) \cup ToSet(ps)
        /\ Len(code'[f]) >= Len(code[f]) /\ Len(code[f]) \in Nat
        /\ Len(code'[f]) \in Nat
        /\ \A g \in Function : g # f => code'[g] = code[g]
        /\ shadows' \subseteq Variables /\ IsFiniteSet(shadows')
        /\ NumbersOK(ids') /\ Extends(ids, ids')
        /\ \A p \in ToSet(ps) : Taken(ids', p.var[1])
    BY <1>1, <1>2, EmitAdds
  <1>6. UNCHANGED flags /\ Variables' = Variables
    BY <1>1, FlagsStay
  <1>7. PICK n \in Nat : n = Len(body[f]) /\ DOMAIN body[f] = 1 .. n
    BY <1>3, LenProperties DEF BodyInv
  <1>8. /\ body'[f] \in Seq(Instruction[f]) /\ Len(body'[f]) = n + 1
        /\ DOMAIN body'[f] = 1 .. n + 1 /\ body'[f][n + 1] = i
        /\ \A k \in 1 .. n : body'[f][k] = body[f][k]
        /\ \A g \in Function : g # f => body'[g] = body[g]
        /\ DOMAIN body' = Function
    <2>1. body'[f] = Append(body[f], i) /\ i \in Instruction[f]
      BY <1>1, <1>2, <1>3 DEF TypeInv
    <2>2. body[f] \in Seq(Instruction[f])
      BY <1>3 DEF BodyInv
    <2>3. /\ body'[f] \in Seq(Instruction[f]) /\ Len(body'[f]) = n + 1
          /\ \A k \in 1 .. n : body'[f][k] = body[f][k]
          /\ body'[f][n + 1] = i
      <3>1. PICK s, t : s = body[f] /\ t = Append(s, i)
        OBVIOUS
      <3>2. s \in Seq(Instruction[f]) /\ i \in Instruction[f] /\ Len(s) = n /\ body'[f] = t
        BY <1>7, <2>1, <2>2, <3>1
      <3>3. /\ t \in Seq(Instruction[f]) /\ Len(t) = n + 1
            /\ \A k \in 1 .. Len(s) : t[k] = s[k]
            /\ t[Len(s) + 1] = i
        <4>1. /\ Append(s, i) \in Seq(Instruction[f]) /\ Len(Append(s, i)) = Len(s) + 1
              /\ \A k \in 1 .. Len(s) : Append(s, i)[k] = s[k]
              /\ Append(s, i)[Len(s) + 1] = i
          BY <3>2, AppendProperties
        <4> QED
          BY <3>1, <3>2, <4>1
      <3> QED
        BY <3>1, <3>2, <3>3
    <2>4. DOMAIN body'[f] = 1 .. n + 1
      BY <2>3, LenProperties
    <2> QED
      BY <1>1, <1>2, <1>3, <2>3, <2>4 DEF TypeInv
  <1>9. Here = n + 1
    BY <1>2, <1>7 DEF Here
  <1>10. TypeInv'
    BY <1>1, <1>3, <1>5, <1>6, <1>8 DEF TypeInv, flags
  <1>11. OrderInv'
    BY <1>1 DEF ShadowInv, OrderInv
  <1>12. SolveInv'
    <2>1. /\ use \in 0 .. Len(code[f]) /\ def \in None .. Len(code[f])
          /\ prev \in None .. Len(code[f])
      BY <1>2 DEF ShadowInv, SolveInv
    <2>2. /\ use \in 0 .. Len(code'[f]) /\ def \in None .. Len(code'[f])
          /\ prev \in None .. Len(code'[f])
      BY <1>5, <2>1 DEF None
    <2> QED
      BY <1>1, <1>2, <2>2 DEF SolveInv
  <1>13. BodyInv(f)'
    <2>1. region[f].to = 0 /\ arg[f] = <<>>
      BY <1>3, <1>4 DEF BodyInv
    <2>2. n + 1 <= MaxBody[f]
      BY <1>1, <1>2, <1>3, <1>7, FunctionsAssumption
    <2> QED
      BY <1>1, <1>4, <1>8, <2>1, <2>2 DEF BodyInv
  <1>14. CodeInv(f)'
    <2>1. ASSUME NEW p \in ToSet(code'[f])
          PROVE  /\ p.var \in Variables /\ Taken(ids', p.var[1]) /\ Placed(f, p)
                 /\ p.at <= n + 1 /\ p.op \notin LateOps
      <3>1. CASE p \in ToSet(code[f])
        <4>1. /\ p.var \in Variables /\ Taken(ids, p.var[1]) /\ Placed(f, p)
              /\ p.at <= n /\ p.op \notin LateOps
          BY <1>3, <1>4, <1>7, <3>1 DEF CodeInv
        <4>2. p.var[1] \in Node
          BY <4>1 DEF Variables
        <4>3. Taken(ids', p.var[1])
          BY <1>5, <4>1, <4>2 DEF Extends, Taken
        <4>4. p.at \in Nat
          <5>1. p \in PseudoOps
            BY <1>3, <3>1, ElementsFinite DEF CodeInv
          <5> QED
            BY <5>1 DEF PseudoOps
        <4> QED
          BY <4>1, <4>3, <4>4
      <3>2. CASE p \in ToSet(ps)
        BY <1>2, <1>5, <1>9, <3>2
      <3> QED
        BY <1>5, <3>1, <3>2
    <2>2. \A p \in ToSet(code'[f]) : Placed(f, p)'
      BY <1>6, <2>1, FlagsStay
    <2> QED
      BY <1>5, <1>6, <1>8, <2>1, <2>2 DEF CodeInv
  <1>15. CallsInv(f)'
    <2>1. ASSUME NEW k \in 1 .. n + 1, body'[f][k].op = "call"
          PROVE  /\ body'[f][k].callee \in Function
                 /\ CallSays(body[f][k].callee, ToSet(code[f]), k)'
      <3>1. PICK g, ops, old, new : /\ g = body'[f][k].callee /\ ops = ToSet(code'[f])
                                    /\ old = ToSet(code[f]) /\ new = ToSet(ps)
        OBVIOUS
      <3>2. g \in Function /\ CallSays(g, ops, k)
        <4>1. CASE k = n + 1
          <5>1. g \in Function /\ CallSays(g, new, k)
            BY <1>8, <1>9, <2>1, <3>1, <4>1
          <5>2. \A p \in old : p.at # k
            <6> SUFFICES ASSUME NEW p \in old PROVE p.at # k
              OBVIOUS
            <6>1. p.at <= n /\ p \in PseudoOps
              BY <1>3, <1>4, <1>7, <3>1, ElementsFinite DEF CodeInv
            <6>2. p.at \in Nat
              BY <6>1 DEF PseudoOps
            <6> QED
              BY <4>1, <6>1, <6>2
          <5>3. ops = new \cup old
            BY <1>5, <3>1
          <5> QED
            BY <5>1, <5>2, <5>3, CallSaysOnly
        <4>2. CASE k # n + 1
          <5>1. k \in 1 .. n /\ body'[f][k] = body[f][k]
            BY <1>8, <4>2
          <5>2. g \in Function /\ CallSays(g, old, k)
            BY <1>3, <1>7, <2>1, <3>1, <5>1 DEF CallsInv
          <5>3. \A p \in new : p.at # k
            BY <1>9, <3>1, <4>2
          <5>4. ops = old \cup new
            BY <1>5, <3>1
          <5> QED
            BY <5>2, <5>3, <5>4, CallSaysOnly
        <4> QED
          BY <4>1, <4>2
      <3>3. CallSays(g, ops, k)'
        BY <1>6, <3>2, FlagsStay
      <3> QED
        BY <3>1, <3>2, <3>3 DEF CallSays, Passed, Received, Changed
    <2> QED
      BY <1>4, <1>8, <2>1 DEF CallsInv
  <1>16. ASSUME NEW g \in Function PROVE FunctionInv(g)'
    <2>1. CASE g = f
      BY <1>13, <1>14, <1>15, <2>1 DEF FunctionInv
    <2>2. CASE g # f
      <3>1. body'[g] = body[g] /\ code'[g] = code[g] /\ region'[g] = region[g] /\ arg'[g] = arg[g]
        BY <1>1, <1>5, <1>8, <2>2
      <3>2. (Complete(g)' <=> Complete(g)) /\ (Visiting(g) => Visiting(g)')
        BY <1>1 DEF Complete, Visiting
      <3> QED
        BY <1>5, <1>6, <3>1, <3>2, OtherFunction
    <2> QED
      BY <2>1, <2>2
  <1> QED
    BY <1>5, <1>10, <1>11, <1>12, <1>16 DEF ShadowInv


-----------------------------------------------------------------------------
(* The instructions of a function                                          *)

\* A cell of a node has a shadow variable of that node.
LEMMA ShadowVariable ==
    ASSUME split \in BOOLEAN, NEW c, IsCell(c)
    PROVE  ShadowOf(c) \in Variables
  <1>1. PICK n, o : n = c.node /\ o = c.off
    OBVIOUS
  <1>2. n \in Node /\ o \in Nat
    BY <1>1 DEF IsCell
  <1>3. PICK s : s = Size[n]
    OBVIOUS
  <1>4. s \in Nat
    BY <1>2, <1>3, GraphAssumption
  <1>5. PICK x : x = Offset(c)
    OBVIOUS
  <1>6. /\ x \in Nat /\ (n \in Collapsed => x = 0)
        /\ n \in Array \ Collapsed => x \in 0 .. s - 1
    <2>1. CASE n \in Collapsed
      <3>1. x = 0
        BY <1>1, <1>5, <2>1 DEF Offset
      <3> QED
        BY <2>1, <3>1
    <2>2. CASE n \in Array \ Collapsed
      <3>1. x = o % s
        BY <1>1, <1>3, <1>5, <2>2 DEF Offset
      <3>2. s # 0
        BY <1>3, <2>2, GraphAssumption
      <3> QED
        BY <1>2, <1>4, <2>2, <3>1, <3>2
    <2>3. CASE n \notin Collapsed \cup Array
      <3>1. x = o
        BY <1>1, <1>5, <2>3 DEF Offset
      <3> QED
        BY <1>2, <2>3, <3>1
    <2> QED
      BY <2>1, <2>2, <2>3
  <1>7. PICK y : y = IF split THEN x ELSE 0
    OBVIOUS
  <1>8. ShadowOf(c) = <<n, y>>
    BY <1>1, <1>5, <1>7 DEF ShadowOf
  <1>9. y \in Nat /\ y \in Slots(n)
    <2>1. CASE split /\ n \notin Collapsed
      <3>1. y = x /\ Slots(n) = IF n \in Array THEN 0 .. s - 1 ELSE Nat
        BY <1>3, <1>7, <2>1 DEF Slots
      <3> QED
        BY <1>6, <2>1, <3>1
    <2>2. CASE ~(split /\ n \notin Collapsed)
      <3>1. y = 0
        BY <1>6, <1>7, <2>2
      <3>2. Slots(n) = {0}
        BY <2>2 DEF Slots
      <3> QED
        BY <3>1, <3>2
    <2> QED
      BY <2>1, <2>2
  <1> QED
    BY <1>2, <1>8, <1>9 DEF Variables

\* Where the next instruction goes.
LEMMA HereNat ==
    ASSUME ShadowInv
    PROVE  Here \in Nat
  <1>1. body[fn] \in Seq(Instruction[fn])
    BY DEF ShadowInv, OrderInv, FunctionInv, BodyInv
  <1> QED
    BY <1>1, LenProperties DEF Here

\* The pseudo-instruction of an access.
Accessing(p) == /\ p \in PseudoOps /\ p.var \in Variables
                /\ p.at = Here /\ p.op \notin LateOps /\ Placed(fn, p)
LEMMA PseudoAccess ==
    ASSUME ShadowInv, NEW i \in Instruction[fn], i.op # "call",
           NEW v \in {i.ptr, i.src}, Cell[fn][v] # NoCell,
           NEW op \in {"load", "store", "trsfr_load"}
    PROVE  Accessing(Pseudo(op, Accessed(v), Here, v, i.bytes))
  <1>1. fn \in Function /\ split \in BOOLEAN
    BY DEF ShadowInv, OrderInv, TypeInv
  <1>2. v \in Value /\ i.bytes \in Nat /\ IsCell(Cell[fn][v])
    BY <1>1, InstructionAssumption
  <1>3. Accessed(v) \in Variables /\ Here \in Nat
    BY <1>1, <1>2, ShadowVariable, HereNat DEF Accessed
  <1>4. Accessed(v) \in Node \X Nat
    BY <1>3 DEF Variables
  <1>5. PICK p, x, h : p = Pseudo(op, x, h, v, i.bytes) /\ x = Accessed(v) /\ h = Here
    OBVIOUS
  <1>6. p = [op |-> op, var |-> x, at |-> h, ptr |-> v, bytes |-> i.bytes, idx |-> 0]
    BY <1>5 DEF Pseudo
  <1>7. op \in Operations /\ op \notin LateOps
    BY DEF LateOps, Operations
  <1>8. p \in PseudoOps
    BY <1>2, <1>3, <1>4, <1>5, <1>6, <1>7 DEF PseudoOps
  <1>9. p.var = x /\ p.at = h /\ p.op = op /\ p.ptr = v
    BY <1>6
  <1>10. Placed(fn, p)
    BY <1>5, <1>9 DEF Placed, Accessed
  <1> QED
    BY <1>3, <1>5, <1>7, <1>8, <1>9, <1>10 DEF Accessing

\* An instruction that gets the pseudo-instructions of some accesses.
LEMMA AccessesInv ==
    ASSUME ShadowInv, NEW i \in Instruction[fn], i.op # "call", NEW reads, NEW writes,
           NEW ps \in Seq(PseudoOps), \A p \in ToSet(ps) : Accessing(p),
           Visit(i, reads, writes, ps)
    PROVE  ShadowInv'
  <1>1. <<>> \in Seq(Node \X Nat) /\ ToSet(<<>>) \subseteq Variables
    BY DEF ToSet
  <1>2. \A p \in ToSet(ps) : /\ p.var \in Variables /\ p.at = Here
                             /\ p.op \notin LateOps /\ Placed(fn, p)
    BY DEF Accessing
  <1>3. VisitTouching(i, reads, writes, ps, <<>>)
    BY DEF Visit
  <1> QED
    BY <1>1, <1>2, <1>3, VisitInv

\* An instruction that is left alone.
LEMMA NoAccessInv ==
    ASSUME ShadowInv, NEW i \in Instruction[fn], i.op # "call", NEW reads, NEW writes,
           Visit(i, reads, writes, <<>>)
    PROVE  ShadowInv'
  <1>1. <<>> \in Seq(PseudoOps) /\ ToSet(<<>>) = {}
    BY DEF ToSet
  <1> QED
    BY <1>1, AccessesInv

\* An instruction that accesses what a pointer leads to.
LEMMA OneAccessInv ==
    ASSUME ShadowInv, NEW i \in Instruction[fn], i.op # "call", NEW reads, NEW writes,
           Cell[fn][i.ptr] # NoCell, NEW op \in {"load", "store"},
           Visit(i, reads, writes, <<Pseudo(op, Accessed(i.ptr), Here, i.ptr, i.bytes)>>)
    PROVE  ShadowInv'
  <1>1. PICK p : p = Pseudo(op, Accessed(i.ptr), Here, i.ptr, i.bytes)
    OBVIOUS
  <1>2. Accessing(p)
    BY <1>1, PseudoAccess
  <1>3. p \in PseudoOps
    BY <1>2 DEF Accessing
  <1>4. <<p>> \in Seq(PseudoOps) /\ ToSet(<<p>>) = {p}
    BY <1>3 DEF ToSet
  <1>5. Visit(i, reads, writes, <<p>>)
    BY <1>1
  <1> QED
    BY <1>2, <1>4, <1>5, AccessesInv

\* Instructions that are no calls.
LEMMA InstructionsInv ==
    ASSUME ShadowInv, NEW i \in Instruction[fn],
           \/ VisitLoadInst(i) \/ VisitStoreInst(i) \/ VisitAllocation(i)
           \/ VisitCalloc(i) \/ VisitMemSetInst(i)
           \/ VisitMemhavoc(i) \/ VisitShadowQuery(i) \/ VisitGetShadowMem(i)
           \/ VisitShadowUpdate(i) \/ VisitFree(i)
    PROVE  ShadowInv'
  <1>1. CASE VisitLoadInst(i)
    <2>1. i.op # "call"
      BY <1>1 DEF VisitLoadInst
    <2>2. CASE Cell[fn][i.ptr] = NoCell
      <3>1. Visit(i, {}, {}, <<>>)
        BY <1>1, <2>2 DEF VisitLoadInst
      <3> QED
        BY <2>1, <3>1, NoAccessInv
    <2>3. CASE Cell[fn][i.ptr] # NoCell
      <3>1. Visit(i, {Cell[fn][i.ptr].node}, {},
                  <<Pseudo("load", Accessed(i.ptr), Here, i.ptr, i.bytes)>>)
        BY <1>1, <2>3 DEF VisitLoadInst
      <3> QED
        BY <2>1, <2>3, <3>1, OneAccessInv
    <2> QED
      BY <2>2, <2>3
  <1>2. CASE VisitStoreInst(i)
    <2>1. i.op # "call"
      BY <1>2 DEF VisitStoreInst
    <2>2. CASE Cell[fn][i.ptr] = NoCell
      <3>1. Visit(i, {}, {}, <<>>)
        BY <1>2, <2>2 DEF VisitStoreInst
      <3> QED
        BY <2>1, <3>1, NoAccessInv
    <2>3. CASE Cell[fn][i.ptr] # NoCell
      <3>1. Visit(i, {}, {Cell[fn][i.ptr].node},
                  <<Pseudo("store", Accessed(i.ptr), Here, i.ptr, i.bytes)>>)
        BY <1>2, <2>3 DEF VisitStoreInst
      <3> QED
        BY <2>1, <2>3, <3>1, OneAccessInv
    <2> QED
      BY <2>2, <2>3
  <1>3. CASE VisitAllocation(i)
    <2>1. i.op # "call" /\ Cell[fn][i.ptr] # NoCell
      BY <1>3 DEF VisitAllocation
    <2>2. PICK op : op = IF AllocIsDef THEN "store" ELSE "load"
      OBVIOUS
    <2>3. op \in {"load", "store"}
      BY <2>2
    <2>4. Visit(i, {}, {}, <<Pseudo(op, Accessed(i.ptr), Here, i.ptr, i.bytes)>>)
      BY <1>3, <2>2 DEF VisitAllocation
    <2> QED
      BY <2>1, <2>3, <2>4, OneAccessInv
  <1>4. CASE VisitCalloc(i)
    <2>1. i.op # "call" /\ Cell[fn][i.ptr] # NoCell
      BY <1>4 DEF VisitCalloc
    <2>2. CASE Offset(Cell[fn][i.ptr]) # 0
      <3>1. Visit(i, {}, {Cell[fn][i.ptr].node}, <<>>)
        BY <1>4, <2>2 DEF VisitCalloc
      <3> QED
        BY <2>1, <3>1, NoAccessInv
    <2>3. CASE Offset(Cell[fn][i.ptr]) = 0
      <3>1. Visit(i, {}, {Cell[fn][i.ptr].node},
                  <<Pseudo("store", Accessed(i.ptr), Here, i.ptr, i.bytes)>>)
        BY <1>4, <2>3 DEF VisitCalloc
      <3> QED
        BY <2>1, <3>1, OneAccessInv
    <2> QED
      BY <2>2, <2>3
  <1>5. CASE VisitMemSetInst(i)
    <2>1. /\ i.op # "call" /\ Cell[fn][i.ptr] # NoCell
          /\ Visit(i, {}, {Cell[fn][i.ptr].node},
                   <<Pseudo("store", Accessed(i.ptr), Here, i.ptr, i.bytes)>>)
      BY <1>5 DEF VisitMemSetInst
    <2> QED
      BY <2>1, OneAccessInv
  <1>6. CASE VisitMemhavoc(i) \/ VisitShadowQuery(i) \/ VisitGetShadowMem(i)
    <2>1. i.op # "call" /\ Cell[fn][i.ptr] # NoCell /\ Query(i)
      BY <1>6 DEF VisitMemhavoc, VisitShadowQuery, VisitGetShadowMem
    <2>2. Visit(i, {}, {}, <<Pseudo("load", Accessed(i.ptr), Here, i.ptr, i.bytes)>>)
      BY <2>1 DEF Query
    <2> QED
      BY <2>1, <2>2, OneAccessInv
  <1>7. CASE VisitShadowUpdate(i) \/ VisitFree(i)
    <2>1. i.op # "call" /\ Cell[fn][i.ptr] # NoCell /\ Update(i)
      BY <1>7 DEF VisitShadowUpdate, VisitFree
    <2>2. Visit(i, {}, {}, <<Pseudo("store", Accessed(i.ptr), Here, i.ptr, i.bytes)>>)
      BY <2>1 DEF Update
    <2> QED
      BY <2>1, <2>2, OneAccessInv
  <1> QED
    BY <1>1, <1>2, <1>3, <1>4, <1>5, <1>6, <1>7

\* A transfer accesses what two pointers lead to.
LEMMA TransferInv ==
    ASSUME ShadowInv, NEW i \in Instruction[fn], VisitMemTransferInst(i)
    PROVE  ShadowInv'
  <1>1. i.op # "call" /\ Cell[fn][i.ptr] # NoCell /\ Cell[fn][i.src] # NoCell
    BY DEF VisitMemTransferInst
  <1>2. PICK p, q : /\ p = Pseudo("trsfr_load", Accessed(i.src), Here, i.src, i.bytes)
                    /\ q = Pseudo("store", Accessed(i.ptr), Here, i.ptr, i.bytes)
    OBVIOUS
  <1>3. Accessing(p) /\ Accessing(q)
    BY <1>1, <1>2, PseudoAccess
  <1>4. p \in PseudoOps /\ q \in PseudoOps
    BY <1>3 DEF Accessing
  <1>5. PICK ps : ps = <<p, q>>
    OBVIOUS
  <1>6. ps \in Seq(PseudoOps) /\ \A x \in ToSet(ps) : x = p \/ x = q
    BY <1>4, <1>5 DEF ToSet
  <1>7. Visit(i, {Cell[fn][i.src].node}, {Cell[fn][i.ptr].node}, ps)
    BY <1>2, <1>5 DEF VisitMemTransferInst
  <1> QED
    BY <1>1, <1>3, <1>6, <1>7, AccessesInv

\* Sequences of pseudo-instructions, each of which is about one field of an interface;
\* those of the fields K have some with the operations names.
AboutFields(C, n, V, at) ==
    \A k \in 1 .. n : \A p \in ToSet(C[k]) : p.var = V[k] /\ p.at = at /\ p.idx = k
HaveSome(C, n, names, K) ==
    \A k \in 1 .. n : (\E p \in ToSet(C[k]) : p.op \in names) <=> k \in K

\* What they say together.
LEMMA FlattenSays ==
    ASSUME NEW n \in Nat, NEW C \in Seq(Seq(PseudoOps)), Len(C) = n, NEW V, NEW at,
           AboutFields(C, n, V, at),
           NEW names, NEW K \in SUBSET (1 .. n), HaveSome(C, n, names, K)
    PROVE  Says(ToSet(FlattenSeq(C)), at, names) = {<<k, V[k]>> : k \in K}
  <1>1. DOMAIN C = 1 .. n
    BY LenProperties
  <1>2. \A p : p \in ToSet(FlattenSeq(C)) <=> \E k \in 1 .. n : p \in ToSet(C[k])
    BY <1>1, FlattenElements
  <1>0. /\ \A k \in 1 .. n : \A p \in ToSet(C[k]) : p.var = V[k] /\ p.at = at /\ p.idx = k
        /\ \A k \in 1 .. n : (\E p \in ToSet(C[k]) : p.op \in names) <=> k \in K
    BY DEF AboutFields, HaveSome
  <1> DEFINE A == ToSet(FlattenSeq(C))
             L == Says(A, at, names)
             R == {<<k, V[k]>> : k \in K}
  <1>3. L = {<<p.idx, p.var>> : p \in {q \in A : q.op \in names /\ q.at = at}}
    BY DEF Says
  <1> HIDE DEF A, L
  <1>4. ASSUME NEW x \in L PROVE x \in R
    <2>1. PICK p \in A : x = <<p.idx, p.var>> /\ p.op \in names
      BY <1>3
    <2>2. PICK k \in 1 .. n : p \in ToSet(C[k])
      BY <1>2 DEF A
    <2>3. k \in K /\ x = <<k, V[k]>>
      BY <1>0, <2>1, <2>2
    <2> QED
      BY <2>3
  <1>5. ASSUME NEW x \in R PROVE x \in L
    <2>1. PICK k \in K : x = <<k, V[k]>>
      OBVIOUS
    <2>2. k \in 1 .. n
      OBVIOUS
    <2>3. PICK p \in ToSet(C[k]) : p.op \in names
      BY <1>0, <2>2
    <2>4. p \in A /\ p.var = V[k] /\ p.at = at /\ p.idx = k
      BY <1>0, <1>2, <2>2, <2>3 DEF A
    <2>5. x = <<p.idx, p.var>>
      BY <2>1, <2>4
    <2> QED
      BY <1>3, <2>3, <2>4, <2>5
  <1> QED
    BY <1>4, <1>5 DEF A, L

\* What a call says of a field of the callee's interface.
LEMMA CallOpSays ==
    ASSUME ShadowInv, NEW f \in Function, NEW k \in DOMAIN Interface(f), NEW x,
           x = Interface(f)[k], ShadowOf(InCaller(x)) \in Variables
    PROVE  /\ CallOp(f, x, k) \in Seq(PseudoOps)
           /\ \A p \in ToSet(CallOp(f, x, k)) :
                /\ p.var = ShadowOf(InCaller(x)) /\ p.at = Here /\ p.idx = k
                /\ p.op \in CallOps /\ p.op \notin LateOps /\ p.ptr = NoValue
           /\ (\E p \in ToSet(CallOp(f, x, k)) : p.op \in {"arg_ref", "arg_mod"})
                <=> k \in Received(f)
           /\ (\E p \in ToSet(CallOp(f, x, k)) : p.op \in {"arg_mod", "arg_new"})
                <=> k \in Changed(f)
  <1>1. k \in Nat
    BY InterfaceLists
  <1>2. PICK v, h : v = ShadowOf(InCaller(x)) /\ h = Here
    OBVIOUS
  <1>3. v \in Variables /\ v \in Node \X Nat /\ h \in Nat
    BY <1>2, HereNat DEF Variables
  <1> DEFINE q(op) == [op |-> op, var |-> v, at |-> h, ptr |-> NoValue,
                       bytes |-> Unknown, idx |-> k]
             seq == CallOp(f, x, k)
  <1>4. seq = IF x[1] \notin mod
              THEN IF x[1] \in OnlyReturned(f) THEN <<>> ELSE <<q("arg_ref")>>
              ELSE <<q(IF x[1] \in OnlyReturned(f) THEN "arg_new" ELSE "arg_mod")>>
    <2> DEFINE p == [Pseudo("arg_ref", v, h, NoValue, Unknown) EXCEPT !.idx = k]
    <2>1. p = q("arg_ref")
      BY DEF Pseudo
    <2>2. \A o : [p EXCEPT !.op = o] = q(o)
      <3> SUFFICES ASSUME NEW o PROVE [p EXCEPT !.op = o] = q(o)
        OBVIOUS
      <3>1. PICK r : r = p
        OBVIOUS
      <3>2. r = [op |-> "arg_ref", var |-> v, at |-> h, ptr |-> NoValue,
                 bytes |-> Unknown, idx |-> k]
        BY <2>1, <3>1
      <3>3. [r EXCEPT !.op = o] = q(o)
        BY <3>2
      <3> QED
        BY <3>1, <3>3
    <2>3. seq = IF x[1] \notin mod
                THEN IF x[1] \in OnlyReturned(f) THEN <<>> ELSE <<p>>
                ELSE <<[p EXCEPT !.op = IF x[1] \in OnlyReturned(f) THEN "arg_new" ELSE "arg_mod"]>>
      BY <1>2 DEF CallOp
    <2> HIDE DEF p, q, seq
    <2> QED
      BY <2>1, <2>2, <2>3
  <1>5. ASSUME NEW op \in {"arg_ref", "arg_mod", "arg_new"}
        PROVE  /\ q(op) \in PseudoOps /\ q(op).op = op /\ q(op).op \notin LateOps
               /\ q(op).var = v /\ q(op).at = h /\ q(op).idx = k /\ q(op).ptr = NoValue
               /\ q(op).op \in CallOps
    BY <1>1, <1>3 DEF PseudoOps, Operations, LateOps, CallOps, Unknown
  <1>6. (k \in Received(f) <=> x[1] \notin OnlyReturned(f)) /\ (k \in Changed(f) <=> x[1] \in mod)
    BY DEF Received, Changed
  <1>7. <<>> \in Seq(PseudoOps) /\ ToSet(<<>>) = {}
    BY DEF ToSet
  <1>8. \A p \in PseudoOps : <<p>> \in Seq(PseudoOps) /\ ToSet(<<p>>) = {p}
    BY DEF ToSet
  <1> HIDE DEF q, seq
  <1>9. CASE x[1] \notin mod /\ x[1] \in OnlyReturned(f)
    <2>1. seq = <<>>
      BY <1>4, <1>9
    <2> QED
      BY <1>6, <1>7, <1>9, <2>1 DEF seq
  <1>10. CASE x[1] \notin mod /\ x[1] \notin OnlyReturned(f)
    <2>1. PICK p : p = q("arg_ref")
      OBVIOUS
    <2>2. seq = <<p>>
      BY <1>4, <1>10, <2>1
    <2>3. /\ p \in PseudoOps /\ p.op = "arg_ref" /\ p.op \in CallOps /\ p.op \notin LateOps
          /\ p.var = v /\ p.at = h /\ p.idx = k /\ p.ptr = NoValue
      BY <1>5, <2>1
    <2>4. seq \in Seq(PseudoOps) /\ ToSet(seq) = {p}
      BY <1>8, <2>2, <2>3
    <2> QED
      BY <1>2, <1>6, <1>10, <2>3, <2>4 DEF seq
  <1>11. CASE x[1] \in mod /\ x[1] \in OnlyReturned(f)
    <2>1. PICK p : p = q("arg_new")
      OBVIOUS
    <2>2. seq = <<p>>
      BY <1>4, <1>11, <2>1
    <2>3. /\ p \in PseudoOps /\ p.op = "arg_new" /\ p.op \in CallOps /\ p.op \notin LateOps
          /\ p.var = v /\ p.at = h /\ p.idx = k /\ p.ptr = NoValue
      BY <1>5, <2>1
    <2>4. seq \in Seq(PseudoOps) /\ ToSet(seq) = {p}
      BY <1>8, <2>2, <2>3
    <2> QED
      BY <1>2, <1>6, <1>11, <2>3, <2>4 DEF seq
  <1>12. CASE x[1] \in mod /\ x[1] \notin OnlyReturned(f)
    <2>1. PICK p : p = q("arg_mod")
      OBVIOUS
    <2>2. seq = <<p>>
      BY <1>4, <1>12, <2>1
    <2>3. /\ p \in PseudoOps /\ p.op = "arg_mod" /\ p.op \in CallOps /\ p.op \notin LateOps
          /\ p.var = v /\ p.at = h /\ p.idx = k /\ p.ptr = NoValue
      BY <1>5, <2>1
    <2>4. seq \in Seq(PseudoOps) /\ ToSet(seq) = {p}
      BY <1>8, <2>2, <2>3
    <2> QED
      BY <1>2, <1>6, <1>12, <2>3, <2>4 DEF seq
  <1> QED
    BY <1>9, <1>10, <1>11, <1>12

\* A call says what the callee receives and changes.
LEMMA CallPseudos ==
    ASSUME ShadowInv, NEW i \in Instruction[fn], VisitDsaCallSite(i)
    PROVE  /\ i.op = "call" /\ i.callee \in Function
           /\ \E reads, writes : \E ps \in Seq(PseudoOps), touched \in Seq(Node \X Nat) :
                /\ VisitTouching(i, reads, writes, ps, touched)
                /\ ToSet(touched) \subseteq Variables
                /\ \A p \in ToSet(ps) :
                     /\ p.var \in Variables /\ p.at = Here /\ p.op \in CallOps
                     /\ p.op \notin LateOps /\ p.ptr = NoValue
                /\ CallSays(i.callee, ToSet(ps), Here)
  <1>1. PICK f : f = i.callee
    OBVIOUS
  <1>2. PICK fields : fields = Interface(f)
    OBVIOUS
  <1> DEFINE C == [k \in DOMAIN fields |-> CallOp(f, fields[k], k)]
             V == [k \in DOMAIN fields |-> ShadowOf(InCaller(fields[k]))]
             ps == FlattenSeq(C)
  <1>3. i.op = "call" /\ \E reads, writes : VisitTouching(i, reads, writes, ps, V)
    BY <1>1, <1>2 DEF VisitDsaCallSite
  <1>4. /\ fn \in Function /\ f \in Function /\ split \in BOOLEAN
        /\ \A n \in Reach(f) : \A o \in Types[n] \cup {0} : IsCell(InCaller(<<n, o>>))
    BY <1>1, <1>3, InstructionAssumption DEF ShadowInv, OrderInv, TypeInv
  <1>5. PICK n \in Nat : n = Len(fields) /\ DOMAIN fields = 1 .. n
    BY <1>2, <1>4, InterfaceLists
  <1>6. ASSUME NEW k \in 1 .. n PROVE V[k] \in Variables /\ V[k] = ShadowOf(InCaller(fields[k]))
    <2>1. PICK x : x = fields[k]
      OBVIOUS
    <2>2. x \in Variables /\ x[1] \in Reach(f) /\ x[2] \in Types[x[1]] \cup {0}
      BY <1>2, <1>4, <1>5, <2>1, InterfaceLists
    <2>3. x = <<x[1], x[2]>>
      BY <2>2 DEF Variables
    <2>4. IsCell(InCaller(x))
      BY <1>4, <2>2, <2>3
    <2>5. ShadowOf(InCaller(x)) \in Variables
      BY <1>4, <2>4, ShadowVariable
    <2> QED
      BY <1>5, <2>1, <2>5
  <1>7. ASSUME NEW k \in 1 .. n
        PROVE  /\ C[k] \in Seq(PseudoOps)
               /\ \A p \in ToSet(C[k]) : /\ p.var = V[k] /\ p.at = Here /\ p.idx = k
                                         /\ p.op \in CallOps /\ p.op \notin LateOps
                                         /\ p.ptr = NoValue
               /\ (\E p \in ToSet(C[k]) : p.op \in {"arg_ref", "arg_mod"})
                    <=> k \in Received(f)
               /\ (\E p \in ToSet(C[k]) : p.op \in {"arg_mod", "arg_new"})
                    <=> k \in Changed(f)
    <2>1. PICK x : x = fields[k]
      OBVIOUS
    <2>2. k \in DOMAIN Interface(f) /\ x = Interface(f)[k] /\ ShadowOf(InCaller(x)) \in Variables
      BY <1>2, <1>5, <1>6, <2>1
    <2>3. C[k] = CallOp(f, x, k) /\ V[k] = ShadowOf(InCaller(x))
      BY <1>5, <2>1
    <2> HIDE DEF C, V
    <2> QED
      BY <1>4, <2>2, <2>3, CallOpSays
  <1>8. C \in Seq(Seq(PseudoOps)) /\ Len(C) = n /\ DOMAIN C = 1 .. n
    <2>1. C = [k \in 1 .. n |-> C[k]]
      BY <1>5
    <2> HIDE DEF C
    <2> QED
      BY <1>7, <2>1
  <1>9. V \in Seq(Node \X Nat) /\ ToSet(V) \subseteq Variables
    <2>1. V = [k \in 1 .. n |-> V[k]] /\ DOMAIN V = 1 .. n
      BY <1>5
    <2>2. \A k \in 1 .. n : V[k] \in Variables /\ V[k] \in Node \X Nat
      BY <1>6 DEF Variables
    <2> HIDE DEF V
    <2> QED
      BY <2>1, <2>2 DEF ToSet
  <1> HIDE DEF C, V
  <1>10. /\ ps \in Seq(PseudoOps)
         /\ \A p : p \in ToSet(ps) <=> \E k \in DOMAIN C : p \in ToSet(C[k])
    BY <1>8, FlattenElements
  <1>11. \A p \in ToSet(ps) : /\ p.var \in Variables /\ p.at = Here /\ p.op \in CallOps
                              /\ p.op \notin LateOps /\ p.ptr = NoValue
    <2> SUFFICES ASSUME NEW p \in ToSet(ps)
                 PROVE  /\ p.var \in Variables /\ p.at = Here /\ p.op \in CallOps
                        /\ p.op \notin LateOps /\ p.ptr = NoValue
      OBVIOUS
    <2>1. PICK k \in 1 .. n : p \in ToSet(C[k])
      BY <1>8, <1>10
    <2> QED
      BY <1>6, <1>7, <2>1
  <1>12. CallSays(f, ToSet(ps), Here)
    <2>1. Received(f) \in SUBSET (1 .. n) /\ Changed(f) \in SUBSET (1 .. n)
      BY <1>2, <1>5 DEF Received, Changed
    <2>3. PICK h : h = Here
      OBVIOUS
    <2>4. AboutFields(C, n, V, h)
      BY <1>7, <2>3 DEF AboutFields
    <2>7. Says(ToSet(ps), h, {"arg_ref", "arg_mod"}) = {<<k, V[k]>> : k \in Received(f)}
      <3>1. HaveSome(C, n, {"arg_ref", "arg_mod"}, Received(f))
        BY <1>7 DEF HaveSome
      <3> QED
        BY <1>8, <2>1, <2>4, <3>1, FlattenSays
    <2>8. Says(ToSet(ps), h, {"arg_mod", "arg_new"}) = {<<k, V[k]>> : k \in Changed(f)}
      <3>1. HaveSome(C, n, {"arg_mod", "arg_new"}, Changed(f))
        BY <1>7 DEF HaveSome
      <3> QED
        BY <1>8, <2>1, <2>4, <3>1, FlattenSays
    <2>5. ASSUME NEW indices \in SUBSET (1 .. n)
          PROVE  {<<k, V[k]>> : k \in indices} = Passed(f, indices)
      <3>1. \A k \in indices : V[k] = ShadowOf(InCaller(Interface(f)[k]))
        BY <1>2, <1>6
      <3> QED
        BY <3>1 DEF Passed
    <2> QED
      BY <2>1, <2>3, <2>5, <2>7, <2>8 DEF CallSays
  <1>13. PICK reads, writes : VisitTouching(i, reads, writes, ps, V)
    BY <1>3
  <1> HIDE DEF ps
  <1>14. i.op = "call" /\ i.callee \in Function /\ CallSays(i.callee, ToSet(ps), Here)
    BY <1>1, <1>3, <1>4, <1>12
  <1>15. ps \in Seq(PseudoOps)
    BY <1>10
  <1>16. PICK qs, xs : qs = ps /\ xs = V
    OBVIOUS
  <1>17. /\ VisitTouching(i, reads, writes, qs, xs) /\ CallSays(i.callee, ToSet(qs), Here)
         /\ qs \in Seq(PseudoOps) /\ xs \in Seq(Node \X Nat) /\ ToSet(xs) \subseteq Variables
    BY <1>9, <1>13, <1>14, <1>15, <1>16
  <1>18. \A p \in ToSet(qs) : /\ p.var \in Variables /\ p.at = Here /\ p.op \in CallOps
                              /\ p.op \notin LateOps /\ p.ptr = NoValue
    BY <1>11, <1>16
  <1> QED
    BY <1>14, <1>17, <1>18

LEMMA CallInv ==
    ASSUME ShadowInv, NEW i \in Instruction[fn], VisitDsaCallSite(i)
    PROVE  ShadowInv'
  <1>1. i.callee \in Function
    BY CallPseudos
  <1>2. PICK reads, writes, ps, touched :
          /\ ps \in Seq(PseudoOps) /\ touched \in Seq(Node \X Nat)
          /\ VisitTouching(i, reads, writes, ps, touched)
          /\ ToSet(touched) \subseteq Variables
          /\ \A p \in ToSet(ps) : /\ p.var \in Variables /\ p.at = Here /\ p.op \in CallOps
                                  /\ p.op \notin LateOps /\ p.ptr = NoValue
          /\ CallSays(i.callee, ToSet(ps), Here)
    BY CallPseudos
  <1>3. \A p \in ToSet(ps) : /\ p.var \in Variables /\ p.at = Here
                             /\ p.op \notin LateOps /\ Placed(fn, p)
    BY <1>2 DEF Placed
  <1> QED
    BY <1>1, <1>2, <1>3, VisitInv


-----------------------------------------------------------------------------
(* The beginning of a function                                             *)

\* The definitions for globals.
LEMMA GlobalInitsSay ==
    ASSUME ShadowInv, fn = Main
    PROVE  /\ GlobalInits \in Seq(PseudoOps)
           /\ \A p \in ToSet(GlobalInits) :
                /\ p.var \in Variables /\ p.at = 0 /\ p.op = "global_init"
                /\ p.op \notin LateOps /\ Placed(fn, p)
  <1>1. split \in BOOLEAN /\ Globals \in Seq(Value)
    BY InstructionAssumption DEF ShadowInv, TypeInv
  <1>2. PICK n \in Nat : n = Len(Globals) /\ DOMAIN Globals = 1 .. n
    BY <1>1, LenProperties
  <1> DEFINE q(g) == Pseudo("global_init", ShadowOf(Cell[fn][g]), 0, g, Unknown)
             initial(g) == IF Cell[fn][g] = NoCell \/ Cell[fn][g].node \in Scalar THEN <<>>
                           ELSE <<q(g)>>
             C == [k \in DOMAIN Globals |-> initial(Globals[k])]
  <1>3. GlobalInits = FlattenSeq(C)
    BY DEF GlobalInits
  <1>4. ASSUME NEW g \in ToSet(Globals), Cell[fn][g] # NoCell
        PROVE  /\ q(g) \in PseudoOps /\ q(g).var \in Variables /\ q(g).at = 0
               /\ q(g).op = "global_init" /\ q(g).op \notin LateOps /\ Placed(fn, q(g))
    <2>1. IsCell(Cell[fn][g]) /\ g \in Value
      BY <1>1, <1>4, InstructionAssumption, ElementsFinite
    <2>2. PICK x : x = ShadowOf(Cell[fn][g])
      OBVIOUS
    <2>3. x \in Variables /\ x \in Node \X Nat
      BY <1>1, <2>1, <2>2, ShadowVariable DEF Variables
    <2>4. q(g) = [op |-> "global_init", var |-> x, at |-> 0, ptr |-> g,
                  bytes |-> Unknown, idx |-> 0]
      BY <2>2 DEF Pseudo
    <2>5. /\ q(g) \in PseudoOps /\ q(g).at = 0
          /\ q(g).op = "global_init" /\ q(g).op \notin LateOps
      <3> HIDE DEF q
      <3> QED
        BY <2>1, <2>3, <2>4 DEF PseudoOps, Operations, LateOps, Unknown
    <2>6. q(g).var = x /\ q(g).ptr = g
      BY <2>4
    <2>7. Placed(fn, q(g))
      BY <1>4, <2>2, <2>6 DEF Placed
    <2> HIDE DEF q
    <2> QED
      BY <2>3, <2>5, <2>6, <2>7
  <1>5. <<>> \in Seq(PseudoOps) /\ ToSet(<<>>) = {}
    BY DEF ToSet
  <1>6. \A p \in PseudoOps : <<p>> \in Seq(PseudoOps) /\ ToSet(<<p>>) = {p}
    BY DEF ToSet
  <1> HIDE DEF q
  <1>7. ASSUME NEW k \in 1 .. n
        PROVE  /\ C[k] \in Seq(PseudoOps)
               /\ \A p \in ToSet(C[k]) :
                    /\ p.var \in Variables /\ p.at = 0 /\ p.op = "global_init"
                /\ p.op \notin LateOps /\ Placed(fn, p)
    <2>1. PICK g : g = Globals[k]
      OBVIOUS
    <2>2. g \in ToSet(Globals)
      BY <1>2, <2>1 DEF ToSet
    <2>3. C[k] = initial(g)
      BY <1>2, <2>1
    <2>4. CASE Cell[fn][g] = NoCell \/ Cell[fn][g].node \in Scalar
      <3>1. C[k] = <<>>
        BY <2>3, <2>4
      <3> QED
        BY <1>5, <3>1
    <2>5. CASE ~(Cell[fn][g] = NoCell \/ Cell[fn][g].node \in Scalar)
      <3>1. PICK p : p = q(g)
        OBVIOUS
      <3>2. C[k] = <<p>>
        BY <2>3, <2>5, <3>1
      <3>3. /\ p \in PseudoOps /\ p.var \in Variables /\ p.at = 0 /\ p.op = "global_init"
            /\ p.op \notin LateOps /\ Placed(fn, p)
        BY <1>4, <2>2, <2>5, <3>1
      <3> QED
        BY <1>6, <3>2, <3>3, ZenonT(30)
    <2> QED
      BY <2>4, <2>5
  <1>8. C \in Seq(Seq(PseudoOps)) /\ DOMAIN C = 1 .. n
    <2>1. C = [k \in 1 .. n |-> C[k]]
      BY <1>2
    <2> HIDE DEF C
    <2> QED
      BY <1>7, <2>1
  <1> HIDE DEF C
  <1>9. /\ FlattenSeq(C) \in Seq(PseudoOps)
        /\ \A p : p \in ToSet(FlattenSeq(C)) <=> \E k \in DOMAIN C : p \in ToSet(C[k])
    BY <1>8, FlattenElements
  <1> QED
    BY <1>3, <1>7, <1>8, <1>9

\* The beginning of the visit.
LEMMA BeginInv ==
    ASSUME ShadowInv, BeginFunction
    PROVE  ShadowInv'
  <1>1. PICK ps : ps = IF fn = Main THEN GlobalInits ELSE <<>>
    OBVIOUS
  <1>2. /\ phase = "begin" /\ phase' = "visit" /\ Emit(ps, <<>>)
        /\ UNCHANGED <<flags, todo, fn, body, region, arg, use, def, prev>>
    BY <1>1 DEF BeginFunction
  <1>3. /\ ps \in Seq(PseudoOps)
        /\ \A p \in ToSet(ps) : /\ p.var \in Variables /\ p.at = 0
                                /\ p.op \notin LateOps /\ Placed(fn, p)
    <2>1. CASE fn = Main
      BY <1>1, <2>1, GlobalInitsSay
    <2>2. CASE fn # Main
      BY <1>1, <2>2 DEF ToSet
    <2> QED
      BY <2>1, <2>2
  <1>4. <<>> \in Seq(Node \X Nat) /\ ToSet(<<>>) \subseteq Variables
    BY DEF ToSet
  <1>5. PICK f : f = fn
    OBVIOUS
  <1>6. f \in Function /\ BodyInv(f) /\ CodeInv(f) /\ TypeInv
    BY <1>5 DEF ShadowInv, OrderInv, FunctionInv
  <1>7. ~Complete(f) /\ ~Visiting(f) /\ ~Complete(f)' /\ Visiting(f)'
    BY <1>2, <1>5, VisitedFunction DEF Visiting, Complete
  <1>8. body[f] = <<>> /\ code[f] = <<>> /\ arg[f] = <<>> /\ region[f].to = 0
    BY <1>6, <1>7 DEF BodyInv
  <1>9. /\ DOMAIN code' = Function /\ code'[f] \in Seq(PseudoOps)
        /\ ToSet(code'[f]) = ToSet(code[f]) \cup ToSet(ps)
        /\ Len(code'[f]) >= Len(code[f]) /\ Len(code[f]) \in Nat
        /\ Len(code'[f]) \in Nat
        /\ \A g \in Function : g # f => code'[g] = code[g]
        /\ shadows' \subseteq Variables /\ IsFiniteSet(shadows')
        /\ NumbersOK(ids') /\ Extends(ids, ids')
        /\ \A p \in ToSet(ps) : Taken(ids', p.var[1])
    BY <1>2, <1>3, <1>4, <1>5, EmitAdds
  <1>10. UNCHANGED flags /\ Variables' = Variables
    BY <1>2, FlagsStay
  <1>11. TypeInv'
    BY <1>2, <1>6, <1>9, <1>10 DEF TypeInv, flags
  <1>12. OrderInv'
    BY <1>2 DEF ShadowInv, OrderInv
  <1>13. SolveInv'
    <2>1. /\ use \in 0 .. Len(code[f]) /\ def \in None .. Len(code[f])
          /\ prev \in None .. Len(code[f])
      BY <1>5 DEF ShadowInv, SolveInv
    <2>2. /\ use \in 0 .. Len(code'[f]) /\ def \in None .. Len(code'[f])
          /\ prev \in None .. Len(code'[f])
      BY <1>9, <2>1 DEF None
    <2> QED
      BY <1>2, <1>5, <2>2 DEF SolveInv
  <1>14. BodyInv(f)'
    <2>1. body'[f] = body[f] /\ region'[f] = region[f] /\ arg'[f] = arg[f]
      BY <1>2
    <2> QED
      BY <1>6, <1>7, <1>8, <2>1 DEF BodyInv
  <1>15. CodeInv(f)'
    <2>1. ToSet(code[f]) = {} /\ Len(body'[f]) = 0
      BY <1>2, <1>8 DEF ToSet
    <2>2. \A p \in ToSet(code'[f]) : /\ p.var \in Variables /\ Taken(ids', p.var[1])
                                     /\ p.at <= Len(body'[f]) /\ p.op \notin LateOps
                                     /\ Placed(f, p)
      BY <1>3, <1>5, <1>9, <2>1
    <2>3. \A p \in ToSet(code'[f]) : Placed(f, p)'
      BY <1>10, <2>2, FlagsStay
    <2> QED
      BY <1>9, <1>10, <2>2, <2>3 DEF CodeInv
  <1>16. CallsInv(f)'
    <2>1. DOMAIN body'[f] = {}
      BY <1>2, <1>8
    <2> QED
      BY <1>7, <2>1 DEF CallsInv
  <1>17. ASSUME NEW g \in Function PROVE FunctionInv(g)'
    <2>1. CASE g = f
      BY <1>14, <1>15, <1>16, <2>1 DEF FunctionInv
    <2>2. CASE g # f
      <3>1. body'[g] = body[g] /\ code'[g] = code[g] /\ region'[g] = region[g] /\ arg'[g] = arg[g]
        BY <1>2, <1>9, <2>2
      <3>2. (Complete(g)' <=> Complete(g)) /\ (Visiting(g) => Visiting(g)')
        BY <1>2, <1>5, <2>2 DEF Complete, Visiting
      <3> QED
        BY <1>9, <1>10, <3>1, <3>2, OtherFunction
    <2> QED
      BY <2>1, <2>2
  <1> QED
    BY <1>9, <1>11, <1>12, <1>13, <1>17 DEF ShadowInv

-----------------------------------------------------------------------------
(* The end of the visit                                                    *)

\* The next use, and the definition it has.
LEMMA NextUseRange ==
    ASSUME NEW n \in Nat, NEW cs, DOMAIN cs = 1 .. n,
           NEW args \in [1 .. n -> None .. n], NEW k, NextUse(cs, args, k)
    PROVE  /\ prev' = None
           /\ \/ phase' = "end" /\ use' = 0 /\ def' = None
              \/ /\ phase' = "solve" /\ use' \in 1 .. n /\ def' \in None .. n
                 /\ def' = args[use']
  <1> DEFINE later == {j \in DOMAIN cs : j > k /\ IsUse(cs[j])}
  <1>1. /\ prev' = None
        /\ IF later = {} THEN phase' = "end" /\ use' = 0 /\ def' = None
           ELSE phase' = "solve" /\ use' = Min(later) /\ def' = args[Min(later)]
    BY DEF NextUse
  <1>2. later \in SUBSET (1 .. n)
    OBVIOUS
  <1> HIDE DEF later
  <1>3. CASE later = {}
    BY <1>1, <1>3
  <1>4. CASE later # {}
    <2>1. PICK m : m = Min(later)
      OBVIOUS
    <2>2. m \in 1 .. n
      BY <1>2, <1>4, <2>1, MaxMin
    <2> QED
      BY <1>1, <1>4, <2>1, <2>2
  <1> QED
    BY <1>3, <1>4

\* A definition that reaches a pseudo-instruction stands above it, and is one of the
\* variable.
LEMMA ReachingRange ==
    ASSUME NEW n \in Nat, NEW cs, DOMAIN cs = 1 .. n, NEW r, NEW k \in 1 .. n, NEW x
    PROVE  LET d == Reaching(cs, r, k, x)
           IN  d \in None .. k - 1 /\ (d > 0 => IsDef(cs[d]) /\ cs[d].var = x)
  <1> DEFINE defines(d) == IsDef(cs[d]) /\ cs[d].var = x
             within(i) == r.from <= i /\ i <= r.to
             above == {d \in 1 .. k - 1 : defines(d)}
             inside == {d \in DOMAIN cs : defines(d) /\ within(cs[d].at)}
             at == cs[k].at
             recent == IF inside = {} \/ at < r.from \/ (r.kind = "if" /\ within(at)) THEN above
                       ELSE IF within(at) THEN above \cap inside
                       ELSE {d \in above : cs[d].at > r.to}
  <1>1. Reaching(cs, r, k, x) = IF recent # {} THEN Max(recent)
                                ELSE IF inside # {} /\ at >= r.from THEN Phi ELSE None
    BY DEF Reaching
  <1>2. recent \in SUBSET (1 .. k - 1) /\ \A d \in recent : IsDef(cs[d]) /\ cs[d].var = x
    <2>0. \A d \in above : IsDef(cs[d]) /\ cs[d].var = x
      OBVIOUS
    <2>1. above \in SUBSET (1 .. k - 1)
      OBVIOUS
    <2>2. above \cap inside \in SUBSET (1 .. k - 1)
      OBVIOUS
    <2>3. {d \in above : cs[d].at > r.to} \in SUBSET (1 .. k - 1)
      OBVIOUS
    <2> HIDE DEF above, inside
    <2> QED
      BY <2>0, <2>1, <2>2, <2>3
  <1> HIDE DEF recent, inside, at
  <1>3. PICK j \in Nat : j = k - 1
    OBVIOUS
  <1>4. CASE recent # {}
    <2>1. Max(recent) \in 1 .. j /\ Max(recent) \in recent
      BY <1>2, <1>3, <1>4, MaxMin
    <2>2. Reaching(cs, r, k, x) = Max(recent)
      BY <1>1, <1>4
    <2> QED
      BY <1>2, <1>3, <2>1, <2>2 DEF None
  <1>5. CASE recent = {}
    <2>1. Reaching(cs, r, k, x) \in {Phi, None}
      BY <1>1, <1>5
    <2> QED
      BY <1>3, <2>1 DEF Phi, None
  <1> QED
    BY <1>4, <1>5

\* The operands are positions above in the code, of definitions of the same variable, if
\* every marker of an initial value has one, and has it above.
LEMMA OperandRange ==
    ASSUME NEW n \in Nat, NEW cs, DOMAIN cs = 1 .. n, NEW r, NEW k \in 1 .. n,
           cs[k].op = "in" =>
             \E d \in 1 .. n : cs[d].op \in {"init", "arg_init"} /\ cs[d].var = cs[k].var,
           cs[k].op = "in" =>
             \A d \in 1 .. n : cs[d].op \in {"init", "arg_init"} => d < k
    PROVE  Operand(cs, r, k) \in None .. n /\ OperandOK(cs, k, Operand(cs, r, k))
  <1>1. CASE cs[k].op = "in"
    <2> DEFINE initial(d) == cs[d].op \in {"init", "arg_init"} /\ cs[d].var = cs[k].var
    <2>1. Operand(cs, r, k) = CHOOSE d \in DOMAIN cs : initial(d)
      BY <1>1 DEF Operand
    <2>2. \E d \in DOMAIN cs : initial(d)
      BY <1>1
    <2> HIDE DEF initial
    <2>3. Operand(cs, r, k) \in 1 .. n /\ initial(Operand(cs, r, k))
      BY <2>1, <2>2
    <2>4. PICK d : d = Operand(cs, r, k)
      OBVIOUS
    <2>5. /\ d \in 1 .. n /\ cs[d].op \in {"init", "arg_init"} /\ cs[d].var = cs[k].var
      BY <2>3, <2>4 DEF initial
    <2>6. d < k /\ IsDef(cs[d])
      BY <1>1, <2>5 DEF IsDef, IsInit
    <2> QED
      BY <2>4, <2>5, <2>6 DEF None, OperandOK
  <1>2. CASE cs[k].op # "in"
    <2>1. PICK d : d = Operand(cs, r, k)
      OBVIOUS
    <2>2. d = Reaching(cs, r, k, cs[k].var)
      BY <1>2, <2>1 DEF Operand
    <2>3. d \in None .. k - 1 /\ (d > 0 => IsDef(cs[d]) /\ cs[d].var = cs[k].var)
      BY <2>2, ReachingRange
    <2>4. d \in None .. n /\ d < k
      BY <2>3 DEF None
    <2> QED
      BY <2>1, <2>3, <2>4 DEF OperandOK
  <1> QED
    BY <1>1, <1>2

\* The initial values.
LEMMA InitOpsSay ==
    ASSUME NEW f, NEW used \in SUBSET Variables, IsFiniteSet(used)
    PROVE  /\ InitOps(f, used) \in Seq(PseudoOps)
           /\ \A p \in ToSet(InitOps(f, used)) :
                /\ p.var \in used /\ p.at = 0 /\ p.op \in {"init", "arg_init"}
                /\ p.ptr = NoValue
           /\ \A x \in used : \E p \in ToSet(InitOps(f, used)) : p.var = x
           /\ InOrder(used) \in Seq(Node \X Nat) /\ ToSet(InOrder(used)) = used
  <1> DEFINE order == InOrder(used)
             q(x) == Pseudo(IF x[1] \in Reach(f) THEN "arg_init" ELSE "init", x, 0,
                            NoValue, Unknown)
  <1>1. used \in SUBSET (Nat \X Nat) /\ used \subseteq Node \X Nat
    <2>1. \A x \in used : x \in Node \X Nat
      BY DEF Variables
    <2>2. Node \X Nat \subseteq Nat \X Nat
      BY GraphAssumption
    <2> QED
      BY <2>1, <2>2
  <1>2. order \in Seq(used) /\ ToSet(order) = used
    BY <1>1, InOrderLists
  <1>3. order \in Seq(Node \X Nat)
    BY <1>1, <1>2, SeqMonotonic
  <1>4. PICK n \in Nat : n = Len(order) /\ DOMAIN order = 1 .. n
    BY <1>2, LenProperties
  <1>5. InitOps(f, used) = [k \in 1 .. n |-> q(order[k])]
    BY <1>4 DEF InitOps
  <1>6. ASSUME NEW x \in used
        PROVE  /\ q(x) \in PseudoOps /\ q(x).var = x /\ q(x).at = 0
               /\ q(x).op \in {"init", "arg_init"} /\ q(x).ptr = NoValue
    <2>1. PICK op : op = IF x[1] \in Reach(f) THEN "arg_init" ELSE "init"
      OBVIOUS
    <2>2. op \in {"init", "arg_init"}
      BY <2>1
    <2>3. q(x) = [op |-> op, var |-> x, at |-> 0, ptr |-> NoValue, bytes |-> Unknown, idx |-> 0]
      BY <2>1 DEF Pseudo
    <2>4. x \in Node \X Nat
      BY <1>1
    <2> HIDE DEF q
    <2> QED
      BY <2>2, <2>3, <2>4 DEF PseudoOps, Operations, Unknown
  <1> HIDE DEF q, order
  <1>7. \A k \in 1 .. n : order[k] \in used
    BY <1>2, <1>4 DEF ToSet
  <1>8. \A x \in used : \E k \in 1 .. n : order[k] = x
    BY <1>2, <1>4 DEF ToSet
  <1>9. PICK s : s = InitOps(f, used) /\ s = [k \in 1 .. n |-> q(order[k])]
    BY <1>5
  <1>10. s \in Seq(PseudoOps) /\ DOMAIN s = 1 .. n /\ \A k \in 1 .. n : s[k] = q(order[k])
    <2>1. \A k \in 1 .. n : q(order[k]) \in PseudoOps
      BY <1>6, <1>7
    <2> QED
      BY <1>9, <2>1
  <1>11. \A p \in ToSet(s) : /\ p.var \in used /\ p.at = 0 /\ p.op \in {"init", "arg_init"}
                             /\ p.ptr = NoValue
    BY <1>6, <1>7, <1>10 DEF ToSet
  <1>12. \A x \in used : \E p \in ToSet(s) : p.var = x
    <2> SUFFICES ASSUME NEW x \in used PROVE \E p \in ToSet(s) : p.var = x
      OBVIOUS
    <2>1. PICK k \in 1 .. n : order[k] = x
      BY <1>8
    <2>2. s[k] \in ToSet(s) /\ s[k] = q(x)
      BY <1>10, <2>1 DEF ToSet
    <2> QED
      BY <1>6, <2>2
  <1> QED
    BY <1>2, <1>3, <1>9, <1>10, <1>11, <1>12 DEF order

\* The markers of a field of the interface.
LEMMA MarkOpsSay ==
    ASSUME ShadowInv, NEW f \in Function, NEW k \in DOMAIN Interface(f), NEW x,
           x = Interface(f)[k], NEW at \in Nat, at = Len(body[f]) + 1
    PROVE  /\ MarkOps(f, x, k) \in Seq(PseudoOps)
           /\ \A p \in ToSet(MarkOps(f, x, k)) :
                /\ p.var = x /\ p.at = at /\ p.idx = k
                /\ p.ptr = NoValue /\ p.op \in {"in", "out"}
           /\ (\E p \in ToSet(MarkOps(f, x, k)) : p.op \in {"in"}) <=> k \in Received(f)
           /\ (\E p \in ToSet(MarkOps(f, x, k)) : p.op \in {"out"}) <=> k \in Changed(f)
  <1>1. k \in Nat /\ x \in Node \X Nat
    BY InterfaceLists DEF Variables
  <1> DEFINE q(op) == [op |-> op, var |-> x, at |-> at, ptr |-> NoValue,
                       bytes |-> Unknown, idx |-> k]
             ins == IF x[1] \in OnlyReturned(f) THEN <<>> ELSE <<q("in")>>
             outs == IF x[1] \in mod THEN <<q("out")>> ELSE <<>>
  <1>2. MarkOps(f, x, k) = ins \o outs
    <2> DEFINE p(op) == [Pseudo(op, x, at, NoValue, Unknown) EXCEPT !.idx = k]
    <2>1. p("in") = q("in") /\ p("out") = q("out")
      BY DEF Pseudo
    <2>2. MarkOps(f, x, k) = (IF x[1] \in OnlyReturned(f) THEN <<>> ELSE <<p("in")>>)
                               \o (IF x[1] \in mod THEN <<p("out")>> ELSE <<>>)
      BY DEF MarkOps
    <2> HIDE DEF p, q
    <2> QED
      BY <2>1, <2>2
  <1>3. /\ q("in") \in PseudoOps /\ q("in").op = "in" /\ q("in").var = x
        /\ q("in").at = at /\ q("in").idx = k /\ q("in").ptr = NoValue
        /\ q("out") \in PseudoOps /\ q("out").op = "out" /\ q("out").var = x
        /\ q("out").at = at /\ q("out").idx = k /\ q("out").ptr = NoValue
    BY <1>1 DEF PseudoOps, Operations, Unknown
  <1> HIDE DEF q
  <1>4. ins \in Seq(PseudoOps) /\ outs \in Seq(PseudoOps)
    BY <1>3
  <1>5. ToSet(ins) = IF x[1] \in OnlyReturned(f) THEN {} ELSE {q("in")}
    BY DEF ToSet
  <1>6. ToSet(outs) = IF x[1] \in mod THEN {q("out")} ELSE {}
    BY DEF ToSet
  <1>7. (k \in Received(f) <=> x[1] \notin OnlyReturned(f)) /\ (k \in Changed(f) <=> x[1] \in mod)
    BY DEF Received, Changed
  <1> HIDE DEF ins, outs
  <1>8. PICK s : s = MarkOps(f, x, k)
    OBVIOUS
  <1>9. s \in Seq(PseudoOps) /\ ToSet(s) = ToSet(ins) \cup ToSet(outs)
    BY <1>2, <1>4, <1>8, ConcatProperties, ConcatElements
  <1>10. \A p \in ToSet(s) : p = q("in") \/ p = q("out")
    BY <1>5, <1>6, <1>9
  <1>11. \A p \in ToSet(s) : /\ p.var = x /\ p.at = at /\ p.idx = k
                             /\ p.ptr = NoValue /\ p.op \in {"in", "out"}
    BY <1>3, <1>10
  <1>12. (\E p \in ToSet(s) : p.op = "in") <=> x[1] \notin OnlyReturned(f)
    <2>1. ASSUME NEW p \in ToSet(s), p.op = "in" PROVE x[1] \notin OnlyReturned(f)
      <3>1. p # q("out")
        BY <1>3, <2>1
      <3>2. p \in ToSet(ins)
        BY <1>6, <1>9, <3>1
      <3> QED
        BY <1>5, <3>2
    <2>2. ASSUME x[1] \notin OnlyReturned(f) PROVE q("in") \in ToSet(s) /\ q("in").op = "in"
      BY <1>3, <1>5, <1>9, <2>2
    <2> QED
      BY <2>1, <2>2
  <1>13. (\E p \in ToSet(s) : p.op = "out") <=> x[1] \in mod
    <2>1. ASSUME NEW p \in ToSet(s), p.op = "out" PROVE x[1] \in mod
      <3>1. p # q("in")
        BY <1>3, <2>1
      <3>2. p \in ToSet(outs)
        BY <1>5, <1>9, <3>1
      <3> QED
        BY <1>6, <3>2
    <2>2. ASSUME x[1] \in mod PROVE q("out") \in ToSet(s) /\ q("out").op = "out"
      BY <1>3, <1>6, <1>9, <2>2
    <2> QED
      BY <2>1, <2>2
  <1> QED
    BY <1>7, <1>8, <1>9, <1>11, <1>12, <1>13

\* The markers of a function.
MarksOf(f) ==
    FlattenSeq([k \in DOMAIN Interface(f) |-> MarkOps(f, Interface(f)[k], k)])
LEMMA MarksSay ==
    ASSUME ShadowInv, NEW f \in Function, NEW at \in Nat, at = Len(body[f]) + 1
    PROVE  /\ MarksOf(f) \in Seq(PseudoOps)
           /\ \A p \in ToSet(MarksOf(f)) : /\ p.var \in FieldsOf(f) /\ p.at = at
                                           /\ p.ptr = NoValue /\ p.op \in {"in", "out"}
           /\ MarkersSay(f, ToSet(MarksOf(f)), at)
  <1>1. PICK I : I = Interface(f)
    OBVIOUS
  <1>2. PICK n \in Nat : n = Len(I) /\ DOMAIN I = 1 .. n
    BY <1>1, InterfaceLists
  <1> DEFINE C == [k \in DOMAIN I |-> MarkOps(f, I[k], k)]
  <1>3. MarksOf(f) = FlattenSeq(C)
    BY <1>1 DEF MarksOf
  <1>4. ASSUME NEW k \in 1 .. n
        PROVE  /\ C[k] \in Seq(PseudoOps)
               /\ \A p \in ToSet(C[k]) : /\ p.var = I[k] /\ p.at = at /\ p.idx = k
                                         /\ p.ptr = NoValue /\ p.op \in {"in", "out"}
               /\ (\E p \in ToSet(C[k]) : p.op \in {"in"}) <=> k \in Received(f)
               /\ (\E p \in ToSet(C[k]) : p.op \in {"out"}) <=> k \in Changed(f)
    <2>1. PICK x : x = I[k]
      OBVIOUS
    <2>2. C[k] = MarkOps(f, x, k) /\ k \in DOMAIN Interface(f) /\ x = Interface(f)[k]
      BY <1>1, <1>2, <2>1
    <2> HIDE DEF C
    <2> QED
      BY <2>1, <2>2, MarkOpsSay
  <1>5. C \in Seq(Seq(PseudoOps)) /\ Len(C) = n /\ DOMAIN C = 1 .. n
    <2>1. C = [k \in 1 .. n |-> C[k]]
      BY <1>2
    <2> HIDE DEF C
    <2> QED
      BY <1>4, <2>1
  <1> HIDE DEF C
  <1>6. /\ FlattenSeq(C) \in Seq(PseudoOps)
        /\ \A p : p \in ToSet(FlattenSeq(C)) <=> \E k \in DOMAIN C : p \in ToSet(C[k])
    BY <1>5, FlattenElements
  <1>7. \A k \in 1 .. n : I[k] \in FieldsOf(f)
    <2>1. ToSet(I) = FieldsOf(f)
      BY <1>1, InterfaceLists
    <2> QED
      BY <1>2, <2>1 DEF ToSet
  <1>8. AboutFields(C, n, I, at)
    BY <1>4 DEF AboutFields
  <1>9. HaveSome(C, n, {"in"}, Received(f)) /\ HaveSome(C, n, {"out"}, Changed(f))
    BY <1>4 DEF HaveSome
  <1>10. Received(f) \in SUBSET (1 .. n) /\ Changed(f) \in SUBSET (1 .. n)
    BY <1>1, <1>2 DEF Received, Changed
  <1>11. Says(ToSet(FlattenSeq(C)), at, {"in"}) = {<<k, I[k]>> : k \in Received(f)}
    BY <1>5, <1>8, <1>9, <1>10, FlattenSays
  <1>12. Says(ToSet(FlattenSeq(C)), at, {"out"}) = {<<k, I[k]>> : k \in Changed(f)}
    BY <1>5, <1>8, <1>9, <1>10, FlattenSays
  <1>13. MarkersSay(f, ToSet(FlattenSeq(C)), at)
    BY <1>1, <1>11, <1>12 DEF MarkersSay, Marked
  <1>14. ASSUME NEW p \in ToSet(FlattenSeq(C)) 
         PROVE  /\ p.var \in FieldsOf(f) /\ p.at = at
                /\ p.ptr = NoValue /\ p.op \in {"in", "out"}
    <2>1. PICK k \in 1 .. n : p \in ToSet(C[k])
      BY <1>5, <1>6
    <2>2. p.var = I[k] /\ p.at = at /\ p.ptr = NoValue /\ p.op \in {"in", "out"}
      BY <1>4, <2>1
    <2> QED
      BY <1>7, <2>2
  <1> QED
    BY <1>3, <1>6, <1>13, <1>14

\* What the end of the visit makes of a function.
MarksAtEnd(f) == IF f \in Returns THEN MarksOf(f) ELSE <<>>
UsedAtEnd(f) == shadows \cup FieldsOf(f)
CodeAtEnd(f) == InitOps(f, UsedAtEnd(f)) \o code[f] \o MarksAtEnd(f)
LEMMA EndVisitSays ==
    ASSUME EndVisit, NEW f \in Function, f = fn, NEW n, n = Len(body[f])
    PROVE  /\ phase = "visit" /\ shadows' = UsedAtEnd(f) /\ ids' = IdsFor(ids, InOrder(UsedAtEnd(f)))
           /\ code' = [code EXCEPT ![f] = CodeAtEnd(f)]
           /\ \E r \in Regions(n) :
                /\ region' = [region EXCEPT ![f] = r]
                /\ IF f \in Returns
                   THEN LET args == [k \in DOMAIN CodeAtEnd(f) |-> Operand(CodeAtEnd(f), r, k)]
                        IN  arg' = [arg EXCEPT ![f] = args] /\ NextUse(CodeAtEnd(f), args, 0)
                   ELSE phase' = "end" /\ UNCHANGED <<arg, use, def, prev>>
           /\ UNCHANGED <<flags, todo, fn, body>>
  <1> DEFINE marks == IF f \in Returns THEN MarksOf(f) ELSE <<>>
             used == shadows \cup FieldsOf(f)
             inits == InitOps(f, used)
             cs == inits \o code[f] \o marks
  <1>4. /\ phase = "visit" /\ shadows' = used /\ ids' = IdsFor(ids, InOrder(used))
        /\ code' = [code EXCEPT ![f] = cs]
        /\ \E r \in Regions(n) :
             /\ region' = [region EXCEPT ![f] = r]
             /\ IF f \in Returns
                THEN LET args == [k \in DOMAIN cs |-> Operand(cs, r, k)]
                     IN  arg' = [arg EXCEPT ![f] = args] /\ NextUse(cs, args, 0)
                ELSE phase' = "end" /\ UNCHANGED <<arg, use, def, prev>>
        /\ UNCHANGED <<flags, todo, fn, body>>
    <2> DEFINE fields == Interface(fn)
               u == shadows \cup {fields[k] : k \in DOMAIN fields}
               ms == FlattenSeq([k \in DOMAIN fields |-> MarkOps(fn, fields[k], k)])
               c == InitOps(fn, u) \o code[fn] \o (IF fn \in Returns THEN ms ELSE <<>>)
    <2>1. /\ phase = "visit" /\ shadows' = u /\ ids' = IdsFor(ids, InOrder(u))
          /\ code' = [code EXCEPT ![fn] = c]
          /\ \E r \in Regions(Len(body[fn])) :
               /\ region' = [region EXCEPT ![fn] = r]
               /\ IF fn \in Returns
                  THEN LET args == [k \in DOMAIN c |-> Operand(c, r, k)]
                       IN  arg' = [arg EXCEPT ![fn] = args] /\ NextUse(c, args, 0)
                  ELSE phase' = "end" /\ UNCHANGED <<arg, use, def, prev>>
          /\ UNCHANGED <<flags, todo, fn, body>>
      BY DEF EndVisit
    <2>2. {fields[k] : k \in DOMAIN fields} = FieldsOf(fn)
      <3>1. ToSet(fields) = FieldsOf(fn)
        BY InterfaceLists
      <3> QED
        BY <3>1 DEF ToSet
    <2>3. u = used
      BY <2>2
    <2>4. ms = MarksOf(fn)
      BY DEF MarksOf
    <2> HIDE DEF fields, u, ms, used
    <2>5. c = cs
      BY <2>3, <2>4
    <2> HIDE DEF c, cs
    <2>6. PICK d : d = cs
      OBVIOUS
    <2>7. c = d
      BY <2>5, <2>6
    <2>8. PICK r \in Regions(Len(body[fn])) :
               /\ region' = [region EXCEPT ![fn] = r]
               /\ IF fn \in Returns
                  THEN LET args == [k \in DOMAIN d |-> Operand(d, r, k)]
                       IN  arg' = [arg EXCEPT ![fn] = args] /\ NextUse(d, args, 0)
                  ELSE phase' = "end" /\ UNCHANGED <<arg, use, def, prev>>
      BY <2>1, <2>7
    <2>9. r \in Regions(n)
      BY <2>8
    <2>10. code' = [code EXCEPT ![f] = cs] /\ shadows' = used /\ ids' = IdsFor(ids, InOrder(used))
      BY <2>1, <2>3, <2>5
    <2> QED
      BY <2>1, <2>6, <2>8, <2>9, <2>10
  <1>5. used = UsedAtEnd(f) /\ cs = CodeAtEnd(f)
    BY DEF UsedAtEnd, CodeAtEnd, MarksAtEnd
  <1> HIDE DEF used, cs
  <1> QED
    BY <1>4, <1>5, ZenonT(30)

\* Every function is instrumented to its end.
LEMMA EndVisitInv ==
    ASSUME ShadowInv, EndVisit
    PROVE  ShadowInv'
  <1>1. PICK f : f = fn
    OBVIOUS
  <1>2. f \in Function /\ BodyInv(f) /\ CodeInv(f) /\ CallsInv(f) /\ TypeInv /\ split \in BOOLEAN
    BY <1>1 DEF ShadowInv, OrderInv, FunctionInv, TypeInv
  <1> DEFINE marks == MarksAtEnd(f)
             used == UsedAtEnd(f)
             inits == InitOps(f, used)
             cs == CodeAtEnd(f)
  <1>3. PICK n \in Nat : n = Len(body[f]) /\ DOMAIN body[f] = 1 .. n
    BY <1>2, LenProperties DEF BodyInv
  <1>4. /\ phase = "visit" /\ shadows' = used /\ ids' = IdsFor(ids, InOrder(used))
        /\ code' = [code EXCEPT ![f] = cs]
        /\ \E r \in Regions(n) :
             /\ region' = [region EXCEPT ![f] = r]
             /\ IF f \in Returns
                THEN LET args == [k \in DOMAIN cs |-> Operand(cs, r, k)]
                     IN  arg' = [arg EXCEPT ![f] = args] /\ NextUse(cs, args, 0)
                ELSE phase' = "end" /\ UNCHANGED <<arg, use, def, prev>>
        /\ UNCHANGED <<flags, todo, fn, body>>
    BY <1>1, <1>2, <1>3, EndVisitSays
  <1>5. used \in SUBSET Variables /\ IsFiniteSet(used) /\ FieldsOf(f) \subseteq Variables
    <2>1. Interface(f) \in Seq(Node \X Nat) /\ ToSet(Interface(f)) = FieldsOf(f)
      BY <1>2, InterfaceLists
    <2>2. IsFiniteSet(FieldsOf(f))
      BY <2>1, ElementsFinite
    <2>3. FieldsOf(f) \subseteq Variables
      <3>1. \A k \in DOMAIN Interface(f) : Interface(f)[k] \in Variables
        BY <1>2, InterfaceLists
      <3> QED
        BY <2>1, <3>1 DEF ToSet
    <2> QED
      BY <1>2, <2>2, <2>3, FS_Union DEF TypeInv, UsedAtEnd
  <1> HIDE DEF used
  <1>6. /\ inits \in Seq(PseudoOps)
        /\ \A p \in ToSet(inits) : /\ p.var \in used /\ p.at = 0 /\ p.op \in {"init", "arg_init"}
                                   /\ p.ptr = NoValue
        /\ \A x \in used : \E p \in ToSet(inits) : p.var = x
        /\ InOrder(used) \in Seq(Node \X Nat) /\ ToSet(InOrder(used)) = used
    BY <1>5, InitOpsSay
  <1>7. n + 1 \in Nat /\ n + 1 = Len(body[f]) + 1
    BY <1>3
  <1>8. /\ marks \in Seq(PseudoOps)
        /\ \A p \in ToSet(marks) : /\ p.var \in FieldsOf(f) /\ p.at = n + 1
                                   /\ p.ptr = NoValue /\ p.op \in {"in", "out"}
        /\ f \in Returns => MarkersSay(f, ToSet(marks), n + 1)
    <2>1. CASE f \in Returns
      BY <1>2, <1>7, <2>1, MarksSay DEF MarksAtEnd
    <2>2. CASE f \notin Returns
      BY <2>2 DEF ToSet, MarksAtEnd
    <2> QED
      BY <2>1, <2>2
  <1>9. PICK old : old = code[f]
    OBVIOUS
  <1>10. ~Complete(f)
    BY <1>1, <1>4, VisitedFunction
  <1>11. /\ old \in Seq(PseudoOps)
         /\ \A p \in ToSet(old) : /\ p.var \in Variables /\ Taken(ids, p.var[1])
                                  /\ p.at <= n /\ p.op \notin LateOps /\ p.at \in Nat
                                  /\ Placed(f, p)
    <2>1. old \in Seq(PseudoOps) /\ ToSet(old) \subseteq PseudoOps
      BY <1>2, <1>9, ElementsFinite DEF CodeInv
    <2>2. \A p \in ToSet(old) : /\ p.var \in Variables /\ Taken(ids, p.var[1])
                                /\ p.at <= n /\ p.op \notin LateOps /\ Placed(f, p)
      BY <1>2, <1>3, <1>9, <1>10 DEF CodeInv
    <2> QED
      BY <2>1, <2>2 DEF PseudoOps
  <1> HIDE DEF inits, marks
  <1>12. /\ cs \in Seq(PseudoOps) /\ ToSet(cs) = ToSet(inits) \cup ToSet(old) \cup ToSet(marks)
         /\ Len(cs) \in Nat /\ DOMAIN cs = 1 .. Len(cs)
         /\ Len(cs) >= Len(old) /\ Len(old) \in Nat /\ Len(inits) \in Nat
         /\ \A j \in DOMAIN cs : /\ j <= Len(inits) => cs[j] \in ToSet(inits)
                                 /\ j > Len(inits) => cs[j] \in ToSet(old) \cup ToSet(marks)
    <2>1. PICK a : a = inits \o old
      OBVIOUS
    <2>2. /\ a \in Seq(PseudoOps) /\ ToSet(a) = ToSet(inits) \cup ToSet(old)
          /\ Len(a) = Len(inits) + Len(old)
      BY <1>6, <1>11, <2>1, ConcatProperties, ConcatElements
    <2>3. PICK c : c = a \o marks
      OBVIOUS
    <2>4. c \in Seq(PseudoOps) /\ ToSet(c) = ToSet(a) \cup ToSet(marks) /\ Len(c) = Len(a) + Len(marks)
      <3>1. a \in Seq(PseudoOps) /\ marks \in Seq(PseudoOps)
        BY <1>8, <2>2
      <3>2. ToSet(a \o marks) = ToSet(a) \cup ToSet(marks)
        BY <3>1, ConcatElements
      <3>3. a \o marks \in Seq(PseudoOps) /\ Len(a \o marks) = Len(a) + Len(marks)
        BY <3>1, ConcatProperties
      <3> QED
        BY <2>3, <3>2, <3>3
    <2>5. /\ Len(inits) \in Nat /\ Len(old) \in Nat /\ Len(marks) \in Nat
          /\ Len(c) \in Nat /\ DOMAIN c = 1 .. Len(c)
      BY <1>6, <1>8, <1>11, <2>4, LenProperties
    <2>6. cs = c
      BY <1>9, <2>1, <2>3 DEF CodeAtEnd, cs, inits, marks, used
    <2>7. PICK x, y, z : x = Len(inits) /\ y = Len(old) /\ z = Len(marks)
      OBVIOUS
    <2>8. /\ x \in Nat /\ y \in Nat /\ z \in Nat /\ Len(a) = x + y /\ DOMAIN c = 1 .. x + y + z
          /\ DOMAIN inits = 1 .. x /\ DOMAIN old = 1 .. y /\ DOMAIN marks = 1 .. z
      BY <1>6, <1>8, <1>11, <2>2, <2>4, <2>5, <2>7, LenProperties
    <2>9. \A j \in 1 .. x + y : a[j] = IF j <= x THEN inits[j] ELSE old[j - x]
      BY <1>6, <1>11, <2>1, <2>7, ConcatProperties
    <2>10. \A j \in 1 .. x + y + z : c[j] = IF j <= x + y THEN a[j] ELSE marks[j - (x + y)]
      BY <1>8, <2>2, <2>3, <2>7, <2>8, ConcatProperties
    <2>11. ASSUME NEW j \in 1 .. x + y + z
           PROVE  /\ j <= x => c[j] \in ToSet(inits)
                  /\ j > x => c[j] \in ToSet(old) \cup ToSet(marks)
      <3>1. CASE j <= x
        <4>1. c[j] = inits[j] /\ j \in 1 .. x
          BY <2>8, <2>9, <2>10, <3>1
        <4> QED
          BY <2>8, <3>1, <4>1 DEF ToSet
      <3>2. CASE j > x /\ j <= x + y
        <4>1. PICK i : i = j - x
          OBVIOUS
        <4>2. c[j] = old[i] /\ i \in 1 .. y
          BY <2>8, <2>9, <2>10, <3>2, <4>1
        <4>3. c[j] \in ToSet(old)
          BY <2>8, <4>2 DEF ToSet
        <4> QED
          BY <2>8, <3>2, <4>3
      <3>3. CASE j > x + y
        <4>1. PICK i : i = j - (x + y)
          OBVIOUS
        <4>2. c[j] = marks[i] /\ i \in 1 .. z /\ j > x
          BY <2>8, <2>10, <3>3, <4>1
        <4>3. c[j] \in ToSet(marks)
          BY <2>8, <4>2 DEF ToSet
        <4> QED
          BY <2>8, <4>2, <4>3
      <3> QED
        BY <2>8, <3>1, <3>2, <3>3
    <2> QED
      BY <2>2, <2>4, <2>5, <2>6, <2>7, <2>8, <2>11
  <1> HIDE DEF cs
  <1>13. PICK m \in Nat : m = Len(cs) /\ DOMAIN cs = 1 .. m
    BY <1>12
  <1>14. /\ code'[f] = cs /\ DOMAIN code' = Function
         /\ \A g \in Function : g # f => code'[g] = code[g]
    BY <1>2, <1>4 DEF TypeInv
  <1>15. NumbersOK(ids)
    BY DEF ShadowInv
  <1>16. /\ NumbersOK(ids') /\ Extends(ids, ids')
         /\ \A x \in used : Taken(ids', x[1])
    <2>1. PICK xs : xs = InOrder(used)
      OBVIOUS
    <2>2. xs \in Seq(Node \X Nat) /\ ToSet(xs) = used /\ ids' = IdsFor(ids, xs)
      BY <1>4, <1>6, <2>1
    <2>3. /\ NumbersOK(ids') /\ Extends(ids, ids')
          /\ \A k \in DOMAIN xs : Taken(ids', xs[k][1])
      BY <1>15, <2>2, IdsForNumbers
    <2> QED
      BY <2>2, <2>3 DEF ToSet
  <1>17. ASSUME NEW k \in 1 .. m, cs[k].op = "in"
         PROVE  \E d \in 1 .. m : cs[d].op \in {"init", "arg_init"} /\ cs[d].var = cs[k].var
    <2>1. PICK p : p = cs[k]
      OBVIOUS
    <2>2. p \in ToSet(cs) /\ p.op = "in"
      BY <1>13, <1>17, <2>1 DEF ToSet
    <2>3. p \notin ToSet(inits)
      BY <1>6, <2>2
    <2>4. p \notin ToSet(old)
      BY <1>11, <2>2 DEF LateOps
    <2>5. p.var \in used
      BY <1>8, <1>12, <2>2, <2>3, <2>4 DEF used, UsedAtEnd
    <2>6. PICK q \in ToSet(inits) : q.var = p.var
      BY <1>6, <2>5
    <2>7. q.op \in {"init", "arg_init"} /\ q \in ToSet(cs)
      BY <1>6, <1>12
    <2>8. PICK d \in 1 .. m : cs[d] = q
      BY <1>13, <2>7 DEF ToSet
    <2> QED
      BY <2>1, <2>6, <2>7, <2>8
  <1>171. ASSUME NEW k \in 1 .. m, cs[k].op = "in",
                 NEW d \in 1 .. m, cs[d].op \in {"init", "arg_init"}
          PROVE  d < k
    <2>1. PICK a \in Nat : a = Len(inits)
      BY <1>12
    <2>2. d <= a
      <3> SUFFICES ASSUME d > a PROVE FALSE
        BY <1>13, <2>1
      <3>1. cs[d] \in ToSet(old) \cup ToSet(marks)
        BY <1>12, <1>13, <2>1
      <3> QED
        BY <1>8, <1>11, <1>171, <3>1 DEF LateOps
    <2>3. k > a
      <3> SUFFICES ASSUME k <= a PROVE FALSE
        BY <1>13, <2>1
      <3>1. cs[k] \in ToSet(inits)
        <4>1. k \in DOMAIN cs /\ k <= Len(inits)
          BY <1>13, <2>1
        <4>2. \A j \in DOMAIN cs : j <= Len(inits) => cs[j] \in ToSet(inits)
          BY <1>12
        <4> QED
          BY <4>1, <4>2
      <3> QED
        BY <1>6, <1>171, <3>1
    <2> QED
      BY <1>13, <2>1, <2>2, <2>3
  <1>18. PICK r \in Regions(n) :
           /\ region' = [region EXCEPT ![f] = r]
           /\ IF f \in Returns
              THEN LET args == [k \in DOMAIN cs |-> Operand(cs, r, k)]
                   IN  arg' = [arg EXCEPT ![f] = args] /\ NextUse(cs, args, 0)
              ELSE phase' = "end" /\ UNCHANGED <<arg, use, def, prev>>
    BY <1>4
  <1>19. /\ region'[f] = r /\ r.to \in Int /\ r.to <= n
         /\ \A g \in Function : g # f => region'[g] = region[g]
         /\ DOMAIN region' = Function
    <2>1. /\ region'[f] = r /\ DOMAIN region' = Function
          /\ \A g \in Function : g # f => region'[g] = region[g]
      BY <1>2, <1>18 DEF TypeInv
    <2>2. r.to \in Int /\ r.to <= n
      <3>1. CASE r = [kind |-> "none", from |-> 1, to |-> 0]
        BY <3>1
      <3>2. CASE r # [kind |-> "none", from |-> 1, to |-> 0]
        <4>1. r \in [kind : {"if", "loop"}, from : 1 .. n,
                     to : (1 .. n) \cap (1 .. MaxRegion[fn])]
          BY <3>2 DEF Regions
        <4> QED
          BY <4>1
      <3> QED
        BY <3>1, <3>2
    <2> QED
      BY <2>1, <2>2
  <1>20. /\ DOMAIN arg' = Function
         /\ \A g \in Function : g # f => arg'[g] = arg[g]
         /\ arg'[f] = <<>> \/ arg'[f] \in [1 .. m -> None .. m]
         /\ \A k \in DOMAIN arg'[f] : OperandOK(cs, k, arg'[f][k])
         /\ phase' \in {"solve", "end"}
         /\ use' \in 0 .. m /\ def' \in None .. m /\ prev' \in None .. m
         /\ phase' = "solve" => /\ use' \in 1 .. m /\ arg'[f] \in [1 .. m -> None .. m]
                                /\ OperandOK(cs, use', def') /\ prev' = None
    <2>1. CASE f \in Returns
      <3> DEFINE args == [k \in DOMAIN cs |-> Operand(cs, r, k)]
      <3>1. arg' = [arg EXCEPT ![f] = args] /\ NextUse(cs, args, 0)
        BY <1>18, <2>1
      <3>11. ASSUME NEW k \in 1 .. m
             PROVE  Operand(cs, r, k) \in None .. m /\ OperandOK(cs, k, Operand(cs, r, k))
        <4>1. cs[k].op = "in" => \A d \in 1 .. m : cs[d].op \in {"init", "arg_init"} => d < k
          BY <1>171
        <4>2. cs[k].op = "in" =>
                \E d \in 1 .. m : cs[d].op \in {"init", "arg_init"} /\ cs[d].var = cs[k].var
          BY <1>17
        <4> QED
          BY <1>13, <4>1, <4>2, OperandRange
      <3>2. args \in [1 .. m -> None .. m]
        <4> QED
          BY <1>13, <3>11
      <3>12. \A k \in 1 .. m : OperandOK(cs, k, args[k])
        BY <1>13, <3>11
      <3> HIDE DEF args
      <3>3. /\ prev' = None
            /\ \/ phase' = "end" /\ use' = 0 /\ def' = None
               \/ /\ phase' = "solve" /\ use' \in 1 .. m /\ def' \in None .. m
                  /\ def' = args[use']
        BY <1>13, <3>1, <3>2, NextUseRange
      <3>4. /\ DOMAIN arg' = Function /\ arg'[f] = args
            /\ \A g \in Function : g # f => arg'[g] = arg[g]
        BY <1>2, <3>1 DEF TypeInv
      <3>5. use' \in 0 .. m /\ def' \in None .. m /\ prev' \in None .. m
        BY <3>3 DEF None
      <3>6. DOMAIN args = 1 .. m
        BY <3>2
      <3>7. phase' = "solve" => OperandOK(cs, use', def')
        BY <3>3, <3>12
      <3> QED
        BY <3>2, <3>3, <3>4, <3>5, <3>6, <3>7, <3>12
    <2>2. CASE f \notin Returns
      <3>1. phase' = "end" /\ UNCHANGED <<arg, use, def, prev>>
        BY <1>18, <2>2
      <3>2. /\ use \in 0 .. Len(old) /\ def \in None .. Len(old) /\ prev \in None .. Len(old)
        BY <1>1, <1>9 DEF ShadowInv, SolveInv
      <3>3. /\ use \in 0 .. m /\ def \in None .. m /\ prev \in None .. m
        BY <1>12, <1>13, <3>2 DEF None
      <3>4. arg[f] = <<>> /\ DOMAIN arg = Function /\ DOMAIN arg[f] = {}
        BY <1>2, <1>10 DEF BodyInv, TypeInv
      <3> QED
        BY <3>1, <3>3, <3>4
    <2> QED
      BY <2>1, <2>2
  <1>21. UNCHANGED flags /\ Variables' = Variables
    BY <1>4, FlagsStay
  <1>22. TypeInv'
    BY <1>2, <1>4, <1>5, <1>14, <1>19, <1>20, <1>21 DEF TypeInv, flags
  <1>23. OrderInv'
    <2>1. todo # <<>> /\ phase' # "done" /\ phase' \in {"begin", "visit", "solve", "end", "done"}
      BY <1>4, <1>20 DEF ShadowInv, OrderInv
    <2>2. UNCHANGED <<todo, fn>>
      BY <1>4
    <2> QED
      BY <2>1, <2>2 DEF ShadowInv, OrderInv
  <1>24. SolveInv'
    <2>1. fn' = f /\ code'[f] = cs
      BY <1>1, <1>4, <1>14
    <2> QED
      BY <1>13, <1>20, <2>1 DEF SolveInv
  <1>25. Complete(f)'
    BY <1>1, <1>4, <1>20 DEF ShadowInv, OrderInv, Complete
  <1>26. BodyInv(f)'
    <2>1. body'[f] = body[f] /\ body[f] \in Seq(Instruction[f]) /\ Len(body[f]) <= MaxBody[f]
      BY <1>2, <1>4 DEF BodyInv
    <2> QED
      BY <1>3, <1>13, <1>14, <1>19, <1>20, <1>25, <2>1 DEF BodyInv
  <1>27. CodeInv(f)'
    <2>1. ASSUME NEW p \in ToSet(cs)
          PROVE  p.var \in Variables /\ Taken(ids', p.var[1]) /\ Placed(f, p)
      <3>1. CASE p \in ToSet(old)
        <4>1. p.var \in Variables /\ Taken(ids, p.var[1]) /\ Placed(f, p)
          BY <1>11, <3>1
        <4>2. p.var[1] \in Node
          BY <4>1 DEF Variables
        <4> QED
          BY <1>16, <4>1, <4>2 DEF Extends, Taken
      <3>2. CASE p \in ToSet(inits)
        <4>1. p.var \in used /\ Placed(f, p)
          BY <1>6, <3>2 DEF Placed
        <4> QED
          BY <1>5, <1>16, <4>1
      <3>3. CASE p \in ToSet(marks)
        <4>1. p.var \in used /\ Placed(f, p)
          BY <1>8, <3>3 DEF used, UsedAtEnd, Placed
        <4> QED
          BY <1>5, <1>16, <4>1
      <3> QED
        BY <1>12, <3>1, <3>2, <3>3
    <2>2. \A p \in ToSet(cs) : Placed(f, p)'
      BY <1>21, <2>1, FlagsStay
    <2> QED
      BY <1>12, <1>14, <1>21, <1>25, <2>1, <2>2 DEF CodeInv
  <1>28. CallsInv(f)'
    <2>1. ASSUME NEW k \in 1 .. n, body'[f][k].op = "call"
          PROVE  /\ body'[f][k].callee \in Function
                 /\ CallSays(body[f][k].callee, ToSet(code[f]), k)'
      <3>1. PICK g, ops, rest : /\ g = body[f][k].callee /\ ops = ToSet(cs)
                                /\ rest = ToSet(inits) \cup ToSet(marks)
        OBVIOUS
      <3>2. g \in Function /\ CallSays(g, ToSet(old), k)
        BY <1>2, <1>3, <1>4, <1>9, <2>1, <3>1 DEF CallsInv
      <3>3. \A p \in rest : p.at # k
        BY <1>6, <1>8, <3>1
      <3>4. ops = ToSet(old) \cup rest
        BY <1>12, <3>1
      <3>5. CallSays(g, ops, k)
        BY <3>2, <3>3, <3>4, CallSaysOnly
      <3>6. CallSays(g, ops, k)'
        BY <1>21, <3>5, FlagsStay
      <3>7. body'[f][k].callee = g /\ ToSet(code'[f]) = ops
        BY <1>4, <1>14, <3>1
      <3> QED
        BY <3>2, <3>6, <3>7 DEF CallSays, Passed, Received, Changed
    <2>2. ASSUME f \in Returns
          PROVE  MarkersSay(f, ToSet(code[f]), Len(body[f]) + 1)'
      <3>1. PICK ops, at, rest, new : /\ ops = ToSet(cs) /\ at = n + 1 /\ new = ToSet(marks)
                                      /\ rest = ToSet(inits) \cup ToSet(old)
        OBVIOUS
      <3>2. MarkersSay(f, new, at)
        BY <1>8, <2>2, <3>1
      <3>3. \A p \in rest : p.op # "in" /\ p.op # "out"
        BY <1>6, <1>11, <3>1 DEF LateOps
      <3>4. ops = new \cup rest
        BY <1>12, <3>1
      <3>7. MarkersSay(f, ops, at)
        BY <3>2, <3>3, <3>4, MarkersSayOnly
      <3>8. MarkersSay(f, ops, at)'
        BY <1>21, <3>7, FlagsStay
      <3>9. ToSet(code'[f]) = ops /\ Len(body'[f]) + 1 = at
        BY <1>3, <1>4, <1>14, <3>1
      <3> QED
        BY <3>8, <3>9 DEF MarkersSay, Marked, Received, Changed
    <2>3. DOMAIN body'[f] = 1 .. n
      BY <1>3, <1>4
    <2> QED
      BY <2>1, <2>2, <2>3 DEF CallsInv
  <1>29. ASSUME NEW g \in Function PROVE FunctionInv(g)'
    <2>1. CASE g = f
      BY <1>26, <1>27, <1>28, <2>1 DEF FunctionInv
    <2>2. CASE g # f
      <3>1. body'[g] = body[g] /\ code'[g] = code[g] /\ region'[g] = region[g] /\ arg'[g] = arg[g]
        BY <1>4, <1>14, <1>19, <1>20, <2>2
      <3>2. (Complete(g)' <=> Complete(g)) /\ (Visiting(g) => Visiting(g)')
        BY <1>1, <1>4, <2>2 DEF Complete, Visiting
      <3> QED
        BY <1>16, <1>21, <3>1, <3>2, OtherFunction
    <2> QED
      BY <2>1, <2>2
  <1> QED
    BY <1>16, <1>22, <1>23, <1>24, <1>29 DEF ShadowInv

-----------------------------------------------------------------------------
(* solveUses, and the end of a function                                    *)

\* Going on to an earlier definition.
LEMMA SkipInv ==
    ASSUME ShadowInv, SkipDef
    PROVE  ShadowInv'
  <1>1. /\ phase = "solve" /\ def > 0 /\ prev' = def /\ def' = arg[fn][def]
        /\ UNCHANGED <<flags, todo, fn, phase, body, region, code, shadows, ids, arg, use>>
    BY DEF SkipDef
  <1>2. PICK m : m = Len(code[fn])
    OBVIOUS
  <1>3. m \in Nat
    BY <1>2, LenProperties DEF ShadowInv, OrderInv, FunctionInv, CodeInv
  <1>4. /\ use \in 1 .. m /\ def \in None .. m /\ arg[fn] \in [1 .. m -> None .. m]
    BY <1>1, <1>2 DEF ShadowInv, SolveInv
  <1>5. def \in 1 .. m
    BY <1>1, <1>3, <1>4 DEF None
  <1>6. def' \in None .. m /\ prev' \in None .. m
    BY <1>1, <1>4, <1>5
  <1>51. OperandOK(code[fn], use, def) /\ OperandOK(code[fn], def, arg[fn][def])
    <2>1. OperandOK(code[fn], use, def)
      BY <1>1 DEF ShadowInv, SolveInv
    <2>2. BodyInv(fn) /\ def \in DOMAIN arg[fn]
      BY <1>4, <1>5 DEF ShadowInv, OrderInv, FunctionInv
    <2> QED
      BY <2>1, <2>2 DEF BodyInv
  <1>52. OperandOK(code[fn], use, arg[fn][def])
    <2>1. PICK d : d = arg[fn][def]
      OBVIOUS
    <2>2. d \in None .. m /\ use \in Nat /\ def \in Nat
      BY <1>3, <1>4, <1>5, <2>1
    <2>3. d < def /\ def < use /\ def > 0
      BY <1>1, <1>51, <2>1 DEF OperandOK
    <2>4. d < use
      BY <2>2, <2>3 DEF None
    <2>5. d > 0 => IsDef(code[fn][d]) /\ code[fn][d].var = code[fn][use].var
      BY <1>51, <2>1, <2>3 DEF OperandOK
    <2> QED
      BY <2>1, <2>4, <2>5 DEF OperandOK
  <1>7. SolveInv'
    <2>1. use' \in 0 .. m /\ use' \in 1 .. m
      BY <1>1, <1>4
    <2>2. OperandOK(code[fn], use, def)' /\ OperandOK(code[fn], use, prev)' /\ prev' > 0
      BY <1>1, <1>51, <1>52 DEF OperandOK
    <2> QED
      BY <1>1, <1>2, <1>4, <1>6, <2>1, <2>2 DEF SolveInv
  <1>8. UNCHANGED flags /\ Variables' = Variables
    BY <1>1, FlagsStay
  <1>9. TypeInv' /\ OrderInv' /\ NumbersOK(ids')
    BY <1>1, <1>8 DEF ShadowInv, TypeInv, OrderInv, flags
  <1>10. ASSUME NEW f \in Function PROVE FunctionInv(f)'
    <2>1. (Complete(f)' <=> Complete(f)) /\ (Visiting(f) => Visiting(f)')
      BY <1>1 DEF Complete, Visiting
    <2>2. Extends(ids, ids')
      BY <1>1 DEF Extends
    <2> QED
      BY <1>1, <1>8, <2>1, <2>2, OtherFunction
  <1> QED
    BY <1>7, <1>9, <1>10 DEF ShadowInv

\* A use gets its definition.
LEMMA StopInv ==
    ASSUME ShadowInv, StopWalk
    PROVE  ShadowInv'
  <1>1. PICK f : f = fn
    OBVIOUS
  <1> DEFINE found == IF def > 0 THEN def ELSE prev
             args == IF found = None THEN arg[f] ELSE [arg[f] EXCEPT ![use] = found]
  <1>2. /\ phase = "solve" /\ arg' = [arg EXCEPT ![f] = args]
        /\ NextUse(code[f], args, use)
        /\ UNCHANGED <<flags, todo, fn, body, region, code, shadows, ids>>
    <2> DEFINE found1 == IF def > 0 THEN def ELSE prev
               args1 == IF found1 = None THEN arg[fn] ELSE [arg[fn] EXCEPT ![use] = found1]
    <2>1. /\ phase = "solve" /\ arg' = [arg EXCEPT ![fn] = args1]
          /\ NextUse(code[fn], args1, use)
          /\ UNCHANGED <<flags, todo, fn, body, region, code, shadows, ids>>
      BY DEF StopWalk, Ops
    <2>2. args1 = args
      BY <1>1
    <2> HIDE DEF args1, args
    <2> QED
      BY <1>1, <2>1, <2>2
  <1>3. PICK m : m = Len(code[f])
    OBVIOUS
  <1>4. f \in Function /\ m \in Nat /\ DOMAIN code[f] = 1 .. m
    BY <1>1, <1>3, LenProperties DEF ShadowInv, OrderInv, FunctionInv, CodeInv
  <1>5. /\ use \in 1 .. m /\ def \in None .. m /\ prev \in None .. m
        /\ arg[f] \in [1 .. m -> None .. m] /\ OperandOK(code[f], use, def)
        /\ prev # None => OperandOK(code[f], use, prev)
    BY <1>1, <1>2, <1>3 DEF ShadowInv, SolveInv
  <1>51. \A k \in 1 .. m : OperandOK(code[f], k, arg[f][k])
    <2>1. BodyInv(f) /\ DOMAIN arg[f] = 1 .. m
      BY <1>4, <1>5 DEF ShadowInv, FunctionInv
    <2> QED
      BY <2>1 DEF BodyInv
  <1>6. args \in [1 .. m -> None .. m]
    <2>1. found \in None .. m
      BY <1>5
    <2> HIDE DEF found
    <2> QED
      BY <1>5, <2>1
  <1>61. ASSUME NEW k \in 1 .. m PROVE OperandOK(code[f], k, args[k])
    <2>1. found # None => OperandOK(code[f], use, found)
      BY <1>5
    <2> HIDE DEF found
    <2>2. CASE found # None /\ k = use
      <3>1. args[k] = found
        BY <1>5, <2>2
      <3> HIDE DEF args
      <3> QED
        BY <2>1, <2>2, <3>1
    <2>3. CASE ~(found # None /\ k = use)
      <3>1. args[k] = arg[f][k]
        BY <1>5, <2>3
      <3> HIDE DEF args
      <3> QED
        BY <1>51, <3>1
    <2> QED
      BY <2>2, <2>3
  <1> HIDE DEF args
  <1>7. /\ prev' = None
        /\ \/ phase' = "end" /\ use' = 0 /\ def' = None
           \/ /\ phase' = "solve" /\ use' \in 1 .. m /\ def' \in None .. m
              /\ def' = args[use']
    BY <1>2, <1>4, <1>6, NextUseRange
  <1>8. use' \in 0 .. m /\ def' \in None .. m /\ prev' \in None .. m
    BY <1>4, <1>7 DEF None
  <1>9. /\ DOMAIN arg' = Function /\ arg'[f] = args
        /\ \A g \in Function : g # f => arg'[g] = arg[g]
    BY <1>2, <1>4 DEF ShadowInv, TypeInv
  <1>10. SolveInv'
    <2>1. phase' = "solve" => OperandOK(code[f], use', def')
      BY <1>7, <1>61
    <2>2. fn' = f /\ code' = code
      BY <1>1, <1>2
    <2> QED
      BY <1>3, <1>6, <1>7, <1>8, <1>9, <2>1, <2>2 DEF SolveInv
  <1>11. UNCHANGED flags /\ Variables' = Variables
    BY <1>2, FlagsStay
  <1>12. TypeInv' /\ NumbersOK(ids')
    BY <1>2, <1>9, <1>11 DEF ShadowInv, TypeInv, flags
  <1>13. OrderInv'
    <2>1. todo # <<>> /\ phase' # "done" /\ phase' \in {"begin", "visit", "solve", "end", "done"}
      BY <1>2, <1>7 DEF ShadowInv, OrderInv
    <2>2. UNCHANGED <<todo, fn>>
      BY <1>2
    <2> QED
      BY <2>1, <2>2 DEF ShadowInv, OrderInv
  <1>14. ASSUME NEW g \in Function PROVE FunctionInv(g)'
    <2>1. (Complete(g)' <=> Complete(g)) /\ (Visiting(g) => Visiting(g)')
      BY <1>2, <1>7 DEF Complete, Visiting
    <2>2. Extends(ids, ids')
      BY <1>2 DEF Extends
    <2>3. Complete(f)
      BY <1>1, <1>2 DEF ShadowInv, OrderInv, Complete
    <2>4. \/ arg'[g] = arg[g]
          \/ /\ Complete(g) /\ arg'[g] \in [1 .. Len(code[g]) -> None .. Len(code[g])]
             /\ \A k \in 1 .. Len(code[g]) : OperandOK(code[g], k, arg'[g][k])
      BY <1>3, <1>6, <1>9, <1>61, <2>3
    <2>5. body'[g] = body[g] /\ code'[g] = code[g] /\ region'[g] = region[g]
      BY <1>2
    <2> QED
      BY <1>11, <2>1, <2>2, <2>4, <2>5, OtherFunction
  <1> QED
    BY <1>10, <1>12, <1>13, <1>14 DEF ShadowInv

\* The rest of the functions to come.
LEMMA TailLists ==
    ASSUME NEW S, NEW s \in Seq(S), s # <<>>
    PROVE  /\ Tail(s) \in Seq(S) /\ Len(Tail(s)) = Len(s) - 1 /\ Head(s) = s[1]
           /\ \A j \in 1 .. Len(Tail(s)) : Tail(s)[j] = s[j + 1]
           /\ ToSet(s) = {Head(s)} \cup ToSet(Tail(s))
  <1>1. /\ Tail(s) \in Seq(S) /\ Len(Tail(s)) = Len(s) - 1 /\ Head(s) = s[1]
        /\ \A j \in 1 .. Len(Tail(s)) : Tail(s)[j] = s[j + 1]
    BY HeadTailProperties
  <1>2. PICK n \in Nat : n = Len(s) /\ DOMAIN s = 1 .. n /\ n # 0
    BY LenProperties, EmptySeq
  <1>3. DOMAIN Tail(s) = 1 .. n - 1
    BY <1>1, <1>2, LenProperties
  <1>4. PICK t : t = Tail(s)
    OBVIOUS
  <1>5. DOMAIN t = 1 .. n - 1 /\ \A j \in 1 .. n - 1 : t[j] = s[j + 1]
    BY <1>1, <1>2, <1>3, <1>4
  <1>6. ASSUME NEW x \in ToSet(s) PROVE x \in {s[1]} \cup ToSet(t)
    <2>1. PICK i \in 1 .. n : x = s[i]
      BY <1>2 DEF ToSet
    <2>2. CASE i = 1
      BY <2>1, <2>2
    <2>3. CASE i # 1
      <3>1. PICK j : j = i - 1
        OBVIOUS
      <3>2. j \in 1 .. n - 1 /\ j + 1 = i
        BY <1>2, <2>3, <3>1
      <3>3. t[j] = x
        BY <1>5, <2>1, <3>2
      <3> QED
        BY <1>5, <3>2, <3>3 DEF ToSet
    <2> QED
      BY <2>2, <2>3
  <1>7. ASSUME NEW x \in {s[1]} \cup ToSet(t) PROVE x \in ToSet(s)
    <2>1. CASE x = s[1]
      BY <1>2, <2>1 DEF ToSet
    <2>2. CASE x \in ToSet(t)
      <3>1. PICK j \in 1 .. n - 1 : x = t[j]
        BY <1>5, <2>2 DEF ToSet
      <3>2. j + 1 \in 1 .. n /\ x = s[j + 1]
        BY <1>2, <1>5, <3>1
      <3> QED
        BY <1>2, <3>2 DEF ToSet
    <2> QED
      BY <2>1, <2>2
  <1>8. ToSet(s) = {s[1]} \cup ToSet(t)
    BY <1>6, <1>7
  <1> QED
    BY <1>1, <1>4, <1>8

\* On to the next function.
LEMMA EndFunctionInv ==
    ASSUME ShadowInv, EndFunction
    PROVE  ShadowInv'
  <1>1. /\ phase = "end" /\ todo' = Tail(todo)
        /\ IF Tail(todo) = <<>> THEN phase' = "done" /\ fn' = fn
           ELSE phase' = "begin" /\ fn' = Head(Tail(todo))
        /\ shadows' = {} /\ use' = 0 /\ def' = None /\ prev' = None
        /\ UNCHANGED <<flags, body, region, code, ids, arg>>
    BY DEF EndFunction
  <1>2. PICK d \in 0 .. Len(ModuleOrder) :
          /\ todo \in Seq(Function) /\ Len(todo) = Len(ModuleOrder) - d
          /\ \A j \in 1 .. Len(todo) : todo[j] = ModuleOrder[d + j]
    BY DEF ShadowInv, OrderInv
  <1>3. todo # <<>> /\ fn = Head(todo)
    BY <1>1 DEF ShadowInv, OrderInv
  <1>4. PICK t : t = Tail(todo)
    OBVIOUS
  <1>5. /\ t \in Seq(Function) /\ Len(t) = Len(todo) - 1 /\ fn = todo[1]
        /\ \A j \in 1 .. Len(t) : t[j] = todo[j + 1]
        /\ ToSet(todo) = {fn} \cup ToSet(t)
    BY <1>2, <1>3, <1>4, TailLists
  <1>6. PICK n, c : n = Len(todo) /\ c = Len(ModuleOrder)
    OBVIOUS
  <1>7. /\ n \in Nat /\ n # 0 /\ c \in Nat /\ DOMAIN ModuleOrder = 1 .. c
        /\ DOMAIN t = 1 .. n - 1 /\ DOMAIN todo = 1 .. n
    BY <1>2, <1>3, <1>5, <1>6, LenProperties, EmptySeq, FunctionsAssumption
  <1>8. d + 1 \in 0 .. c /\ Len(t) = c - (d + 1)
    BY <1>2, <1>5, <1>6, <1>7
  <1>9. ASSUME NEW j \in 1 .. n - 1 PROVE t[j] = ModuleOrder[d + 1 + j] /\ d + 1 + j \in 1 .. c
    <2>1. PICK k : k = j + 1
      OBVIOUS
    <2>2. k \in 1 .. n /\ d + k = d + 1 + j /\ d + k \in 1 .. c
      <3>1. n = c - d /\ d \in 0 .. c
        BY <1>2, <1>6
      <3>2. j \in Nat /\ j >= 1 /\ j <= n - 1
        BY <1>7
      <3> QED
        BY <1>7, <2>1, <3>1, <3>2
    <2>3. t[j] = todo[k] /\ todo[k] = ModuleOrder[d + k]
      BY <1>2, <1>5, <1>6, <2>1, <2>2
    <2> QED
      BY <2>2, <2>3
  <1>10. fn \notin ToSet(t)
    <2> SUFFICES ASSUME NEW j \in 1 .. n - 1, t[j] = fn PROVE FALSE
      BY <1>7 DEF ToSet
    <2>1. t[j] = ModuleOrder[d + 1 + j] /\ d + 1 + j \in 1 .. c
      BY <1>9
    <2>2. 1 \in 1 .. n /\ fn = ModuleOrder[d + 1] /\ d + 1 \in 1 .. c
      BY <1>2, <1>5, <1>6, <1>7
    <2>3. d + 1 + j = d + 1
      BY <1>7, <2>1, <2>2, FunctionsAssumption
    <2> QED
      BY <1>2, <2>3
  <1>11. OrderInv'
    <2>1. /\ t \in Seq(Function) /\ Len(t) = Len(ModuleOrder) - (d + 1)
          /\ d + 1 \in 0 .. Len(ModuleOrder)
          /\ \A j \in 1 .. Len(t) : t[j] = ModuleOrder[(d + 1) + j]
      BY <1>5, <1>6, <1>7, <1>8, <1>9
    <2>2. PICK e : e = d + 1
      OBVIOUS
    <2>3. \E b \in 0 .. Len(ModuleOrder) :
            /\ t \in Seq(Function) /\ Len(t) = Len(ModuleOrder) - b
            /\ \A j \in 1 .. Len(t) : t[j] = ModuleOrder[b + j]
      BY <2>1, <2>2
    <2>4. /\ fn' \in Function /\ fn' \in ToSet(ModuleOrder)
          /\ phase' \in {"begin", "done"}
          /\ phase' = "done" <=> t = <<>>
          /\ t # <<>> => fn' = Head(t)
      <3>1. CASE t = <<>>
        BY <1>1, <1>4, <3>1 DEF ShadowInv, OrderInv
      <3>2. CASE t # <<>>
        <4>1. phase' = "begin" /\ fn' = Head(t)
          BY <1>1, <1>4, <3>2
        <4>2. Head(t) = t[1] /\ Len(t) # 0
          BY <1>5, <3>2, HeadTailProperties, EmptySeq
        <4>3. 1 \in 1 .. n - 1
          BY <1>5, <1>6, <1>7, <4>2
        <4>4. t[1] = ModuleOrder[d + 1 + 1] /\ d + 1 + 1 \in 1 .. c
          BY <1>9, <4>3
        <4>5. fn' \in ToSet(ModuleOrder)
          BY <1>7, <4>1, <4>2, <4>4 DEF ToSet
        <4>6. fn' \in Function
          BY <1>5, <4>1, <4>2, <4>3, <1>6, <1>7, ElementOfSeq
        <4> QED
          BY <3>2, <4>1, <4>5, <4>6
      <3> QED
        BY <3>1, <3>2
    <2> QED
      BY <1>1, <1>4, <2>3, <2>4 DEF OrderInv
  <1>12. phase' \in {"begin", "done"}
    BY <1>1
  <1>13. UNCHANGED flags /\ Variables' = Variables
    BY <1>1, FlagsStay
  <1>14. TypeInv' /\ NumbersOK(ids')
    BY <1>1, <1>13, FS_EmptySet DEF ShadowInv, TypeInv, flags
  <1>15. SolveInv'
    <2>1. PICK g : g = fn'
      OBVIOUS
    <2>2. g \in Function
      BY <1>11, <2>1 DEF OrderInv
    <2>3. PICK m : m = Len(code[g])
      OBVIOUS
    <2>4. m \in Nat
      BY <2>2, <2>3, LenProperties DEF ShadowInv, FunctionInv, CodeInv
    <2>5. use' \in 0 .. m /\ def' \in None .. m /\ prev' \in None .. m
      BY <1>1, <2>4 DEF None
    <2>6. phase' # "solve" /\ m = Len(code'[fn'])
      BY <1>1, <1>12, <2>1, <2>3
    <2> QED
      BY <2>5, <2>6 DEF SolveInv
  <1>16. ASSUME NEW f \in Function PROVE FunctionInv(f)'
    <2>1. Complete(f)' <=> f \in ToSet(ModuleOrder) /\ f \notin ToSet(t)
      BY <1>1, <1>4, <1>12 DEF Complete
    <2>2. Complete(f) <=> f \in ToSet(ModuleOrder) /\ f \notin ToSet(t)
      BY <1>1, <1>5, <1>10 DEF Complete
    <2>3. Visiting(f) => Visiting(f)'
      BY <1>1 DEF Visiting
    <2>4. Extends(ids, ids')
      BY <1>1 DEF Extends
    <2>5. /\ body'[f] = body[f] /\ code'[f] = code[f] /\ region'[f] = region[f]
          /\ arg'[f] = arg[f]
      BY <1>1
    <2> QED
      BY <1>13, <2>1, <2>2, <2>3, <2>4, <2>5, OtherFunction
  <1> QED
    BY <1>11, <1>14, <1>15, <1>16 DEF ShadowInv

\* Nothing happens.
LEMMA StutterInv ==
    ASSUME ShadowInv, UNCHANGED vars
    PROVE  ShadowInv'
  <1>1. UNCHANGED <<split, read, mod, todo, fn, phase, body, region, code, shadows, ids,
                    arg, use, def, prev>>
    BY DEF vars
  <1>2. UNCHANGED flags
    BY <1>1 DEF flags
  <1>3. Variables' = Variables
    BY <1>2, FlagsStay
  <1>4. TypeInv' /\ OrderInv' /\ SolveInv' /\ NumbersOK(ids')
    BY <1>1, <1>3 DEF ShadowInv, TypeInv, OrderInv, SolveInv
  <1>5. ASSUME NEW f \in Function PROVE FunctionInv(f)'
    <2>1. (Complete(f)' <=> Complete(f)) /\ (Visiting(f) => Visiting(f)')
      BY <1>1 DEF Complete, Visiting
    <2>2. Extends(ids, ids')
      BY <1>1 DEF Extends
    <2> QED
      BY <1>1, <1>2, <2>1, <2>2, OtherFunction
  <1> QED
    BY <1>4, <1>5 DEF ShadowInv

-----------------------------------------------------------------------------
(* Theorems                                                                *)

\* Every step preserves the invariant.
LEMMA NextInv ==
    ASSUME ShadowInv, [Next]_vars
    PROVE  ShadowInv'
  <1>1. CASE BeginFunction
    BY <1>1, BeginInv
  <1>2. ASSUME NEW i \in Instruction[fn],
               \/ VisitLoadInst(i) \/ VisitStoreInst(i) \/ VisitAllocation(i)
               \/ VisitCalloc(i) \/ VisitMemSetInst(i) \/ VisitMemTransferInst(i)
               \/ VisitMemhavoc(i) \/ VisitShadowQuery(i) \/ VisitGetShadowMem(i)
               \/ VisitShadowUpdate(i) \/ VisitFree(i) \/ VisitDsaCallSite(i)
        PROVE  ShadowInv'
    BY <1>2, InstructionsInv, TransferInv, CallInv
  <1>3. CASE EndVisit
    BY <1>3, EndVisitInv
  <1>4. CASE SkipDef
    BY <1>4, SkipInv
  <1>5. CASE StopWalk
    BY <1>5, StopInv
  <1>6. CASE EndFunction
    BY <1>6, EndFunctionInv
  <1>7. CASE UNCHANGED vars
    BY <1>7, StutterInv
  <1> QED
    BY <1>1, <1>2, <1>3, <1>4, <1>5, <1>6, <1>7 DEF Next

\* The invariant holds for all modules, graphs and options.
THEOREM ShadowHolds == Spec => []ShadowInv
  BY InitInv, NextInv, PTL DEF Spec

\* Every component of the state has its type, and every shadow variable stands for an
\* offset, in an array one of its stride (ShadowMemImpl::getOffset, ShadowMem.cc).
THEOREM ShadowTypeCorrect == Spec => []TypeOK
  BY ShadowHolds, TypeFollows, PTL

\* Of two shadow variables that share a number one lies beyond its node, however many
\* functions are visited and in whatever order their nodes are met (getFieldId).
THEOREM NumbersDistinct == Spec => []IdsDistinct
  BY ShadowHolds, DistinctFollows, PTL

\* What a call shows of its callee is what the callee shows of itself, whichever of the
\* two is instrumented first (visitDsaCallSite and markInOut).
THEOREM InterfacesAgree == Spec => []InterfacesMatch
  BY ShadowHolds, MatchFollows, PTL

\* solveUses compares accesses of one node only: the assertion that the cells of the use
\* and of the definition have the same node (mayClobber) never fails.
OneNodeCompared ==
    phase = "solve" /\ def > 0 /\ KnownPointers(Ops[def], Ops[use]) =>
        Cell[fn][Ops[use].ptr].node = Cell[fn][Ops[def].ptr].node
THEOREM ClobberAsserts == Spec => []OneNodeCompared
  <1>1. ASSUME ShadowInv PROVE OneNodeCompared
    <2> SUFFICES ASSUME phase = "solve", def > 0, KnownPointers(Ops[def], Ops[use])
                 PROVE  Cell[fn][Ops[use].ptr].node = Cell[fn][Ops[def].ptr].node
      BY DEF OneNodeCompared
    <2>1. PICK d, u : d = code[fn][def] /\ u = code[fn][use]
      OBVIOUS
    <2>2. /\ def \in None .. Len(code[fn]) /\ use \in 1 .. Len(code[fn])
          /\ OperandOK(code[fn], use, def) /\ CodeInv(fn)
      BY <1>1 DEF ShadowInv, SolveInv, OrderInv, FunctionInv
    <2>3. DOMAIN code[fn] = 1 .. Len(code[fn]) /\ Len(code[fn]) \in Nat
      BY <2>2, LenProperties DEF CodeInv
    <2>4. def \in DOMAIN code[fn] /\ use \in DOMAIN code[fn]
      BY <2>2, <2>3 DEF None
    <2>5. Placed(fn, d) /\ Placed(fn, u)
      BY <2>1, <2>2, <2>4 DEF CodeInv, ToSet
    <2>6. d.var = u.var
      BY <2>1, <2>2 DEF OperandOK
    <2>7. d.ptr # NoValue /\ u.ptr # NoValue
      BY <2>1 DEF KnownPointers, Ops
    <2>8. d.var[1] = Cell[fn][d.ptr].node /\ u.var[1] = Cell[fn][u.ptr].node
      BY <2>5, <2>7 DEF Placed, ShadowOf
    <2> QED
      BY <2>1, <2>6, <2>8 DEF Ops
  <1> QED
    BY <1>1, ShadowHolds, PTL

\* The loop of solveUses goes up the code of the function with every definition that it
\* skips, and the uses go down: the loops end, whatever mayClobber answers.
LoopsEnd == /\ SkipDef => def' < def
            /\ StopWalk => phase' = "end" \/ use' > use
THEOREM WalksEnd == Spec => [][LoopsEnd]_vars
  <1>1. ASSUME ShadowInv, Next PROVE LoopsEnd
    <2>1. ASSUME SkipDef PROVE def' < def
      <3>1. phase = "solve" /\ def > 0 /\ def' = arg[fn][def]
        BY <2>1 DEF SkipDef
      <3>2. /\ def \in None .. Len(code[fn])
            /\ arg[fn] \in [1 .. Len(code[fn]) -> None .. Len(code[fn])] /\ BodyInv(fn)
        BY <1>1, <3>1 DEF ShadowInv, SolveInv, OrderInv, FunctionInv
      <3>3. def \in DOMAIN arg[fn]
        BY <3>1, <3>2 DEF None
      <3> QED
        BY <3>1, <3>2, <3>3 DEF BodyInv, OperandOK
    <2>2. ASSUME StopWalk PROVE phase' = "end" \/ use' > use
      <3>1. PICK args : NextUse(code[fn], args, use)
        BY <2>2 DEF StopWalk, Ops
      <3> DEFINE later == {j \in DOMAIN code[fn] : j > use /\ IsUse(code[fn][j])}
      <3>2. IF later = {} THEN phase' = "end" ELSE use' = Min(later)
        BY <3>1 DEF NextUse
      <3>3. CodeInv(fn)
        BY <1>1 DEF ShadowInv, OrderInv, FunctionInv
      <3>4. PICK m \in Nat : DOMAIN code[fn] = 1 .. m
        BY <3>3, LenProperties DEF CodeInv
      <3>5. later \in SUBSET (1 .. m) /\ \A j \in later : j > use
        BY <3>4
      <3> HIDE DEF later
      <3>6. later # {} => Min(later) \in later
        BY <3>4, <3>5, MaxMin
      <3> QED
        BY <3>2, <3>5, <3>6
    <2> QED
      BY <2>1, <2>2 DEF LoopsEnd
  <1> QED
    BY <1>1, ShadowHolds, PTL DEF Spec

-----------------------------------------------------------------------------
(* Executions as sequences of steps                                        *)

\* A region of a function with N instructions.
RegionOK(r, N) ==
    \/ r.kind = "none" /\ r.from = 1 /\ r.to = 0
    \/ r.kind \in {"if", "loop"} /\ r.from \in 1 .. N /\ r.to \in r.from .. N

\* The steps of a function of N instructions whose region r is run `times' times.
RunsThrough(tr, N, r, times) ==
    LET m == r.to - r.from + 1
    IN  \/ /\ times = 0
           /\ tr = [t \in 1 .. N + 1 - m |-> IF t < r.from THEN t ELSE t + m]
        \/ /\ times = 1 /\ r.kind # "none"
           /\ tr = [t \in 1 .. N + 1 |-> t]
        \/ /\ times = 2 /\ r.kind = "loop"
           /\ tr = [t \in 1 .. N + 1 + m |-> IF t <= r.to THEN t ELSE t - m]

\* Concatenations of stretches of instructions.
LEMMA FlattenFew ==
    ASSUME NEW S, NEW s \in Seq(S)
    PROVE  /\ FlattenSeq([j \in 1 .. 1 |-> s]) = s
           /\ FlattenSeq([j \in 1 .. 2 |-> s]) = s \o s
  <1>1. ASSUME NEW n \in {1, 2}
        PROVE  \E rec : /\ FlattenSeq([j \in 1 .. n |-> s]) = rec[n]
                        /\ rec[1] = s /\ (n = 2 => rec[2] = s \o s)
    <2> DEFINE q == [j \in 1 .. n |-> s]
               step(f) == [i \in 1 .. Len(q) |-> IF i = 1 THEN q[i] ELSE f[i - 1] \o q[i]]
    <2>0. PICK rec : rec = CHOOSE f : f = step(f)
      OBVIOUS
    <2>1. Len(q) = n /\ n # 0
      OBVIOUS
    <2>2. FlattenSeq(q) = rec[n]
      BY <2>0, <2>1 DEF FlattenSeq
    <2>3. PICK g : g = [i \in 1 .. Len(q) |-> IF i = 1 THEN s ELSE s \o s]
      OBVIOUS
    <2>4. g = step(g)
      <3>1. \A i \in 1 .. Len(q) : g[i] = IF i = 1 THEN q[i] ELSE g[i - 1] \o q[i]
        <4> SUFFICES ASSUME NEW i \in 1 .. Len(q)
                     PROVE  g[i] = IF i = 1 THEN q[i] ELSE g[i - 1] \o q[i]
          OBVIOUS
        <4>1. i \in {1, 2} /\ i \in 1 .. n /\ 1 \in 1 .. Len(q) /\ q[i] = s
          BY <2>1
        <4>2. g[1] = s /\ (i = 2 => g[i] = s \o s /\ i - 1 = 1)
          BY <2>3, <4>1
        <4> HIDE DEF q
        <4> QED
          BY <4>1, <4>2
      <3> HIDE DEF q
      <3> QED
        BY <2>3, <3>1
    <2>5. rec = step(rec)
      <3> HIDE DEF step
      <3> QED
        BY <2>0, <2>4
    <2>6. /\ rec[1] = q[1]
          /\ n = 2 => rec[2] = rec[2 - 1] \o q[2]
      <3> HIDE DEF q
      <3>1. 1 \in 1 .. Len(q) /\ (n = 2 => 2 \in 1 .. Len(q))
        BY <2>1
      <3>2. \A i \in 1 .. Len(q) : rec[i] = IF i = 1 THEN q[i] ELSE rec[i - 1] \o q[i]
        BY <2>5
      <3>3. rec[1] = q[1]
        BY <3>1, <3>2
      <3>4. CASE n = 2
        <4>1. 2 \in 1 .. Len(q) /\ 2 # 1
          BY <3>1, <3>4
        <4> QED
          BY <3>2, <3>3, <4>1
      <3> QED
        BY <3>3, <3>4
    <2>7. q[1] = s /\ (n = 2 => q[2] = s) /\ 2 - 1 = 1
      BY <2>1
    <2>8. rec[1] = s
      BY <2>6, <2>7
    <2>9. n = 2 => rec[2] = s \o s
      <3> HIDE DEF q
      <3> QED
        BY <2>6, <2>7, <2>8
    <2> QED
      BY <2>2, <2>8, <2>9
  <1>2. FlattenSeq([j \in 1 .. 1 |-> s]) = s
    <2>1. 1 \in {1, 2}
      OBVIOUS
    <2> QED
      BY <1>1, <2>1
  <1>3. FlattenSeq([j \in 1 .. 2 |-> s]) = s \o s
    <2>1. 2 \in {1, 2}
      OBVIOUS
    <2> QED
      BY <1>1, <2>1
  <1> QED
    BY <1>2, <1>3

\* Trace gives the steps one after the other.
LEMMA TraceRuns ==
    ASSUME NEW f, NEW N \in Nat, Len(body[f]) = N, RegionOK(region[f], N),
           NEW times \in Times(f)
    PROVE  RunsThrough(Trace(f, times), N, region[f], times)
  <1> DEFINE stretch(a, b) == [i \in 1 .. b - a + 1 |-> a + i - 1]
  <1>1. PICK r, a, b : r = region[f] /\ a = r.from /\ b = r.to
    OBVIOUS
  <1>2. a \in Nat /\ b \in Nat /\ 1 <= a /\ a <= b + 1 /\ b <= N /\ (r.kind # "none" => a <= N)
    BY <1>1 DEF RegionOK
  <1>3. Trace(f, times) =
          stretch(1, a - 1) \o FlattenSeq([j \in 1 .. times |-> stretch(a, b)])
              \o stretch(b + 1, N + 1)
    BY <1>1 DEF Trace
  <1>4. PICK before, again, after :
          before = stretch(1, a - 1) /\ again = stretch(a, b) /\ after = stretch(b + 1, N + 1)
    OBVIOUS
  <1>5. /\ before \in Seq(Nat) /\ Len(before) = a - 1 /\ \A i \in 1 .. a - 1 : before[i] = i
        /\ again \in Seq(Nat) /\ Len(again) = b - a + 1
        /\ \A i \in 1 .. b - a + 1 : again[i] = a + i - 1
        /\ after \in Seq(Nat) /\ Len(after) = N + 1 - b
        /\ \A i \in 1 .. N + 1 - b : after[i] = b + i
    BY <1>2, <1>4
  <1>6. times \in {0, 1, 2} /\ (times = 1 => r.kind # "none") /\ (times = 2 => r.kind = "loop")
    BY <1>1 DEF Times, RegionOK
  <1>7. PICK tr : tr = Trace(f, times)
    OBVIOUS
  <1>8. CASE times = 0
    <2>1. [j \in 1 .. times |-> stretch(a, b)] = <<>>
      BY <1>8
    <2>2. FlattenSeq([j \in 1 .. times |-> stretch(a, b)]) = <<>>
      BY <2>1 DEF FlattenSeq
    <2>3. before \o <<>> = before
      BY <1>5
    <2>4. tr = before \o after
      BY <1>3, <1>4, <1>7, <2>2, <2>3
    <2>5. PICK m : m = b - a + 1
      OBVIOUS
    <2>6. tr = [t \in 1 .. N + 1 - m |-> IF t < a THEN t ELSE t + m]
      <3>1. /\ tr \in Seq(Nat) /\ Len(tr) = N + 1 - m
            /\ \A t \in 1 .. N + 1 - m :
                 tr[t] = IF t <= a - 1 THEN before[t] ELSE after[t - (a - 1)]
        <4>1. /\ before \o after \in Seq(Nat)
              /\ Len(before \o after) = Len(before) + Len(after)
              /\ \A i \in 1 .. Len(before) + Len(after) :
                   (before \o after)[i] = IF i <= Len(before) THEN before[i]
                                          ELSE after[i - Len(before)]
          BY <1>5, ConcatProperties
        <4>2. Len(before) = a - 1 /\ Len(before) + Len(after) = N + 1 - m
          BY <1>2, <1>5, <2>5
        <4> QED
          BY <2>4, <4>1, <4>2
      <3>2. \A t \in 1 .. N + 1 - m : tr[t] = IF t < a THEN t ELSE t + m
        <4> SUFFICES ASSUME NEW t \in 1 .. N + 1 - m PROVE tr[t] = IF t < a THEN t ELSE t + m
          OBVIOUS
        <4>1. CASE t < a
          <5>1. t \in 1 .. a - 1 /\ t <= a - 1
            BY <1>2, <2>5, <4>1
          <5> QED
            BY <1>5, <3>1, <4>1, <5>1
        <4>2. CASE ~(t < a)
          <5>1. t - (a - 1) \in 1 .. N + 1 - b /\ ~(t <= a - 1) /\ b + (t - (a - 1)) = t + m
            BY <1>2, <2>5, <4>2
          <5> QED
            BY <1>5, <3>1, <4>2, <5>1
        <4> QED
          BY <4>1, <4>2
      <3>3. tr = [t \in 1 .. N + 1 - m |-> tr[t]]
        BY <3>1
      <3> QED
        BY <3>2, <3>3
    <2> QED
      BY <1>1, <1>7, <1>8, <2>5, <2>6 DEF RunsThrough
  <1>9. CASE times = 1
    <2>1. [j \in 1 .. times |-> stretch(a, b)] = [j \in 1 .. 1 |-> again]
      BY <1>4, <1>9
    <2>2. FlattenSeq([j \in 1 .. times |-> stretch(a, b)]) = again
      BY <1>5, <2>1, FlattenFew
    <2>3. tr = (before \o again) \o after
      BY <1>3, <1>4, <1>7, <2>2
    <2>4. PICK s : s = before \o again
      OBVIOUS
    <2>5. /\ s \in Seq(Nat) /\ Len(s) = b
          /\ \A t \in 1 .. b : s[t] = IF t <= a - 1 THEN before[t] ELSE again[t - (a - 1)]
      <3>1. /\ before \o again \in Seq(Nat)
            /\ Len(before \o again) = Len(before) + Len(again)
            /\ \A i \in 1 .. Len(before) + Len(again) :
                 (before \o again)[i] = IF i <= Len(before) THEN before[i] ELSE again[i - Len(before)]
        BY <1>5, ConcatProperties
      <3>2. Len(before) = a - 1 /\ Len(before) + Len(again) = b
        BY <1>2, <1>5, <2>4
      <3> QED
        BY <2>4, <3>1, <3>2
    <2>6. \A t \in 1 .. b : s[t] = t
      <3> SUFFICES ASSUME NEW t \in 1 .. b PROVE s[t] = t
        OBVIOUS
      <3>1. CASE t <= a - 1
        <4>1. t \in 1 .. a - 1
          BY <1>2, <3>1
        <4> QED
          BY <1>5, <2>5, <3>1, <4>1
      <3>2. CASE ~(t <= a - 1)
        <4>1. t - (a - 1) \in 1 .. b - a + 1 /\ a + (t - (a - 1)) - 1 = t
          BY <1>2, <3>2
        <4> QED
          BY <1>5, <2>5, <3>2, <4>1
      <3> QED
        BY <3>1, <3>2
    <2>7. /\ tr \in Seq(Nat) /\ Len(tr) = N + 1
          /\ \A t \in 1 .. N + 1 : tr[t] = IF t <= b THEN s[t] ELSE after[t - b]
      <3>1. /\ s \o after \in Seq(Nat)
            /\ Len(s \o after) = Len(s) + Len(after)
            /\ \A i \in 1 .. Len(s) + Len(after) :
                 (s \o after)[i] = IF i <= Len(s) THEN s[i] ELSE after[i - Len(s)]
        <4>1. s \in Seq(Nat) /\ after \in Seq(Nat)
          BY <1>5, <2>5
        <4> QED
          BY ONLY <4>1, ConcatProperties
      <3>2. Len(s) = b /\ Len(s) + Len(after) = N + 1
        BY <1>2, <1>5, <2>5
      <3> QED
        BY <2>3, <2>4, <3>1, <3>2
    <2>8. \A t \in 1 .. N + 1 : tr[t] = t
      <3> SUFFICES ASSUME NEW t \in 1 .. N + 1 PROVE tr[t] = t
        OBVIOUS
      <3>1. CASE t <= b
        <4>1. t \in 1 .. b
          BY <1>2, <3>1
        <4> QED
          BY <2>6, <2>7, <3>1, <4>1
      <3>2. CASE ~(t <= b)
        <4>1. t - b \in 1 .. N + 1 - b /\ b + (t - b) = t
          BY <1>2, <3>2
        <4> QED
          BY <1>5, <2>7, <3>2, <4>1
      <3> QED
        BY <3>1, <3>2
    <2>9. tr = [t \in 1 .. N + 1 |-> tr[t]]
      BY <2>7
    <2>10. tr = [t \in 1 .. N + 1 |-> t]
      BY <2>8, <2>9
    <2> QED
      BY <1>1, <1>6, <1>7, <1>9, <2>10 DEF RunsThrough
  <1>10. CASE times = 2
    <2>1. [j \in 1 .. times |-> stretch(a, b)] = [j \in 1 .. 2 |-> again]
      BY <1>4, <1>10
    <2>2. FlattenSeq([j \in 1 .. times |-> stretch(a, b)]) = again \o again
      BY <1>5, <2>1, FlattenFew
    <2>3. tr = (before \o (again \o again)) \o after
      BY <1>3, <1>4, <1>7, <2>2
    <2>4. PICK m, u, s : m = b - a + 1 /\ u = again \o again /\ s = before \o u
      OBVIOUS
    <2>5. /\ m \in Nat /\ u \in Seq(Nat) /\ Len(u) = m + m
          /\ \A t \in 1 .. m + m : u[t] = IF t <= m THEN again[t] ELSE again[t - m]
      <3>1. /\ again \o again \in Seq(Nat)
            /\ Len(again \o again) = Len(again) + Len(again)
            /\ \A i \in 1 .. Len(again) + Len(again) :
                 (again \o again)[i] = IF i <= Len(again) THEN again[i] ELSE again[i - Len(again)]
        BY <1>5, ConcatProperties
      <3>2. Len(again) = m /\ Len(again) + Len(again) = m + m
        BY <1>2, <1>5, <2>4
      <3> QED
        BY <1>2, <2>4, <3>1, <3>2, SMTT(30)
    <2>6. \A t \in 1 .. m + m : u[t] = IF t <= m THEN a + t - 1 ELSE a + t - m - 1
      <3> SUFFICES ASSUME NEW t \in 1 .. m + m
                   PROVE  u[t] = IF t <= m THEN a + t - 1 ELSE a + t - m - 1
        OBVIOUS
      <3>1. CASE t <= m
        <4>1. t \in 1 .. m
          BY <2>5, <3>1
        <4> QED
          BY <1>5, <2>4, <2>5, <3>1, <4>1
      <3>2. CASE ~(t <= m)
        <4>1. t - m \in 1 .. m /\ a + (t - m) - 1 = a + t - m - 1
          BY <1>2, <2>5, <3>2
        <4>2. again[t - m] = a + (t - m) - 1
          BY <1>5, <2>4, <4>1
        <4> QED
          BY <2>5, <3>2, <4>1, <4>2
      <3> QED
        BY <3>1, <3>2
    <2>7. /\ s \in Seq(Nat) /\ Len(s) = b + m
          /\ \A t \in 1 .. b + m : s[t] = IF t <= a - 1 THEN before[t] ELSE u[t - (a - 1)]
      <3>1. /\ before \o u \in Seq(Nat)
            /\ Len(before \o u) = Len(before) + Len(u)
            /\ \A i \in 1 .. Len(before) + Len(u) :
                 (before \o u)[i] = IF i <= Len(before) THEN before[i] ELSE u[i - Len(before)]
        BY <1>5, <2>5, ConcatProperties
      <3>2. Len(before) = a - 1 /\ Len(before) + Len(u) = b + m
        BY <1>2, <1>5, <2>4, <2>5
      <3> QED
        BY <2>4, <3>1, <3>2
    <2>8. \A t \in 1 .. b + m : s[t] = IF t <= b THEN t ELSE t - m
      <3> SUFFICES ASSUME NEW t \in 1 .. b + m PROVE s[t] = IF t <= b THEN t ELSE t - m
        OBVIOUS
      <3>1. CASE t <= a - 1
        <4>1. t \in 1 .. a - 1 /\ t <= b
          BY <1>2, <3>1
        <4> QED
          BY <1>5, <2>7, <3>1, <4>1
      <3>2. CASE ~(t <= a - 1)
        <4>1. PICK v : v = t - (a - 1)
          OBVIOUS
        <4>2. v \in 1 .. m + m /\ (v <= m <=> t <= b) /\ a + v - 1 = t
          BY <1>2, <2>4, <3>2, <4>1
        <4>3. s[t] = u[v]
          BY <2>7, <3>2, <4>1
        <4>4. u[v] = IF v <= m THEN a + v - 1 ELSE a + v - m - 1
          BY <2>6, <4>2
        <4> QED
          BY <1>2, <2>5, <4>2, <4>3, <4>4
      <3> QED
        BY <3>1, <3>2
    <2>9. /\ tr \in Seq(Nat) /\ Len(tr) = N + 1 + m
          /\ \A t \in 1 .. N + 1 + m : tr[t] = IF t <= b + m THEN s[t] ELSE after[t - (b + m)]
      <3>1. /\ s \o after \in Seq(Nat)
            /\ Len(s \o after) = Len(s) + Len(after)
            /\ \A i \in 1 .. Len(s) + Len(after) :
                 (s \o after)[i] = IF i <= Len(s) THEN s[i] ELSE after[i - Len(s)]
        BY <1>5, <2>7, ConcatProperties
      <3>2. Len(s) = b + m /\ Len(s) + Len(after) = N + 1 + m
        BY <1>2, <1>5, <2>4, <2>7
      <3> QED
        BY <2>3, <2>4, <3>1, <3>2
    <2>10. \A t \in 1 .. N + 1 + m : tr[t] = IF t <= b THEN t ELSE t - m
      <3> SUFFICES ASSUME NEW t \in 1 .. N + 1 + m PROVE tr[t] = IF t <= b THEN t ELSE t - m
        OBVIOUS
      <3>1. CASE t <= b + m
        <4>1. t \in 1 .. b + m
          BY <1>2, <2>5, <3>1
        <4> QED
          BY <2>8, <2>9, <3>1, <4>1
      <3>2. CASE ~(t <= b + m)
        <4>1. PICK v : v = t - (b + m)
          OBVIOUS
        <4>2. v \in 1 .. N + 1 - b /\ b + v = t - m /\ ~(t <= b)
          BY <1>2, <2>5, <3>2, <4>1
        <4> QED
          BY <1>5, <2>9, <3>2, <4>1, <4>2
      <3> QED
        BY <3>1, <3>2
    <2>11. tr = [t \in 1 .. N + 1 + m |-> tr[t]]
      BY <2>9
    <2>12. tr = [t \in 1 .. N + 1 + m |-> IF t <= b THEN t ELSE t - m]
      BY <2>10, <2>11
    <2> QED
      BY <1>1, <1>6, <1>7, <1>10, <2>4, <2>12 DEF RunsThrough
  <1> QED
    BY <1>6, <1>8, <1>9, <1>10

Within(r, i) == r.from <= i /\ i <= r.to

\* The order of steps: only a loop goes back; whatever lies between two instructions is
\* executed between them, unless it is in the region and the later one is not; and an
\* iteration goes through the region from its beginning.
StepsInOrder(tr, N, r) ==
    /\ r.from \in Nat /\ r.to \in Nat
    /\ \E T \in Nat : DOMAIN tr = 1 .. T
    /\ \A t \in DOMAIN tr : tr[t] \in 1 .. N + 1
    /\ \A s, t \in DOMAIN tr :
         s < t /\ ~(r.kind = "loop" /\ Within(r, tr[s]) /\ Within(r, tr[t])) => tr[s] < tr[t]
    /\ \A s, t \in DOMAIN tr, a \in Nat :
         s <= t /\ tr[s] <= a /\ a <= tr[t] /\ (Within(r, a) => Within(r, tr[t])) =>
           \E q \in s .. t : tr[q] = a
    /\ \A t \in DOMAIN tr : Within(r, tr[t]) =>
         \E h \in 1 .. t : \A s \in h .. t : tr[s] = r.from + (s - h)

LEMMA RunsInOrder ==
    ASSUME NEW N \in Nat, NEW r, RegionOK(r, N), NEW times, NEW tr,
           RunsThrough(tr, N, r, times)
    PROVE  StepsInOrder(tr, N, r)
  <1>1. PICK a, b, m : a = r.from /\ b = r.to /\ m = b - a + 1
    OBVIOUS
  <1>2. /\ a \in Nat /\ b \in Nat /\ m \in Nat /\ 1 <= a /\ a <= b + 1 /\ b <= N
        /\ b = a + m - 1
    BY <1>1 DEF RegionOK
  <1>3. CASE tr = [t \in 1 .. N + 1 - m |-> IF t < a THEN t ELSE t + m]
    <2>1. DOMAIN tr = 1 .. N + 1 - m /\ N + 1 - m \in Nat
      BY <1>2, <1>3
    <2>2. \A t \in DOMAIN tr : tr[t] = IF t < a THEN t ELSE t + m
      BY <1>3
    <2>3. \A t \in DOMAIN tr : tr[t] \in 1 .. N + 1 /\ ~(a <= tr[t] /\ tr[t] <= b)
      BY <1>2, <2>1, <2>2
    <2>4. \A s, t \in DOMAIN tr : s < t => tr[s] < tr[t]
      BY <1>2, <2>1, <2>2
    <2>5. ASSUME NEW s \in DOMAIN tr, NEW t \in DOMAIN tr, NEW c \in Nat,
                 s <= t, tr[s] <= c, c <= tr[t], c < a \/ c > b
          PROVE  \E q \in s .. t : tr[q] = c
      <3>1. PICK q : q = IF c < a THEN c ELSE c - m
        OBVIOUS
      <3>2. q \in s .. t /\ q \in DOMAIN tr /\ (q < a <=> c < a)
        BY <1>2, <2>1, <2>2, <2>5, <3>1
      <3>3. tr[q] = c
        BY <1>2, <2>2, <3>1, <3>2
      <3> QED
        BY <3>2, <3>3
    <2>6. /\ \A i : Within(r, i) <=> a <= i /\ i <= b
          /\ \A t \in DOMAIN tr : ~Within(r, tr[t])
      BY <1>1, <2>3 DEF Within
    <2>7. \A s, t \in DOMAIN tr, c \in Nat :
            s <= t /\ tr[s] <= c /\ c <= tr[t] /\ (Within(r, c) => Within(r, tr[t])) =>
              \E q \in s .. t : tr[q] = c
      <3> SUFFICES ASSUME NEW s \in DOMAIN tr, NEW t \in DOMAIN tr, NEW c \in Nat,
                          s <= t, tr[s] <= c, c <= tr[t], Within(r, c) => Within(r, tr[t])
                   PROVE  \E q \in s .. t : tr[q] = c
        OBVIOUS
      <3>1. c < a \/ c > b
        BY <1>2, <2>6
      <3> QED
        BY <2>5, <3>1
    <2> QED
      BY <1>1, <1>2, <2>1, <2>3, <2>4, <2>6, <2>7 DEF StepsInOrder
  <1>4. CASE tr = [t \in 1 .. N + 1 |-> t]
    <2>1. DOMAIN tr = 1 .. N + 1 /\ N + 1 \in Nat /\ \A t \in DOMAIN tr : tr[t] = t
      BY <1>4
    <2>2. ASSUME NEW t \in DOMAIN tr, a <= tr[t], tr[t] <= b
          PROVE  \E h \in 1 .. t : \A s \in h .. t : tr[s] = a + (s - h)
      <3>1. a \in 1 .. t /\ \A s \in a .. t : tr[s] = a + (s - a)
        BY <1>2, <2>1, <2>2
      <3> QED
        BY <3>1
    <2>3. ASSUME NEW s \in DOMAIN tr, NEW t \in DOMAIN tr, NEW c \in Nat,
                 s <= t, tr[s] <= c, c <= tr[t]
          PROVE  \E q \in s .. t : tr[q] = c
      <3>1. c \in s .. t /\ c \in DOMAIN tr
        BY <2>1, <2>3
      <3> QED
        BY <2>1, <3>1
    <2>4. \A s, t \in DOMAIN tr : s < t => tr[s] < tr[t]
      BY <2>1
    <2> QED
      BY <1>1, <1>2, <2>1, <2>2, <2>3, <2>4 DEF StepsInOrder, Within
  <1>5. CASE r.kind = "loop" /\ tr = [t \in 1 .. N + 1 + m |-> IF t <= b THEN t ELSE t - m]
    <2>0. m >= 1
      BY <1>1, <1>2, <1>5 DEF RegionOK
    <2>1. DOMAIN tr = 1 .. N + 1 + m /\ N + 1 + m \in Nat
      BY <1>2, <1>5
    <2>2. \A t \in DOMAIN tr : tr[t] = IF t <= b THEN t ELSE t - m
      BY <1>5
    <2>3. \A t \in DOMAIN tr : tr[t] \in 1 .. N + 1
      BY <1>2, <2>1, <2>2
    <2>4. \A s, t \in DOMAIN tr :
            s < t /\ ~(a <= tr[s] /\ tr[s] <= b /\ a <= tr[t] /\ tr[t] <= b) => tr[s] < tr[t]
      BY <1>2, <2>1, <2>2
    <2>5. ASSUME NEW s \in DOMAIN tr, NEW t \in DOMAIN tr, NEW c \in Nat,
                 s <= t, tr[s] <= c, c <= tr[t],
                 a <= c /\ c <= b => a <= tr[t] /\ tr[t] <= b
          PROVE  \E q \in s .. t : tr[q] = c
      <3>1. PICK q : q = IF c < a THEN c
                         ELSE IF c > b THEN c + m
                         ELSE t - (tr[t] - c)
        OBVIOUS
      <3>2. CASE c < a
        <4>1. q \in s .. t /\ q \in DOMAIN tr /\ q <= b
          BY <1>2, <2>1, <2>2, <2>5, <3>1, <3>2
        <4> QED
          BY <2>2, <3>1, <3>2, <4>1
      <3>3. CASE c > b
        <4>1. q \in s .. t /\ q \in DOMAIN tr /\ ~(q <= b) /\ q - m = c
          BY <1>2, <2>0, <2>1, <2>2, <2>5, <3>1, <3>3
        <4>2. tr[q] = q - m
          BY <2>2, <4>1
        <4> QED
          BY <4>1, <4>2
      <3>4. CASE ~(c < a) /\ ~(c > b)
        <4>1. a <= c /\ c <= b /\ a <= tr[t] /\ tr[t] <= b /\ tr[t] \in Nat
          BY <1>2, <2>3, <2>5, <3>4
        <4>2. CASE t <= b
          <5>1. tr[t] = t /\ q = c
            BY <2>1, <2>2, <3>1, <3>4, <4>2
          <5>2. q \in s .. t /\ q \in DOMAIN tr /\ q <= b
            BY <1>2, <2>1, <2>2, <2>5, <4>1, <4>2, <5>1
          <5> QED
            BY <2>2, <5>1, <5>2
        <4>3. CASE ~(t <= b)
          <5>1. tr[t] = t - m /\ q = c + m
            BY <1>2, <2>1, <2>2, <3>1, <3>4, <4>3
          <5>2. q \in s .. t /\ q \in DOMAIN tr /\ ~(q <= b) /\ q - m = c
            BY <1>2, <2>1, <2>2, <2>5, <4>1, <4>3, <5>1
          <5>3. tr[q] = q - m
            BY <2>2, <5>2
          <5> QED
            BY <5>2, <5>3
        <4> QED
          BY <4>2, <4>3
      <3> QED
        BY <3>2, <3>3, <3>4
    <2>6. ASSUME NEW t \in DOMAIN tr, a <= tr[t], tr[t] <= b
          PROVE  \E h \in 1 .. t : \A s \in h .. t : tr[s] = a + (s - h)
      <3>1. CASE t <= b
        <4>1. a \in 1 .. t /\ \A s \in a .. t : s \in DOMAIN tr /\ s <= b
          BY <1>2, <2>1, <2>2, <2>6, <3>1
        <4>2. \A s \in a .. t : tr[s] = a + (s - a)
          BY <1>2, <2>1, <2>2, <4>1
        <4> QED
          BY <4>1, <4>2
      <3>2. CASE ~(t <= b)
        <4>1. PICK h : h = a + m
          OBVIOUS
        <4>2. h \in 1 .. t /\ \A s \in h .. t : s \in DOMAIN tr /\ ~(s <= b)
          BY <1>2, <2>1, <2>2, <2>6, <3>2, <4>1
        <4>3. \A s \in h .. t : tr[s] = a + (s - h)
          BY <1>2, <2>1, <2>2, <4>1, <4>2
        <4> QED
          BY <4>2, <4>3
      <3> QED
        BY <3>1, <3>2
    <2>7. \A i : Within(r, i) <=> a <= i /\ i <= b
      BY <1>1 DEF Within
    <2>8. \A s, t \in DOMAIN tr, c \in Nat :
            s <= t /\ tr[s] <= c /\ c <= tr[t] /\ (Within(r, c) => Within(r, tr[t])) =>
              \E q \in s .. t : tr[q] = c
      BY <2>5, <2>7
    <2>9. \A s, t \in DOMAIN tr :
            s < t /\ ~(r.kind = "loop" /\ Within(r, tr[s]) /\ Within(r, tr[t])) => tr[s] < tr[t]
      BY <1>5, <2>4, <2>7
    <2>10. \A t \in DOMAIN tr : Within(r, tr[t]) =>
             \E h \in 1 .. t : \A s \in h .. t : tr[s] = a + (s - h)
      BY <2>6, <2>7
    <2>11. r.from \in Nat /\ r.to \in Nat
      BY <1>1, <1>2
    <2> QED
      BY <1>1, <2>1, <2>3, <2>8, <2>9, <2>10, <2>11 DEF StepsInOrder
  <1> QED
    BY <1>1, <1>3, <1>4, <1>5 DEF RunsThrough

\* The latest step of some kind.
Latest(tr, t, S) == Max({0} \cup {s \in 1 .. t - 1 : tr[s] \in S})
LEMMA LatestStep ==
    ASSUME NEW tr, NEW t \in Nat \ {0}, NEW S
    PROVE  /\ Latest(tr, t, S) \in 0 .. t - 1
           /\ Latest(tr, t, S) = 0 \/ tr[Latest(tr, t, S)] \in S
           /\ \A s \in 1 .. t - 1 : tr[s] \in S => s <= Latest(tr, t, S)
  <1> DEFINE A == {s \in 1 .. t - 1 : tr[s] \in S}
             B == {0} \cup A
  <1>0. Latest(tr, t, S) = Max(B)
    BY DEF Latest
  <1>1. CASE A = {}
    <2>1. B = {0}
      BY <1>1
    <2>2. Max({0}) = 0
      BY DEF Max
    <2>3. Max(B) = 0
      BY <2>1, <2>2
    <2> QED
      BY <1>0, <1>1, <2>3
  <1>2. CASE A # {}
    <2>1. A \in SUBSET (1 .. t - 1) /\ t - 1 \in Nat
      OBVIOUS
    <2>2. PICK l : l = Max(A)
      OBVIOUS
    <2>3. l \in A
      <3> HIDE DEF A
      <3> QED
        BY <1>2, <2>1, <2>2, MaxMin
    <2>4. \A s \in A : s <= l
      <3> HIDE DEF A
      <3> QED
        BY <1>2, <2>1, <2>2, MaxMin
    <2>5. l \in B /\ \A y \in B : l >= y
      BY <2>1, <2>3, <2>4
    <2>6. \A x \in B : (\A y \in B : x >= y) => x = l
      BY <2>1, <2>5
    <2>7. Max(B) = l
      <3> HIDE DEF B
      <3> QED
        BY <2>5, <2>6 DEF Max
    <2> QED
      BY <1>0, <2>3, <2>4, <2>7
  <1> QED
    BY <1>1, <1>2

-----------------------------------------------------------------------------
(* The definition that reaches a pseudo-instruction is the last one executed *)

\* When a register was set.
SetSteps(f, tr, t, d, l) ==
    LET at == code[f][d].at
        r == region[f]
        phi == d = Phi /\ r.kind = "loop" /\ Within(r, tr[t])
    IN  /\ l \in 0 .. t
        /\ d > 0 /\ at = tr[t] => l = t
        /\ d > 0 /\ at # tr[t] => /\ l <= t - 1 /\ (l = 0 \/ tr[l] = at)
                                  /\ \A s \in 1 .. t - 1 : tr[s] = at => s <= l
        /\ ~(d > 0) => l <= t - 1
        /\ ~(d > 0) /\ phi => \E h \in 1 .. t :
             l = h - 1 /\ \A s \in h .. t : tr[s] = r.from + (s - h)
        /\ ~(d > 0) /\ ~phi => \A s \in 1 .. t - 1 : tr[s] \in 1 .. r.to => s <= l
LEMMA SetAtSteps ==
    ASSUME NEW f, NEW tr, NEW N, StepsInOrder(tr, N, region[f]), NEW t \in DOMAIN tr,
           NEW d \in Int
    PROVE  SetSteps(f, tr, t, d, SetAt(f, tr, t, d))
  <1>1. PICK r, at, l : r = region[f] /\ at = code[f][d].at /\ l = SetAt(f, tr, t, d)
    OBVIOUS
  <1>0. /\ l \in 0 .. t
        /\ d > 0 /\ at = tr[t] => l = t
        /\ d > 0 /\ at # tr[t] => /\ l <= t - 1 /\ (l = 0 \/ tr[l] = at)
                                  /\ \A s \in 1 .. t - 1 : tr[s] = at => s <= l
        /\ ~(d > 0) => l <= t - 1
        /\ ~(d > 0) /\ (d = Phi /\ r.kind = "loop" /\ Within(r, tr[t])) =>
             \E h \in 1 .. t : l = h - 1 /\ \A s \in h .. t : tr[s] = r.from + (s - h)
        /\ ~(d > 0) /\ ~(d = Phi /\ r.kind = "loop" /\ Within(r, tr[t])) =>
             \A s \in 1 .. t - 1 : tr[s] \in 1 .. r.to => s <= l
    <2>2. t \in Nat \ {0} /\ tr[t] \in 1 .. N + 1 /\ r.from \in Nat /\ r.to \in Nat
          /\ (Within(r, tr[t]) <=> tr[t] \in r.from .. r.to)
      <3>1. t \in Nat \ {0} /\ tr[t] \in 1 .. N + 1 /\ r.from \in Nat /\ r.to \in Nat
        BY <1>1 DEF StepsInOrder
      <3> QED
        BY <3>1 DEF Within
    <2>3. CASE d > 0
      <3>0. PICK S : S = {at}
        OBVIOUS
      <3>1. l = IF at = tr[t] THEN t ELSE Latest(tr, t, S)
        BY <1>1, <2>3, <3>0 DEF SetAt, Latest, Phi
      <3>2. CASE at = tr[t]
        BY <1>1, <2>2, <2>3, <3>1, <3>2
      <3>3. CASE at # tr[t]
        <4>1. /\ l \in 0 .. t - 1 /\ (l = 0 \/ tr[l] \in S)
              /\ \A s \in 1 .. t - 1 : tr[s] \in S => s <= l
          BY <2>2, <3>1, <3>3, LatestStep
        <4> QED
          BY <1>1, <2>2, <2>3, <3>0, <3>3, <4>1
      <3> QED
        BY <3>2, <3>3
    <2>4. CASE ~(d > 0) /\ d = Phi /\ r.kind = "loop" /\ Within(r, tr[t])
      <3> DEFINE B == {s \in 1 .. t : tr[s] = r.from}
      <3>1. l = Max(B) - 1
        BY <1>1, <2>2, <2>4 DEF SetAt
      <3>2. PICK h \in 1 .. t : \A s \in h .. t : tr[s] = r.from + (s - h)
        BY <1>1, <2>4 DEF StepsInOrder
      <3>3. r.from \in Int
        BY <2>2
      <3>4. h \in B
        <4>1. h \in h .. t /\ h - h = 0
          BY <2>2
        <4> QED
          BY <3>2, <3>3, <4>1
      <3>5. \A s \in B : s <= h
        <4> SUFFICES ASSUME NEW s \in B, s > h PROVE FALSE
          OBVIOUS
        <4>1. s \in h .. t /\ tr[s] = r.from
          BY <2>2
        <4> QED
          BY <3>2, <3>3, <4>1
      <3>6. Max(B) = h
        <4>1. B \in SUBSET (1 .. t) /\ B # {}
          BY <3>4
        <4>2. Max(B) \in B /\ h <= Max(B)
          <5> HIDE DEF B
          <5> QED
            BY <2>2, <3>4, <4>1, MaxMin
        <4> QED
          BY <2>2, <3>5, <4>2
      <3> HIDE DEF B
      <3> QED
        BY <1>1, <2>2, <2>4, <3>1, <3>2, <3>6
    <2>5. CASE ~(d > 0) /\ ~(d = Phi /\ r.kind = "loop" /\ Within(r, tr[t]))
      <3>0. PICK S : S = 1 .. r.to
        OBVIOUS
      <3>1. ~(d = Phi /\ r.kind = "loop" /\ tr[t] \in r.from .. r.to)
        BY <2>2, <2>5
      <3>2. l = Latest(tr, t, S)
        BY <1>1, <2>5, <3>0, <3>1 DEF SetAt, Latest
      <3>3. l \in 0 .. t - 1 /\ \A s \in 1 .. t - 1 : tr[s] \in S => s <= l
        BY <2>2, <3>2, LatestStep
      <3> QED
        BY <1>1, <2>2, <2>5, <3>0, <3>3
    <2> QED
      BY <2>3, <2>4, <2>5
  <1> QED
    BY <1>0, <1>1 DEF SetSteps

\* The candidates for the value of a variable at a pseudo-instruction.
Whole(cs, n, r, k, x) ==
    \/ \A j \in 1 .. n : ~(IsDef(cs[j]) /\ cs[j].var = x /\ Within(r, cs[j].at))
    \/ cs[k].at < r.from \/ (r.kind = "if" /\ Within(r, cs[k].at))
Candidates(cs, n, r, k, x, d) ==
    LET defines(j) == IsDef(cs[j]) /\ cs[j].var = x
        at == cs[k].at
    IN  IF Whole(cs, n, r, k, x) THEN \A j \in 1 .. k - 1 : defines(j) => d > 0 /\ j <= d
        ELSE IF Within(r, at)
        THEN /\ \A j \in 1 .. k - 1 : defines(j) /\ Within(r, cs[j].at) => d > 0 /\ j <= d
             /\ IF d > 0 THEN Within(r, cs[d].at) ELSE d = Phi \/ ~(at >= r.from)
        ELSE /\ \A j \in 1 .. k - 1 : defines(j) /\ cs[j].at > r.to => d > 0 /\ j <= d
             /\ IF d > 0 THEN cs[d].at > r.to ELSE d = Phi \/ ~(at >= r.from)
LEMMA ReachingCases ==
    ASSUME NEW n \in Nat, NEW cs, DOMAIN cs = 1 .. n, NEW r, NEW k \in 1 .. n, NEW x
    PROVE  Candidates(cs, n, r, k, x, Reaching(cs, r, k, x))
  <1> DEFINE defines(d) == IsDef(cs[d]) /\ cs[d].var = x
             within(i) == r.from <= i /\ i <= r.to
             above == {d \in 1 .. k - 1 : defines(d)}
             inside == {d \in DOMAIN cs : defines(d) /\ within(cs[d].at)}
             at == cs[k].at
             whole == inside = {} \/ at < r.from \/ (r.kind = "if" /\ within(at))
             recent == IF whole THEN above
                       ELSE IF within(at) THEN above \cap inside
                       ELSE {d \in above : cs[d].at > r.to}
  <1>1. PICK e : e = Reaching(cs, r, k, x)
    OBVIOUS
  <1>2. e = IF recent # {} THEN Max(recent) ELSE IF inside # {} /\ at >= r.from THEN Phi ELSE None
    BY <1>1 DEF Reaching
  <1>3. recent \subseteq 1 .. k - 1
    <2>1. /\ above \subseteq 1 .. k - 1 /\ above \cap inside \subseteq 1 .. k - 1
          /\ {d \in above : cs[d].at > r.to} \subseteq 1 .. k - 1
      OBVIOUS
    <2> HIDE DEF above, inside, whole
    <2> QED
      BY <2>1
  <1>4. \A j \in recent : e > 0 /\ j <= e /\ e \in recent
    <2> SUFFICES ASSUME NEW j \in recent PROVE e > 0 /\ j <= e /\ e \in recent
      OBVIOUS
    <2> HIDE DEF recent
    <2>1. k - 1 \in Nat /\ recent \in SUBSET (1 .. k - 1) /\ recent # {}
      BY <1>3
    <2>2. Max(recent) \in recent /\ j <= Max(recent)
      BY <2>1, MaxMin
    <2>3. e = Max(recent)
      BY <1>2, <2>1
    <2>4. e \in 1 .. k - 1
      BY <2>1, <2>2, <2>3
    <2> QED
      BY <2>2, <2>3, <2>4
  <1>5. recent = {} => ~(e > 0) /\ (e = Phi \/ inside = {} \/ ~(at >= r.from))
    <2> HIDE DEF recent
    <2> QED
      BY <1>2 DEF Phi, None
  <1>6. e > 0 => e \in recent
    BY <1>4, <1>5
  <1>7. \A i : Within(r, i) <=> within(i)
    BY DEF Within
  <1>8. inside = {} <=> \A j \in 1 .. n : ~(defines(j) /\ Within(r, cs[j].at))
    BY <1>7
  <1>9. whole <=> Whole(cs, n, r, k, x)
    BY <1>7, <1>8 DEF Whole
  <1>10. CASE whole
    <2>1. \A j \in 1 .. k - 1 : defines(j) => j \in recent
      BY <1>10
    <2>2. \A j \in 1 .. k - 1 : defines(j) => e > 0 /\ j <= e
      <3> HIDE DEF recent, defines
      <3> QED
        BY <1>4, <2>1
    <2> HIDE DEF recent, whole, inside
    <2> QED
      BY <1>1, <1>9, <1>10, <2>2 DEF Candidates
  <1>11. CASE ~whole /\ within(at)
    <2>1. /\ \A j \in 1 .. k - 1 : defines(j) /\ Within(r, cs[j].at) => j \in recent
          /\ \A j \in recent : Within(r, cs[j].at)
          /\ inside # {}
      <3>1. recent = above \cap inside
        BY <1>11
      <3>2. DOMAIN cs = 1 .. n /\ 1 .. k - 1 \subseteq 1 .. n
        OBVIOUS
      <3>3. inside # {}
        BY <1>11
      <3>4. \A j \in 1 .. k - 1 : defines(j) /\ Within(r, cs[j].at) => j \in above \cap inside
        BY <1>7, <3>2
      <3>5. \A j \in above \cap inside : Within(r, cs[j].at)
        BY <1>7
      <3> HIDE DEF recent, above, inside, defines
      <3> QED
        BY <3>1, <3>3, <3>4, <3>5
    <2>2. \A j \in 1 .. k - 1 : defines(j) /\ Within(r, cs[j].at) => e > 0 /\ j <= e
      <3> HIDE DEF recent, defines
      <3> QED
        BY <1>4, <2>1
    <2>3. IF e > 0 THEN Within(r, cs[e].at) ELSE e = Phi \/ ~(at >= r.from)
      <3> HIDE DEF recent, inside
      <3> QED
        BY <1>4, <1>5, <1>6, <2>1
    <2> HIDE DEF recent, whole, inside
    <2> QED
      BY <1>1, <1>7, <1>9, <1>11, <2>2, <2>3 DEF Candidates
  <1>12. CASE ~whole /\ ~within(at)
    <2>1. /\ \A j \in 1 .. k - 1 : defines(j) /\ cs[j].at > r.to => j \in recent
          /\ \A j \in recent : cs[j].at > r.to
          /\ inside # {}
      <3>1. recent = {d \in above : cs[d].at > r.to}
        BY <1>12
      <3>2. inside # {}
        BY <1>12
      <3>3. \A j \in 1 .. k - 1 : defines(j) => j \in above
        OBVIOUS
      <3> HIDE DEF recent, above, inside, defines
      <3> QED
        BY <3>1, <3>2, <3>3
    <2>2. \A j \in 1 .. k - 1 : defines(j) /\ cs[j].at > r.to => e > 0 /\ j <= e
      <3> HIDE DEF recent, defines
      <3> QED
        BY <1>4, <2>1
    <2>3. IF e > 0 THEN cs[e].at > r.to ELSE e = Phi \/ ~(at >= r.from)
      <3> HIDE DEF recent, inside
      <3> QED
        BY <1>4, <1>5, <1>6, <2>1
    <2> HIDE DEF recent, whole, inside
    <2> QED
      BY <1>1, <1>7, <1>9, <1>12, <2>2, <2>3 DEF Candidates
  <1> QED
    BY <1>10, <1>11, <1>12

\* Pseudo-instructions stand in the order of the instructions.
Sorted(cs) == \A i, j \in DOMAIN cs : i < j => cs[i].at <= cs[j].at

\* The register that reaches a pseudo-instruction was not set before any definition
\* of the variable that has been executed.
LEMMA ReachingSeen ==
    ASSUME NEW f, NEW n \in Nat, DOMAIN code[f] = 1 .. n,
           \A i \in 1 .. n : code[f][i].at \in Nat, Sorted(code[f]),
           NEW N \in Nat, RegionOK(region[f], N), NEW tr, StepsInOrder(tr, N, region[f]),
           NEW t \in DOMAIN tr, NEW k \in 1 .. n, tr[t] = code[f][k].at,
           NEW s \in 1 .. t - 1, NEW j \in 1 .. n, tr[s] = code[f][j].at,
           IsDef(code[f][j]), code[f][j].var = code[f][k].var
    PROVE  s <= SetAt(f, tr, t, Reaching(code[f], region[f], k, code[f][k].var))
  <1>1. PICK cs, r, x, d, l, at :
          /\ cs = code[f] /\ r = region[f] /\ x = code[f][k].var
          /\ d = Reaching(cs, r, k, x) /\ l = SetAt(f, tr, t, d)
          /\ at = code[f][k].at
    OBVIOUS
  <1>0. /\ at = cs[k].at
        /\ Whole(cs, n, r, k, x) <=> \/ \A i \in 1 .. n : ~(IsDef(cs[i]) /\ cs[i].var = x /\ Within(r, cs[i].at))
                    \/ at < r.from \/ (r.kind = "if" /\ Within(r, at))
    BY <1>1 DEF Whole
  <1>2. /\ DOMAIN cs = 1 .. n /\ \A i \in 1 .. n : cs[i].at \in Nat
        /\ \A i, m \in 1 .. n : cs[i].at < cs[m].at => i < m
        /\ \A i, m \in 1 .. n : i <= m => cs[i].at <= cs[m].at
    <2>1. DOMAIN cs = 1 .. n /\ \A i \in 1 .. n : cs[i].at \in Nat
      BY <1>1
    <2>2. \A i, m \in 1 .. n : i < m => cs[i].at <= cs[m].at
      <3>1. Sorted(cs)
        BY <1>1
      <3> QED
        BY <2>1, <3>1 DEF Sorted
    <2>3. ASSUME NEW i \in 1 .. n, NEW m \in 1 .. n, i <= m PROVE cs[i].at <= cs[m].at
      <3>1. cs[i].at \in Nat /\ cs[m].at \in Nat
        BY <2>1
      <3>2. CASE i = m
        BY <3>1, <3>2
      <3>3. CASE i # m
        <4>1. i < m
          BY <2>3, <3>3
        <4> QED
          BY <2>2, <4>1
      <3> QED
        BY <3>2, <3>3
    <2>4. ASSUME NEW i \in 1 .. n, NEW m \in 1 .. n, cs[i].at < cs[m].at PROVE i < m
      <3>1. cs[i].at \in Nat /\ cs[m].at \in Nat
        BY <2>1
      <3>2. m <= i => cs[m].at <= cs[i].at
        BY <2>3
      <3> QED
        BY <2>4, <3>1, <3>2
    <2> QED
      BY <2>1, <2>3, <2>4
  <1>3. d \in None .. k - 1 /\ (d > 0 => IsDef(cs[d]) /\ cs[d].var = x) /\ d \in Int
    <2>1. d \in None .. k - 1 /\ (d > 0 => IsDef(cs[d]) /\ cs[d].var = x)
      BY <1>1, <1>2, ReachingRange
    <2> QED
      BY <2>1 DEF None
  <1>20. StepsInOrder(tr, N, r) /\ RegionOK(r, N)
    BY <1>1
  <1>21. \A q, u \in DOMAIN tr :
           q < u /\ ~(r.kind = "loop" /\ Within(r, tr[q]) /\ Within(r, tr[u])) => tr[q] < tr[u]
    BY <1>20 DEF StepsInOrder
  <1>22. \A q, u \in DOMAIN tr, a \in Nat :
           q <= u /\ tr[q] <= a /\ a <= tr[u] /\ (Within(r, a) => Within(r, tr[u])) =>
             \E m \in q .. u : tr[m] = a
    BY <1>20 DEF StepsInOrder
  <1>23. \A u \in DOMAIN tr : Within(r, tr[u]) =>
           \E h \in 1 .. u : \A q \in h .. u : tr[q] = r.from + (q - h)
    BY <1>20 DEF StepsInOrder
  <1>24. r.from \in Nat /\ r.to \in Nat /\ (\A q \in DOMAIN tr : tr[q] \in 1 .. N + 1)
         /\ \E T \in Nat : DOMAIN tr = 1 .. T
    BY <1>20 DEF StepsInOrder
  <1>4. /\ r.from \in Nat /\ r.to \in Nat /\ t \in DOMAIN tr /\ s \in DOMAIN tr /\ s < t
        /\ t \in Nat /\ s \in Nat /\ \A q \in DOMAIN tr : tr[q] \in 1 .. N + 1
        /\ \A q \in 1 .. t : q \in DOMAIN tr
    BY <1>24, SMTT(30)
  <1>5. tr[t] = at /\ tr[s] = cs[j].at /\ tr[t] \in Nat /\ tr[s] \in Nat /\ tr[s] >= 1
    BY <1>1, <1>4
  <1>6. ~(r.kind = "loop" /\ Within(r, tr[s]) /\ Within(r, tr[t])) => tr[s] < tr[t] /\ j \in 1 .. k - 1
    <2>1. ~(r.kind = "loop" /\ Within(r, tr[s]) /\ Within(r, tr[t])) => tr[s] < tr[t]
      BY <1>4, <1>21
    <2>2. tr[s] < tr[t] => j < k
      BY <1>0, <1>2, <1>5
    <2>3. j < k => j \in 1 .. k - 1
      OBVIOUS
    <2> QED
      BY <2>1, <2>2, <2>3
  <1>7. d > 0 => d \in 1 .. n /\ d < k /\ cs[d].at \in Nat /\ cs[d].at <= tr[t]
    <2> SUFFICES ASSUME d > 0
                 PROVE  d \in 1 .. n /\ d < k /\ cs[d].at \in Nat /\ cs[d].at <= tr[t]
      OBVIOUS
    <2>1. d \in 1 .. n /\ d < k /\ d <= k
      BY <1>3 DEF None
    <2>2. cs[d].at \in Nat /\ cs[d].at <= cs[k].at
      BY <1>2, <2>1
    <2> QED
      BY <1>0, <1>5, <2>1, <2>2
  <1>8. IsDef(cs[j]) /\ cs[j].var = x
    BY <1>1
  <1>25. SetSteps(f, tr, t, d, l)
    BY <1>1, <1>3, SetAtSteps
  <1>9. l \in 0 .. t /\ (d > 0 /\ cs[d].at = tr[t] => l = t)
        /\ (d > 0 /\ cs[d].at # tr[t] => \A q \in 1 .. t - 1 : tr[q] = cs[d].at => q <= l)
    BY <1>1, <1>25 DEF SetSteps
  <1>10. ASSUME d > 0, tr[s] <= cs[d].at, Within(r, cs[d].at) => Within(r, tr[t])
         PROVE  s <= l
    <2>0. PICK a : a = cs[d].at
      OBVIOUS
    <2>1. PICK q \in s .. t : tr[q] = cs[d].at
      <3>1. a \in Nat /\ s <= t /\ tr[s] <= a /\ a <= tr[t] /\ (Within(r, a) => Within(r, tr[t]))
        BY <1>4, <1>7, <1>10, <2>0
      <3>2. \E q \in s .. t : tr[q] = a
        BY <1>4, <1>22, <3>1
      <3> QED
        BY <2>0, <3>2
    <2>2. CASE cs[d].at = tr[t]
      BY <1>4, <1>9, <1>10, <2>2
    <2>3. CASE cs[d].at # tr[t]
      <3>1. q \in 1 .. t - 1
        BY <1>4, <2>1, <2>3
      <3>2. q <= l
        BY <1>9, <1>10, <2>1, <2>3, <3>1
      <3> QED
        BY <1>4, <1>9, <2>1, <3>2
    <2> QED
      BY <2>2, <2>3
  <1>11. CASE Whole(cs, n, r, k, x) /\ \A i \in 1 .. k - 1 : IsDef(cs[i]) /\ cs[i].var = x => d > 0 /\ i <= d
    <2>1. ~(r.kind = "loop" /\ Within(r, tr[s]) /\ Within(r, tr[t]))
      <3> SUFFICES ASSUME r.kind = "loop", Within(r, tr[s]), Within(r, tr[t]) PROVE FALSE
        OBVIOUS
      <3>1. Within(r, cs[j].at) /\ ~(at < r.from) /\ r.kind # "if"
        BY <1>4, <1>5 DEF Within
      <3> QED
        BY <1>0, <1>8, <1>11, <3>1
    <2>2. d > 0 /\ j <= d
      BY <1>6, <1>8, <1>11, <2>1
    <2>3. tr[s] <= cs[d].at
      BY <1>2, <1>5, <1>7, <2>2
    <2>4. Within(r, cs[d].at) => Within(r, tr[t])
      <3> SUFFICES ASSUME Within(r, cs[d].at) PROVE Within(r, tr[t])
        OBVIOUS
      <3>1. ~(at < r.from)
        BY <1>4, <1>5, <1>7, <2>2, SMTT(30) DEF Within
      <3>2. d \in 1 .. n /\ IsDef(cs[d]) /\ cs[d].var = x
        BY <1>3, <1>7, <2>2
      <3>3. Within(r, at)
        BY <1>0, <1>11, <3>1, <3>2
      <3> QED
        BY <1>5, <3>3
    <2> QED
      BY <1>1, <1>10, <2>2, <2>3, <2>4
  <1>12. CASE /\ ~Whole(cs, n, r, k, x) /\ Within(r, at)
              /\ \A i \in 1 .. k - 1 :
                   (IsDef(cs[i]) /\ cs[i].var = x) /\ Within(r, cs[i].at) => d > 0 /\ i <= d
              /\ IF d > 0 THEN Within(r, cs[d].at) ELSE d = Phi \/ ~(at >= r.from)
    <2>1. r.kind = "loop"
      <3>1. r.kind # "none"
        BY <1>5, <1>12, <1>20 DEF RegionOK, Within
      <3>2. r.kind # "if"
        BY <1>0, <1>12
      <3> QED
        BY <1>20, <3>1, <3>2 DEF RegionOK
    <2>2. Within(r, tr[t])
      BY <1>5, <1>12
    <2>3. ASSUME NEW h \in 1 .. t, \A q \in h .. t : tr[q] = r.from + (q - h), h <= s
          PROVE  d > 0 /\ tr[s] <= cs[d].at
      <3>1. tr[s] = r.from + (s - h) /\ tr[t] = r.from + (t - h)
        <4>1. s \in h .. t /\ t \in h .. t
          BY <1>4, <2>3
        <4> QED
          BY <2>3, <4>1
      <3>2. tr[s] < tr[t] /\ Within(r, tr[s])
        <4>1. r.from <= tr[t] /\ tr[t] <= r.to
          BY <2>2 DEF Within
        <4>2. tr[s] < tr[t] /\ r.from <= tr[s] /\ tr[s] <= r.to
          <5>1. PICK a, b, c : a = r.from /\ b = r.to /\ c = tr[t]
            OBVIOUS
          <5>2. a \in Nat /\ b \in Nat /\ s \in Nat /\ t \in Nat /\ s < t /\ h \in Nat /\ h <= s
            BY <1>4, <2>3, <5>1
          <5>3. c = a + (t - h) /\ c <= b /\ tr[s] = a + (s - h)
            BY <3>1, <4>1, <5>1
          <5>4. a + (s - h) < c /\ a <= a + (s - h) /\ a + (s - h) <= b
            BY <5>2, <5>3
          <5> QED
            BY <5>1, <5>3, <5>4
        <4> QED
          BY <4>2 DEF Within
      <3>3. j \in 1 .. k - 1 /\ Within(r, cs[j].at)
        <4>1. j < k
          BY <1>0, <1>2, <1>5, <3>2
        <4>2. Within(r, cs[j].at)
          BY <1>5, <3>2
        <4> QED
          BY <4>1, <4>2
      <3>4. d > 0 /\ j <= d
        BY <1>8, <1>12, <3>3
      <3> QED
        BY <1>2, <1>5, <1>7, <3>4
    <2>4. CASE d > 0
      <3>1. PICK h \in 1 .. t : \A q \in h .. t : tr[q] = r.from + (q - h)
        BY <1>4, <2>2, <1>23
      <3>2. Within(r, cs[d].at)
        BY <1>12, <2>4
      <3>3. CASE h <= s
        BY <1>1, <1>10, <2>2, <2>3, <2>4, <3>1, <3>3
      <3>4. CASE ~(h <= s)
        <4>1. tr[t] = r.from + (t - h)
          <5>1. t \in h .. t
            BY <1>4
          <5> QED
            BY <3>1, <5>1
        <4>2. PICK q : q = h + (cs[d].at - r.from)
          OBVIOUS
        <4>3. q \in h .. t /\ tr[q] = cs[d].at
          <5>1. r.from <= cs[d].at /\ cs[d].at <= tr[t] /\ cs[d].at \in Nat
            BY <1>7, <2>4, <3>2 DEF Within
          <5>2. PICK a, c : a = r.from /\ c = cs[d].at
            OBVIOUS
          <5>3. /\ a \in Nat /\ c \in Nat /\ t \in Nat /\ h \in Nat /\ a <= c
                /\ c <= a + (t - h) /\ q = h + (c - a)
            BY <1>4, <4>1, <4>2, <5>1, <5>2
          <5>4. q \in h .. t /\ a + (q - h) = c
            BY <5>3, SMTT(30)
          <5>5. tr[q] = a + (q - h)
            BY <3>1, <5>2, <5>4
          <5> QED
            BY <5>2, <5>4, <5>5
        <4>4. CASE cs[d].at = tr[t]
          BY <1>1, <1>4, <1>9, <2>4, <4>4
        <4>5. CASE cs[d].at # tr[t]
          <5>1. q \in 1 .. t - 1
            BY <1>4, <4>3, <4>5, SMTT(30)
          <5>2. q <= l
            BY <1>9, <2>4, <4>3, <4>5, <5>1
          <5> QED
            BY <1>1, <1>4, <1>9, <3>4, <4>3, <5>2
        <4> QED
          BY <4>4, <4>5
      <3> QED
        BY <3>3, <3>4
    <2>5. CASE ~(d > 0)
      <3>1. d = Phi
        BY <1>4, <1>5, <1>12, <2>2, <2>5 DEF Within
      <3>2. PICK h \in 1 .. t : l = h - 1 /\ \A q \in h .. t : tr[q] = r.from + (q - h)
        BY <1>1, <1>25, <2>1, <2>2, <2>5, <3>1 DEF SetSteps
      <3>3. ~(h <= s)
        BY <2>3, <2>5, <3>2
      <3> QED
        BY <1>1, <1>4, <3>2, <3>3
    <2> QED
      BY <2>4, <2>5
  <1>13. CASE /\ ~Whole(cs, n, r, k, x) /\ ~Within(r, at)
              /\ \A i \in 1 .. k - 1 :
                   (IsDef(cs[i]) /\ cs[i].var = x) /\ cs[i].at > r.to => d > 0 /\ i <= d
              /\ IF d > 0 THEN cs[d].at > r.to ELSE d = Phi \/ ~(at >= r.from)
    <2>1. at > r.to /\ ~Within(r, tr[t])
      <3>1. ~(at < r.from)
        BY <1>0, <1>13
      <3> QED
        BY <1>4, <1>5, <1>13, <3>1 DEF Within
    <2>2. tr[s] < tr[t] /\ j \in 1 .. k - 1
      BY <1>6, <2>1
    <2>3. CASE tr[s] > r.to
      <3>1. d > 0 /\ j <= d
        BY <1>5, <1>8, <1>13, <2>2, <2>3
      <3>2. tr[s] <= cs[d].at /\ cs[d].at > r.to
        <4>1. j \in 1 .. n /\ d \in 1 .. n
          BY <1>5, <1>7, <2>2, <3>1
        <4>2. cs[j].at <= cs[d].at
          BY <1>2, <3>1, <4>1
        <4> QED
          BY <1>5, <1>13, <3>1, <4>2
      <3>3. ~Within(r, cs[d].at)
        <4>1. PICK a, z : a = cs[d].at /\ z = r.to
          OBVIOUS
        <4>2. a \in Nat /\ z \in Nat /\ a > z
          BY <1>4, <1>7, <3>1, <3>2, <4>1
        <4>3. ~(a <= z)
          BY ONLY <4>2
        <4> QED
          BY <4>1, <4>3 DEF Within
      <3> QED
        BY <1>1, <1>10, <3>1, <3>2, <3>3
    <2>4. CASE ~(tr[s] > r.to)
      <3>1. CASE d > 0
        <4>1. tr[s] <= cs[d].at /\ ~Within(r, cs[d].at)
          BY <1>4, <1>5, <1>7, <1>13, <2>4, <3>1, SMTT(30) DEF Within
        <4> QED
          BY <1>1, <1>10, <3>1, <4>1
      <3>2. CASE ~(d > 0)
        <4>1. \A q \in 1 .. t - 1 : tr[q] \in 1 .. r.to => q <= l
          BY <1>1, <1>25, <2>1, <3>2 DEF SetSteps
        <4>2. tr[s] \in 1 .. r.to
          BY <1>4, <1>5, <2>4
        <4> QED
          BY <1>1, <4>1, <4>2
      <3> QED
        BY <3>1, <3>2
    <2> QED
      BY <2>3, <2>4
  <1>14. Candidates(cs, n, r, k, x, d)
    BY <1>1, <1>2, ReachingCases
  <1>15. CASE Whole(cs, n, r, k, x)
    <2>1. \A i \in 1 .. k - 1 : IsDef(cs[i]) /\ cs[i].var = x => d > 0 /\ i <= d
      BY <1>0, <1>14, <1>15 DEF Candidates
    <2> QED
      BY <1>11, <1>15, <2>1
  <1>16. CASE ~Whole(cs, n, r, k, x) /\ Within(r, at)
    <2>1. /\ \A i \in 1 .. k - 1 :
               (IsDef(cs[i]) /\ cs[i].var = x) /\ Within(r, cs[i].at) => d > 0 /\ i <= d
          /\ IF d > 0 THEN Within(r, cs[d].at) ELSE d = Phi \/ ~(at >= r.from)
      BY <1>0, <1>14, <1>16 DEF Candidates
    <2> QED
      BY <1>12, <1>16, <2>1
  <1>17. CASE ~Whole(cs, n, r, k, x) /\ ~Within(r, at)
    <2>1. /\ \A i \in 1 .. k - 1 :
               (IsDef(cs[i]) /\ cs[i].var = x) /\ cs[i].at > r.to => d > 0 /\ i <= d
          /\ IF d > 0 THEN cs[d].at > r.to ELSE d = Phi \/ ~(at >= r.from)
      BY <1>0, <1>14, <1>17 DEF Candidates
    <2> QED
      BY <1>13, <1>17, <2>1
  <1> QED
    BY <1>15, <1>16, <1>17

-----------------------------------------------------------------------------
(* Where the pseudo-instructions of a function come from                   *)

Queries == {"memhavoc", "is_modified", "get_shadowmem"}
               \cup (IF AllocIsDef THEN {} ELSE {"alloc"})
Updates == {"reset_modified", "free"} \cup (IF AllocIsDef THEN {"alloc"} ELSE {})
AccessOps == {"load", "trsfr_load", "store"}

\* One of an access, and one of a call, by the instruction i.
OfAccess(i, p, reads, writes) ==
    /\ p.op \in AccessOps /\ i.op # "call"
    /\ p.ptr \in {i.ptr, i.src} /\ p.bytes = i.bytes
    /\ p.op = "store" => p.var[1] \in writes \/ i.op \in Updates
    /\ p.op # "store" => p.var[1] \in reads \/ i.op \in Queries
OfCall(i, p) == p.op \in CallOps /\ i.op = "call" /\ p.ptr = NoValue
OfInstruction(i, p, reads, writes) == OfAccess(i, p, reads, writes) \/ OfCall(i, p)

Initial(p) ==
    p.at = 0 /\ (p.op = "global_init" \/ (p.op \in {"init", "arg_init"} /\ p.ptr = NoValue))
Marker(p, end) == p.at = end /\ p.op \in {"in", "out"} /\ p.ptr = NoValue
Made(b, p, reads, writes) ==
    \/ Initial(p)
    \/ p.at \in DOMAIN b /\ OfInstruction(b[p.at], p, reads, writes)
    \/ Marker(p, Len(b) + 1)

\* They stand in the order of the instructions, and what an instruction writes stands
\* last.
Before(p, q) == p.at <= q.at /\ (p.at = q.at => p.op # "store")
InPlace(cs) == \A k, l \in DOMAIN cs : k < l => Before(cs[k], cs[l])

MadeInv ==
    /\ \E x \in Flags : read = x.read /\ mod = x.mod
    /\ \A f \in Function :
         /\ \A p \in ToSet(code[f]) : Made(body[f], p, read, mod)
         /\ InPlace(code[f])
         /\ split => \A i \in DOMAIN body[f] : body[f][i].bytes = 1
         /\ RegionOK(region[f], Len(body[f]))

\* Sequences in place, one after the other.
LEMMA InPlaceConcat ==
    ASSUME NEW s \in Seq(PseudoOps), NEW t \in Seq(PseudoOps), InPlace(s), InPlace(t),
           \A p \in ToSet(s), q \in ToSet(t) : Before(p, q)
    PROVE  InPlace(s \o t)
  <1>1. PICK a, b, u : a = Len(s) /\ b = Len(t) /\ u = s \o t
    OBVIOUS
  <1>2. a \in Nat /\ b \in Nat /\ DOMAIN s = 1 .. a /\ DOMAIN t = 1 .. b
    BY <1>1, LenProperties
  <1>3. /\ DOMAIN u = 1 .. a + b
        /\ \A i \in 1 .. a + b : u[i] = IF i <= a THEN s[i] ELSE t[i - a]
    <2>1. /\ s \o t \in Seq(PseudoOps)
          /\ Len(s \o t) = Len(s) + Len(t)
          /\ \A i \in 1 .. Len(s) + Len(t) :
               (s \o t)[i] = IF i <= Len(s) THEN s[i] ELSE t[i - Len(s)]
      BY ConcatProperties
    <2>2. u \in Seq(PseudoOps) /\ Len(u) = a + b
      BY <1>1, <2>1
    <2>3. DOMAIN u = 1 .. a + b
      BY <2>2, LenProperties
    <2> QED
      BY <1>1, <2>1, <2>3
  <1>4. ASSUME NEW k \in 1 .. a + b, NEW l \in 1 .. a + b, k < l
        PROVE  Before(u[k], u[l])
    <2>1. CASE l <= a
      <3>1. k \in DOMAIN s /\ l \in DOMAIN s /\ u[k] = s[k] /\ u[l] = s[l]
        BY <1>2, <1>3, <1>4, <2>1
      <3> QED
        BY <1>4, <3>1 DEF InPlace
    <2>2. CASE ~(l <= a) /\ k <= a
      <3>1. k \in DOMAIN s /\ l - a \in DOMAIN t /\ u[k] = s[k] /\ u[l] = t[l - a]
        BY <1>2, <1>3, <2>2
      <3>2. s[k] \in ToSet(s) /\ t[l - a] \in ToSet(t)
        BY <3>1 DEF ToSet
      <3> QED
        BY <3>1, <3>2
    <2>3. CASE ~(l <= a) /\ ~(k <= a)
      <3>1. PICK m, o : m = k - a /\ o = l - a
        OBVIOUS
      <3>2. m \in DOMAIN t /\ o \in DOMAIN t /\ u[k] = t[m] /\ u[l] = t[o] /\ m < o
        BY <1>2, <1>3, <1>4, <2>3, <3>1
      <3> QED
        BY <3>2 DEF InPlace
    <2> QED
      BY <2>1, <2>2, <2>3
  <1> QED
    BY <1>1, <1>3, <1>4 DEF InPlace

\* Pseudo-instructions of one place, none of which writes on its own.
LEMMA InPlaceTogether ==
    ASSUME NEW s \in Seq(PseudoOps), NEW at \in Nat,
           \A p \in ToSet(s) : p.at = at /\ p.op # "store"
    PROVE  InPlace(s)
  <1>1. \A k \in DOMAIN s : s[k] \in ToSet(s)
    BY DEF ToSet
  <1>2. \A k \in DOMAIN s : s[k].at = at /\ s[k].op # "store"
    BY <1>1
  <1>3. \A k, l \in DOMAIN s : Before(s[k], s[l])
    BY <1>2 DEF Before
  <1> QED
    BY <1>3 DEF InPlace

\* What is made of a visited instruction.
LEMMA MadeLonger ==
    ASSUME NEW b, NEW c, NEW n \in Nat, DOMAIN b = 1 .. n, Len(b) = n,
           DOMAIN c = 1 .. n + 1, \A k \in 1 .. n : c[k] = b[k],
           NEW p, NEW reads, NEW writes, Made(b, p, reads, writes), p.op \notin LateOps
    PROVE  Made(c, p, reads, writes)
  <1>1. ~Marker(p, Len(b) + 1)
    BY DEF Marker, LateOps
  <1>2. CASE p.at \in DOMAIN b /\ OfInstruction(b[p.at], p, reads, writes)
    BY <1>2 DEF Made
  <1>3. CASE Initial(p)
    BY <1>3 DEF Made
  <1> QED
    BY <1>1, <1>2, <1>3 DEF Made

\* The visit of an instruction.
LEMMA VisitMade ==
    ASSUME ShadowInv, MadeInv, NEW i \in Instruction[fn], NEW reads, NEW writes,
           NEW ps \in Seq(PseudoOps), NEW touched \in Seq(Node \X Nat),
           \A p \in ToSet(ps) : /\ p.var \in Variables /\ p.at = Here
                                /\ OfInstruction(i, p, read, mod),
           ToSet(touched) \subseteq Variables, InPlace(ps),
           VisitTouching(i, reads, writes, ps, touched)
    PROVE  MadeInv'
  <1>1. /\ phase = "visit" /\ (split => i.bytes = 1)
        /\ body' = [body EXCEPT ![fn] = Append(@, i)] /\ Emit(ps, touched)
        /\ UNCHANGED <<flags, region>>
    BY DEF VisitTouching
  <1>2. PICK f : f = fn
    OBVIOUS
  <1>3. f \in Function /\ BodyInv(f) /\ CodeInv(f) /\ TypeInv
    BY <1>2 DEF ShadowInv, OrderInv, FunctionInv
  <1>4. ~Complete(f)
    BY <1>1, <1>2, VisitedFunction
  <1>5. /\ ToSet(code'[f]) = ToSet(code[f]) \cup ToSet(ps)
        /\ \A g \in Function : g # f => code'[g] = code[g]
    BY <1>1, <1>2, EmitAdds
  <1>6. split' = split /\ read' = read /\ mod' = mod /\ region' = region
    BY <1>1 DEF flags
  <1>7. PICK n \in Nat : n = Len(body[f]) /\ DOMAIN body[f] = 1 .. n
    BY <1>3, LenProperties DEF BodyInv
  <1>8. /\ body'[f] = Append(body[f], i) /\ i \in Instruction[f] /\ body[f] \in Seq(Instruction[f])
        /\ \A g \in Function : g # f => body'[g] = body[g]
    BY <1>1, <1>2, <1>3 DEF TypeInv, BodyInv
  <1>9. /\ Len(body'[f]) = n + 1 /\ DOMAIN body'[f] = 1 .. n + 1
        /\ body'[f][n + 1] = i /\ \A k \in 1 .. n : body'[f][k] = body[f][k]
    <2>1. PICK s, t : s = body[f] /\ t = Append(s, i)
      OBVIOUS
    <2>2. s \in Seq(Instruction[f]) /\ i \in Instruction[f] /\ Len(s) = n /\ body'[f] = t
      BY <1>7, <1>8, <2>1
    <2>3. /\ Append(s, i) \in Seq(Instruction[f]) /\ Len(Append(s, i)) = Len(s) + 1
          /\ \A k \in 1 .. Len(s) : Append(s, i)[k] = s[k]
          /\ Append(s, i)[Len(s) + 1] = i
      BY <2>2, AppendProperties
    <2>4. t \in Seq(Instruction[f]) /\ Len(t) = n + 1 /\ \A k \in 1 .. n : t[k] = s[k]
      BY <2>1, <2>2, <2>3
    <2>5. t[n + 1] = i
      BY <2>1, <2>2, <2>3
    <2>6. DOMAIN t = 1 .. n + 1
      BY <2>4, LenProperties
    <2> QED
      BY <2>1, <2>2, <2>4, <2>5, <2>6
  <1>10. Here = n + 1
    BY <1>2, <1>7 DEF Here
  <1>11. /\ \A p \in ToSet(code[f]) : Made(body[f], p, read, mod)
         /\ InPlace(code[f]) /\ (split => \A k \in 1 .. n : body[f][k].bytes = 1)
         /\ RegionOK(region[f], n)
    BY <1>3, <1>7 DEF MadeInv
  <1>12. \A p \in ToSet(code[f]) : p \in PseudoOps /\ p.at \in Nat /\ p.at <= n /\ p.op \notin LateOps
    <2> SUFFICES ASSUME NEW p \in ToSet(code[f])
                 PROVE  p \in PseudoOps /\ p.at \in Nat /\ p.at <= n /\ p.op \notin LateOps
      OBVIOUS
    <2>1. p \in PseudoOps /\ p.at <= n /\ p.op \notin LateOps
      BY <1>3, <1>4, <1>7, ElementsFinite DEF CodeInv
    <2> QED
      BY <2>1 DEF PseudoOps
  <1>13. \A p \in ToSet(code'[f]) : Made(body'[f], p, read, mod)
    <2>1. ASSUME NEW p \in ToSet(code[f]) PROVE Made(body'[f], p, read, mod)
      <3>1. PICK b, c : b = body[f] /\ c = body'[f]
        OBVIOUS
      <3>2. Made(b, p, read, mod) /\ p.op \notin LateOps
        BY <1>11, <1>12, <3>1
      <3>3. /\ DOMAIN b = 1 .. n /\ Len(b) = n /\ DOMAIN c = 1 .. n + 1
            /\ \A k \in 1 .. n : c[k] = b[k]
        BY <1>7, <1>9, <3>1
      <3>4. Made(c, p, read, mod)
        BY <3>2, <3>3, MadeLonger
      <3> QED
        BY <3>1, <3>4
    <2>2. ASSUME NEW p \in ToSet(ps) PROVE Made(body'[f], p, read, mod)
      <3>1. p.at = n + 1 /\ OfInstruction(i, p, read, mod)
        BY <1>10
      <3>2. p.at \in DOMAIN body'[f] /\ body'[f][p.at] = i
        BY <1>9, <3>1
      <3> QED
        BY <3>1, <3>2 DEF Made
    <2> QED
      BY <1>5, <2>1, <2>2
  <1>14. InPlace(code'[f])
    <2>1. code'[f] = code[f] \o ps /\ code[f] \in Seq(PseudoOps)
      BY <1>1, <1>2, <1>3 DEF Emit, TypeInv, CodeInv
    <2>2. \A p \in ToSet(code[f]), q \in ToSet(ps) : Before(p, q)
      <3> SUFFICES ASSUME NEW p \in ToSet(code[f]), NEW q \in ToSet(ps) PROVE Before(p, q)
        OBVIOUS
      <3>1. p.at \in Nat /\ p.at <= n /\ q.at = n + 1
        BY <1>10, <1>12
      <3> QED
        BY <3>1 DEF Before
    <2>3. InPlace(code[f] \o ps)
      BY <1>11, <2>1, <2>2, InPlaceConcat
    <2> QED
      BY <2>1, <2>3
  <1>15. split => \A k \in 1 .. n + 1 : body'[f][k].bytes = 1
    <2> SUFFICES ASSUME split, NEW k \in 1 .. n + 1 PROVE body'[f][k].bytes = 1
      OBVIOUS
    <2>1. k \in 1 .. n \/ k = n + 1
      OBVIOUS
    <2> QED
      BY <1>1, <1>9, <1>11, <2>1
  <1>16. RegionOK(region[f], n + 1)
    BY <1>11 DEF RegionOK
  <1>17. ASSUME NEW g \in Function
         PROVE  /\ \A p \in ToSet(code'[g]) : Made(body'[g], p, read, mod)
                /\ InPlace(code'[g])
                /\ split => \A k \in DOMAIN body'[g] : body'[g][k].bytes = 1
                /\ RegionOK(region[g], Len(body'[g]))
    <2>1. CASE g = f
      BY <1>9, <1>13, <1>14, <1>15, <1>16, <2>1
    <2>2. CASE g # f
      BY <1>5, <1>8, <2>2 DEF MadeInv
    <2> QED
      BY <2>1, <2>2
  <1>18. \E x \in Flags : read = x.read /\ mod = x.mod
    BY DEF MadeInv
  <1> QED
    BY <1>6, <1>17, <1>18 DEF MadeInv

\* An instruction that gets pseudo-instructions of accesses.
LEMMA AccessesMade ==
    ASSUME ShadowInv, MadeInv, NEW i \in Instruction[fn], NEW reads, NEW writes,
           NEW ps \in Seq(PseudoOps), InPlace(ps),
           \A p \in ToSet(ps) : Accessing(p) /\ OfAccess(i, p, read, mod),
           Visit(i, reads, writes, ps)
    PROVE  MadeInv'
  <1>1. <<>> \in Seq(Node \X Nat) /\ ToSet(<<>>) \subseteq Variables
    BY DEF ToSet
  <1>2. \A p \in ToSet(ps) : /\ p.var \in Variables /\ p.at = Here
                             /\ OfInstruction(i, p, read, mod)
    BY DEF Accessing, OfInstruction
  <1>3. VisitTouching(i, reads, writes, ps, <<>>)
    BY DEF Visit
  <1> QED
    BY <1>1, <1>2, <1>3, VisitMade

LEMMA NoAccessMade ==
    ASSUME ShadowInv, MadeInv, NEW i \in Instruction[fn], NEW reads, NEW writes,
           Visit(i, reads, writes, <<>>)
    PROVE  MadeInv'
  <1>1. <<>> \in Seq(PseudoOps) /\ ToSet(<<>>) = {}
    BY DEF ToSet
  <1>2. InPlace(<<>>)
    BY DEF InPlace
  <1> QED
    BY <1>1, <1>2, AccessesMade

\* The pseudo-instruction of an access is one of the instruction, if its node is marked.
LEMMA AccessMade ==
    ASSUME ShadowInv, NEW i \in Instruction[fn], i.op # "call",
           NEW v \in {i.ptr, i.src}, Cell[fn][v] # NoCell, NEW op \in AccessOps,
           op = "store" => Cell[fn][v].node \in mod \/ i.op \in Updates,
           op # "store" => Cell[fn][v].node \in read \/ i.op \in Queries
    PROVE  LET p == Pseudo(op, Accessed(v), Here, v, i.bytes)
           IN  /\ Accessing(p) /\ OfAccess(i, p, read, mod)
               /\ p \in PseudoOps /\ p.at = Here /\ p.op = op
  <1>1. PICK p, x, h : p = Pseudo(op, x, h, v, i.bytes) /\ x = Accessed(v) /\ h = Here
    OBVIOUS
  <1>2. op \in {"load", "store", "trsfr_load"}
    BY DEF AccessOps
  <1>3. Accessing(p)
    BY <1>1, <1>2, PseudoAccess
  <1>4. p.op = op /\ p.var = x /\ p.ptr = v /\ p.bytes = i.bytes
    BY <1>1 DEF Pseudo
  <1>5. x[1] = Cell[fn][v].node
    BY <1>1 DEF Accessed, ShadowOf
  <1>6. OfAccess(i, p, read, mod)
    BY <1>4, <1>5 DEF OfAccess
  <1>7. p \in PseudoOps /\ p.at = Here
    BY <1>3 DEF Accessing
  <1> QED
    BY <1>1, <1>3, <1>4, <1>6, <1>7

LEMMA OneAccessMade ==
    ASSUME ShadowInv, MadeInv, NEW i \in Instruction[fn], i.op # "call",
           NEW reads, NEW writes, Cell[fn][i.ptr] # NoCell, NEW op \in {"load", "store"},
           op = "store" => Cell[fn][i.ptr].node \in mod \/ i.op \in Updates,
           op # "store" => Cell[fn][i.ptr].node \in read \/ i.op \in Queries,
           Visit(i, reads, writes, <<Pseudo(op, Accessed(i.ptr), Here, i.ptr, i.bytes)>>)
    PROVE  MadeInv'
  <1>1. PICK p : p = Pseudo(op, Accessed(i.ptr), Here, i.ptr, i.bytes)
    OBVIOUS
  <1>2. Accessing(p) /\ OfAccess(i, p, read, mod) /\ p \in PseudoOps
    <2>1. op \in AccessOps
      BY DEF AccessOps
    <2> QED
      BY <1>1, <2>1, AccessMade
  <1>3. <<p>> \in Seq(PseudoOps) /\ ToSet(<<p>>) = {p}
    BY <1>2 DEF ToSet
  <1>4. InPlace(<<p>>)
    BY DEF InPlace
  <1>5. Visit(i, reads, writes, <<p>>)
    BY <1>1
  <1> QED
    BY <1>2, <1>3, <1>4, <1>5, AccessesMade

\* What a visit requires the analysis to have marked.
LEMMA VisitMarks ==
    ASSUME NEW i, NEW reads, NEW writes, NEW ps, Visit(i, reads, writes, ps)
    PROVE  reads \subseteq read /\ writes \subseteq mod
  BY DEF Visit, VisitTouching

LEMMA InstructionsMade ==
    ASSUME ShadowInv, MadeInv, NEW i \in Instruction[fn],
           \/ VisitLoadInst(i) \/ VisitStoreInst(i) \/ VisitAllocation(i)
           \/ VisitCalloc(i) \/ VisitMemSetInst(i)
           \/ VisitMemhavoc(i) \/ VisitShadowQuery(i) \/ VisitGetShadowMem(i)
           \/ VisitShadowUpdate(i) \/ VisitFree(i)
    PROVE  MadeInv'
  <1>0. PICK n : n = Cell[fn][i.ptr].node
    OBVIOUS
  <1>1. CASE VisitLoadInst(i)
    <2>1. i.op # "call"
      BY <1>1 DEF VisitLoadInst
    <2>2. CASE Cell[fn][i.ptr] = NoCell
      <3>1. Visit(i, {}, {}, <<>>)
        BY <1>1, <2>2 DEF VisitLoadInst
      <3> QED
        BY <3>1, NoAccessMade
    <2>3. CASE Cell[fn][i.ptr] # NoCell
      <3>1. Visit(i, {Cell[fn][i.ptr].node}, {},
                  <<Pseudo("load", Accessed(i.ptr), Here, i.ptr, i.bytes)>>)
        BY <1>1, <2>3 DEF VisitLoadInst
      <3>2. Cell[fn][i.ptr].node \in read
        BY <3>1, VisitMarks
      <3> QED
        BY <2>1, <2>3, <3>1, <3>2, OneAccessMade
    <2> QED
      BY <2>2, <2>3
  <1>2. CASE VisitStoreInst(i)
    <2>1. i.op # "call"
      BY <1>2 DEF VisitStoreInst
    <2>2. CASE Cell[fn][i.ptr] = NoCell
      <3>1. Visit(i, {}, {}, <<>>)
        BY <1>2, <2>2 DEF VisitStoreInst
      <3> QED
        BY <3>1, NoAccessMade
    <2>3. CASE Cell[fn][i.ptr] # NoCell
      <3>1. Visit(i, {}, {Cell[fn][i.ptr].node},
                  <<Pseudo("store", Accessed(i.ptr), Here, i.ptr, i.bytes)>>)
        BY <1>2, <2>3 DEF VisitStoreInst
      <3>2. Cell[fn][i.ptr].node \in mod
        BY <3>1, VisitMarks
      <3> QED
        BY <2>1, <2>3, <3>1, <3>2, OneAccessMade
    <2> QED
      BY <2>2, <2>3
  <1>3. CASE VisitAllocation(i)
    <2>1. i.op = "alloc" /\ i.op # "call" /\ Cell[fn][i.ptr] # NoCell
      BY <1>3 DEF VisitAllocation
    <2>2. PICK op : op = IF AllocIsDef THEN "store" ELSE "load"
      OBVIOUS
    <2>3. op \in {"load", "store"}
      BY <2>2
    <2>4. (op = "store" => i.op \in Updates) /\ (op # "store" => i.op \in Queries)
      BY <2>1, <2>2 DEF Updates, Queries
    <2>5. Visit(i, {}, {}, <<Pseudo(op, Accessed(i.ptr), Here, i.ptr, i.bytes)>>)
      BY <1>3, <2>2 DEF VisitAllocation
    <2> QED
      BY <2>1, <2>3, <2>4, <2>5, OneAccessMade
  <1>4. CASE VisitCalloc(i)
    <2>1. i.op # "call" /\ Cell[fn][i.ptr] # NoCell
      BY <1>4 DEF VisitCalloc
    <2>2. CASE Offset(Cell[fn][i.ptr]) # 0
      <3>1. Visit(i, {}, {Cell[fn][i.ptr].node}, <<>>)
        BY <1>4, <2>2 DEF VisitCalloc
      <3> QED
        BY <3>1, NoAccessMade
    <2>3. CASE Offset(Cell[fn][i.ptr]) = 0
      <3>1. Visit(i, {}, {Cell[fn][i.ptr].node},
                  <<Pseudo("store", Accessed(i.ptr), Here, i.ptr, i.bytes)>>)
        BY <1>4, <2>3 DEF VisitCalloc
      <3>2. Cell[fn][i.ptr].node \in mod
        BY <3>1, VisitMarks
      <3> QED
        BY <2>1, <3>1, <3>2, OneAccessMade
    <2> QED
      BY <2>2, <2>3
  <1>5. CASE VisitMemSetInst(i)
    <2>1. /\ i.op # "call" /\ Cell[fn][i.ptr] # NoCell
          /\ Visit(i, {}, {Cell[fn][i.ptr].node},
                   <<Pseudo("store", Accessed(i.ptr), Here, i.ptr, i.bytes)>>)
      BY <1>5 DEF VisitMemSetInst
    <2>2. Cell[fn][i.ptr].node \in mod
      BY <2>1, VisitMarks
    <2> QED
      BY <2>1, <2>2, OneAccessMade
  <1>6. CASE VisitMemhavoc(i) \/ VisitShadowQuery(i) \/ VisitGetShadowMem(i)
    <2>1. i.op \in Queries /\ i.op # "call" /\ Cell[fn][i.ptr] # NoCell /\ Query(i)
      BY <1>6 DEF VisitMemhavoc, VisitShadowQuery, VisitGetShadowMem, Queries
    <2>2. Visit(i, {}, {}, <<Pseudo("load", Accessed(i.ptr), Here, i.ptr, i.bytes)>>)
      BY <2>1 DEF Query
    <2> QED
      BY <2>1, <2>2, OneAccessMade
  <1>7. CASE VisitShadowUpdate(i) \/ VisitFree(i)
    <2>1. i.op \in Updates /\ i.op # "call" /\ Cell[fn][i.ptr] # NoCell /\ Update(i)
      BY <1>7 DEF VisitShadowUpdate, VisitFree, Updates
    <2>2. Visit(i, {}, {}, <<Pseudo("store", Accessed(i.ptr), Here, i.ptr, i.bytes)>>)
      BY <2>1 DEF Update
    <2> QED
      BY <2>1, <2>2, OneAccessMade
  <1> QED
    BY <1>1, <1>2, <1>3, <1>4, <1>5, <1>6, <1>7

\* A transfer reads before it writes.
LEMMA TransferMade ==
    ASSUME ShadowInv, MadeInv, NEW i \in Instruction[fn], VisitMemTransferInst(i)
    PROVE  MadeInv'
  <1>1. i.op # "call" /\ Cell[fn][i.ptr] # NoCell /\ Cell[fn][i.src] # NoCell
    BY DEF VisitMemTransferInst
  <1>2. PICK p, q : /\ p = Pseudo("trsfr_load", Accessed(i.src), Here, i.src, i.bytes)
                    /\ q = Pseudo("store", Accessed(i.ptr), Here, i.ptr, i.bytes)
    OBVIOUS
  <1>3. Visit(i, {Cell[fn][i.src].node}, {Cell[fn][i.ptr].node}, <<p, q>>)
    BY <1>2 DEF VisitMemTransferInst
  <1>4. Cell[fn][i.src].node \in read /\ Cell[fn][i.ptr].node \in mod
    BY <1>3, VisitMarks
  <1>5. /\ Accessing(p) /\ OfAccess(i, p, read, mod) /\ p \in PseudoOps
        /\ p.at = Here /\ p.op = "trsfr_load"
    <2>1. "trsfr_load" \in AccessOps
      BY DEF AccessOps
    <2> QED
      BY <1>1, <1>2, <1>4, <2>1, AccessMade
  <1>6. Accessing(q) /\ OfAccess(i, q, read, mod) /\ q \in PseudoOps /\ q.at = Here
    <2>1. "store" \in AccessOps
      BY DEF AccessOps
    <2> QED
      BY <1>1, <1>2, <1>4, <2>1, AccessMade
  <1>7. PICK ps : ps = <<p, q>>
    OBVIOUS
  <1>8. ps \in Seq(PseudoOps) /\ \A x \in ToSet(ps) : x = p \/ x = q
    BY <1>5, <1>6, <1>7 DEF ToSet
  <1>9. InPlace(ps)
    <2>1. \A k, l \in DOMAIN ps : k < l => ps[k] = p /\ ps[l] = q
      BY <1>7
    <2>2. Here \in Nat
      BY HereNat
    <2>3. Before(p, q)
      BY <1>5, <1>6, <2>2 DEF Before
    <2> QED
      BY <2>1, <2>3 DEF InPlace
  <1> QED
    BY <1>3, <1>5, <1>6, <1>7, <1>8, <1>9, AccessesMade

LEMMA CallMade ==
    ASSUME ShadowInv, MadeInv, NEW i \in Instruction[fn], VisitDsaCallSite(i)
    PROVE  MadeInv'
  <1>1. i.op = "call"
    BY CallPseudos
  <1>2. PICK reads, writes, ps, touched :
          /\ ps \in Seq(PseudoOps) /\ touched \in Seq(Node \X Nat)
          /\ VisitTouching(i, reads, writes, ps, touched)
          /\ ToSet(touched) \subseteq Variables
          /\ \A p \in ToSet(ps) : /\ p.var \in Variables /\ p.at = Here /\ p.op \in CallOps
                                  /\ p.op \notin LateOps /\ p.ptr = NoValue
          /\ CallSays(i.callee, ToSet(ps), Here)
    BY CallPseudos
  <1>3. \A p \in ToSet(ps) : /\ p.var \in Variables /\ p.at = Here
                             /\ OfInstruction(i, p, read, mod)
    BY <1>1, <1>2 DEF OfInstruction, OfCall
  <1>4. InPlace(ps)
    <2>1. PICK h \in Nat : h = Here
      BY HereNat
    <2>2. \A p \in ToSet(ps) : p.at = h /\ p.op # "store"
      BY <1>2, <2>1 DEF CallOps
    <2> QED
      BY <1>2, <2>2, InPlaceTogether
  <1> QED
    BY <1>2, <1>3, <1>4, VisitMade

\* Definitions for globals come before all others.
LEMMA BeginMade ==
    ASSUME ShadowInv, MadeInv, BeginFunction
    PROVE  MadeInv'
  <1>1. PICK ps : ps = IF fn = Main THEN GlobalInits ELSE <<>>
    OBVIOUS
  <1>2. /\ phase = "begin" /\ Emit(ps, <<>>) /\ UNCHANGED <<flags, body, region>>
    BY <1>1 DEF BeginFunction
  <1>3. /\ ps \in Seq(PseudoOps)
        /\ \A p \in ToSet(ps) : p.at = 0 /\ p.op = "global_init"
    <2>1. CASE fn = Main
      BY <1>1, <2>1, GlobalInitsSay
    <2>2. CASE fn # Main
      BY <1>1, <2>2 DEF ToSet
    <2> QED
      BY <2>1, <2>2
  <1>4. PICK f : f = fn
    OBVIOUS
  <1>5. f \in Function /\ BodyInv(f) /\ CodeInv(f) /\ TypeInv
    BY <1>4 DEF ShadowInv, OrderInv, FunctionInv
  <1>6. code[f] = <<>>
    <2>1. ~Complete(f) /\ ~Visiting(f)
      BY <1>2, <1>4, VisitedFunction DEF Visiting
    <2> QED
      BY <1>5, <2>1 DEF BodyInv
  <1>7. code'[f] = ps /\ \A g \in Function : g # f => code'[g] = code[g]
    <2>1. code' = [code EXCEPT ![f] = @ \o ps]
      BY <1>2, <1>4 DEF Emit
    <2>2. <<>> \o ps = ps
      BY <1>3
    <2> QED
      BY <1>5, <1>6, <2>1, <2>2 DEF TypeInv
  <1>8. split' = split /\ read' = read /\ mod' = mod /\ region' = region /\ body' = body
    BY <1>2 DEF flags
  <1>9. InPlace(ps)
    <2>1. 0 \in Nat /\ \A p \in ToSet(ps) : p.at = 0 /\ p.op # "store"
      BY <1>3
    <2> QED
      BY <1>3, <2>1, InPlaceTogether
  <1>10. \A p \in ToSet(ps) : Made(body[f], p, read, mod)
    BY <1>3 DEF Made, Initial
  <1>11. ASSUME NEW g \in Function
         PROVE  /\ \A p \in ToSet(code'[g]) : Made(body[g], p, read, mod)
                /\ InPlace(code'[g])
                /\ split => \A k \in DOMAIN body[g] : body[g][k].bytes = 1
                /\ RegionOK(region[g], Len(body[g]))
    <2>1. CASE g = f
      BY <1>7, <1>9, <1>10, <2>1 DEF MadeInv
    <2>2. CASE g # f
      BY <1>7, <2>2 DEF MadeInv
    <2> QED
      BY <2>1, <2>2
  <1>12. \E x \in Flags : read = x.read /\ mod = x.mod
    BY DEF MadeInv
  <1> QED
    BY <1>8, <1>11, <1>12 DEF MadeInv

\* Initial values come first, and markers last.
LEMMA EndVisitMade ==
    ASSUME ShadowInv, MadeInv, EndVisit
    PROVE  MadeInv'
  <1>1. PICK f : f = fn
    OBVIOUS
  <1>2. f \in Function /\ BodyInv(f) /\ CodeInv(f) /\ TypeInv
    BY <1>1 DEF ShadowInv, OrderInv, FunctionInv
  <1>3. PICK n \in Nat : n = Len(body[f]) /\ DOMAIN body[f] = 1 .. n
    BY <1>2, LenProperties DEF BodyInv
  <1>4. PICK r \in Regions(n) : region' = [region EXCEPT ![f] = r]
    BY <1>1, <1>2, <1>3, EndVisitSays, ZenonT(30)
  <1>5. /\ phase = "visit" /\ code' = [code EXCEPT ![f] = CodeAtEnd(f)]
        /\ UNCHANGED <<flags, body>>
    BY <1>1, <1>2, <1>3, EndVisitSays
  <1>6. PICK inits, old, marks, cs : /\ inits = InitOps(f, UsedAtEnd(f)) /\ old = code[f]
                                     /\ marks = MarksAtEnd(f) /\ cs = CodeAtEnd(f)
    OBVIOUS
  <1>7. cs = (inits \o old) \o marks
    BY <1>6 DEF CodeAtEnd
  <1>8. /\ inits \in Seq(PseudoOps)
        /\ \A p \in ToSet(inits) : p.at = 0 /\ p.op \in {"init", "arg_init"} /\ p.ptr = NoValue
    <2>1. UsedAtEnd(f) \in SUBSET Variables /\ IsFiniteSet(UsedAtEnd(f))
      <3>1. Interface(f) \in Seq(Node \X Nat) /\ ToSet(Interface(f)) = FieldsOf(f)
        BY <1>2, InterfaceLists
      <3>2. IsFiniteSet(FieldsOf(f))
        BY <3>1, ElementsFinite
      <3>3. FieldsOf(f) \subseteq Variables
        <4>1. \A k \in DOMAIN Interface(f) : Interface(f)[k] \in Variables
          BY <1>2, InterfaceLists
        <4> QED
          BY <3>1, <4>1 DEF ToSet
      <3> QED
        BY <1>2, <3>2, <3>3, FS_Union DEF TypeInv, UsedAtEnd
    <2> QED
      BY <1>6, <2>1, InitOpsSay
  <1>9. /\ marks \in Seq(PseudoOps)
        /\ \A p \in ToSet(marks) : p.at = n + 1 /\ p.ptr = NoValue /\ p.op \in {"in", "out"}
    <2>1. n + 1 \in Nat /\ n + 1 = Len(body[f]) + 1
      BY <1>3
    <2>2. CASE f \in Returns
      BY <1>2, <1>6, <2>1, <2>2, MarksSay DEF MarksAtEnd
    <2>3. CASE f \notin Returns
      BY <1>6, <2>3 DEF ToSet, MarksAtEnd
    <2> QED
      BY <2>2, <2>3
  <1>10. /\ old \in Seq(PseudoOps)
         /\ \A p \in ToSet(old) : p.at \in Nat /\ p.at <= n
    <2>1. old \in Seq(PseudoOps) /\ ToSet(old) \subseteq PseudoOps
      BY <1>2, <1>6, ElementsFinite DEF CodeInv
    <2>2. ~Complete(f)
      BY <1>1, <1>5, VisitedFunction
    <2>3. \A p \in ToSet(old) : p.at <= n
      BY <1>2, <1>3, <1>6, <2>2 DEF CodeInv
    <2> QED
      BY <2>1, <2>3 DEF PseudoOps
  <1>11. /\ \A p \in ToSet(old) : Made(body[f], p, read, mod)
         /\ InPlace(old) /\ (split => \A k \in 1 .. n : body[f][k].bytes = 1)
    BY <1>2, <1>3, <1>6 DEF MadeInv
  <1>12. PICK a : a = inits \o old
    OBVIOUS
  <1>13. a \in Seq(PseudoOps) /\ ToSet(a) = ToSet(inits) \cup ToSet(old)
    BY <1>8, <1>10, <1>12, ConcatProperties, ConcatElements
  <1>14. ToSet(cs) = ToSet(inits) \cup ToSet(old) \cup ToSet(marks)
    <2>1. ToSet(a \o marks) = ToSet(a) \cup ToSet(marks)
      BY <1>9, <1>13, ConcatElements
    <2> QED
      BY <1>7, <1>12, <1>13, <2>1
  <1>15. \A p \in ToSet(cs) : Made(body[f], p, read, mod)
    <2>1. \A p \in ToSet(inits) : Made(body[f], p, read, mod)
      BY <1>8 DEF Made, Initial
    <2>2. \A p \in ToSet(marks) : Made(body[f], p, read, mod)
      BY <1>3, <1>9 DEF Made, Marker
    <2> QED
      BY <1>11, <1>14, <2>1, <2>2
  <1>16. InPlace(cs)
    <2>1. InPlace(inits)
      <3>1. 0 \in Nat /\ \A p \in ToSet(inits) : p.at = 0 /\ p.op # "store"
        BY <1>8
      <3> QED
        BY <1>8, <3>1, InPlaceTogether
    <2>2. InPlace(marks)
      <3>1. n + 1 \in Nat /\ \A p \in ToSet(marks) : p.at = n + 1 /\ p.op # "store"
        BY <1>9
      <3> QED
        BY <1>9, <3>1, InPlaceTogether
    <2>3. \A p \in ToSet(inits), q \in ToSet(old) : Before(p, q)
      <3> SUFFICES ASSUME NEW p \in ToSet(inits), NEW q \in ToSet(old) PROVE Before(p, q)
        OBVIOUS
      <3>1. p.at = 0 /\ p.op # "store" /\ q.at \in Nat
        BY <1>8, <1>10
      <3> QED
        BY <3>1 DEF Before
    <2>4. InPlace(a)
      BY <1>8, <1>10, <1>11, <1>12, <2>1, <2>3, InPlaceConcat
    <2>5. \A p \in ToSet(a), q \in ToSet(marks) : Before(p, q)
      <3> SUFFICES ASSUME NEW p \in ToSet(a), NEW q \in ToSet(marks) PROVE Before(p, q)
        OBVIOUS
      <3>1. p.at \in Nat /\ p.at <= n /\ q.at = n + 1
        BY <1>8, <1>9, <1>10, <1>13
      <3> QED
        BY <3>1 DEF Before
    <2>6. InPlace(a \o marks)
      BY <1>9, <1>13, <2>2, <2>4, <2>5, InPlaceConcat
    <2> QED
      BY <1>7, <1>12, <2>6
  <1>17. RegionOK(r, n)
    BY <1>4 DEF Regions, RegionOK
  <1>18. /\ split' = split /\ read' = read /\ mod' = mod /\ body' = body
         /\ code'[f] = cs /\ region'[f] = r
         /\ \A g \in Function : g # f => code'[g] = code[g] /\ region'[g] = region[g]
    BY <1>2, <1>4, <1>5, <1>6 DEF flags, TypeInv
  <1>19. ASSUME NEW g \in Function
         PROVE  /\ \A p \in ToSet(code'[g]) : Made(body[g], p, read, mod)
                /\ InPlace(code'[g])
                /\ split => \A k \in DOMAIN body[g] : body[g][k].bytes = 1
                /\ RegionOK(region'[g], Len(body[g]))
    <2>1. CASE g = f
      BY <1>3, <1>11, <1>15, <1>16, <1>17, <1>18, <2>1
    <2>2. CASE g # f
      BY <1>18, <2>2 DEF MadeInv
    <2> QED
      BY <2>1, <2>2
  <1>20. \E x \in Flags : read = x.read /\ mod = x.mod
    BY DEF MadeInv
  <1> QED
    BY <1>18, <1>19, <1>20 DEF MadeInv

\* What the visit leaves is made of the instructions it has seen, in their order.
LEMMA MadeNext ==
    ASSUME ShadowInv, MadeInv, [Next]_vars
    PROVE  MadeInv'
  <1>1. CASE BeginFunction
    BY <1>1, BeginMade
  <1>2. ASSUME NEW i \in Instruction[fn],
               \/ VisitLoadInst(i) \/ VisitStoreInst(i) \/ VisitAllocation(i)
               \/ VisitCalloc(i) \/ VisitMemSetInst(i) \/ VisitMemTransferInst(i)
               \/ VisitMemhavoc(i) \/ VisitShadowQuery(i) \/ VisitGetShadowMem(i)
               \/ VisitShadowUpdate(i) \/ VisitFree(i) \/ VisitDsaCallSite(i)
        PROVE  MadeInv'
    BY <1>2, InstructionsMade, TransferMade, CallMade
  <1>3. CASE EndVisit
    BY <1>3, EndVisitMade
  <1>4. CASE UNCHANGED <<flags, body, code, region>>
    <2>1. split' = split /\ read' = read /\ mod' = mod /\ body' = body /\ code' = code
          /\ region' = region
      BY <1>4 DEF flags
    <2> QED
      BY <2>1 DEF MadeInv
  <1>5. SkipDef \/ StopWalk \/ EndFunction \/ UNCHANGED vars => UNCHANGED <<flags, body, code, region>>
    BY DEF SkipDef, StopWalk, EndFunction, vars, flags
  <1> QED
    BY <1>1, <1>2, <1>3, <1>4, <1>5 DEF Next

LEMMA MadeInit ==
    ASSUME Init
    PROVE  MadeInv
  <1>1. \E x \in Flags : read = x.read /\ mod = x.mod
    BY DEF Init
  <1>2. /\ body = [f \in Function |-> <<>>] /\ code = [f \in Function |-> <<>>]
        /\ region = [f \in Function |-> [kind |-> "none", from |-> 1, to |-> 0]]
    BY DEF Init
  <1>3. ASSUME NEW f \in Function
        PROVE  /\ \A p \in ToSet(code[f]) : Made(body[f], p, read, mod)
               /\ InPlace(code[f])
               /\ split => \A i \in DOMAIN body[f] : body[f][i].bytes = 1
               /\ RegionOK(region[f], Len(body[f]))
    <2>1. code[f] = <<>> /\ body[f] = <<>> /\ ToSet(code[f]) = {}
      BY <1>2 DEF ToSet
    <2>2. InPlace(<<>>)
      BY DEF InPlace
    <2>3. RegionOK(region[f], Len(body[f]))
      BY <1>2 DEF RegionOK
    <2> QED
      BY <2>1, <2>2, <2>3
  <1> QED
    BY <1>1, <1>3 DEF MadeInv


-----------------------------------------------------------------------------
(* Bytes that two pseudo-instructions access belong to one variable        *)

\* The instruction and the pointer of an access.
LEMMA AccessSays ==
    ASSUME ShadowInv, MadeInv, NEW f \in Function, NEW j \in DOMAIN code[f], NEW p,
           p = code[f][j], p.op \in AccessOps
    PROVE  /\ p.at \in DOMAIN body[f] /\ body[f][p.at] \in Instruction[f]
           /\ OfAccess(body[f][p.at], p, read, mod) /\ p.bytes \in Nat
           /\ p.ptr \in Pointers(f) /\ p.var = ShadowOf(Cell[f][p.ptr])
           /\ IsCell(Cell[f][p.ptr])
  <1>1. p \in ToSet(code[f]) /\ BodyInv(f) /\ CodeInv(f)
    BY DEF ToSet, ShadowInv, FunctionInv
  <1>2. Made(body[f], p, read, mod) /\ Placed(f, p)
    BY <1>1 DEF MadeInv, CodeInv
  <1>3. p.op \notin CallOps /\ ~Initial(p) /\ \A end : ~Marker(p, end)
    BY DEF AccessOps, CallOps, Initial, Marker
  <1>4. p.at \in DOMAIN body[f] /\ OfAccess(body[f][p.at], p, read, mod)
    BY <1>2, <1>3 DEF Made, OfInstruction, OfCall
  <1>5. body[f][p.at] \in Instruction[f]
    BY <1>1, <1>4 DEF BodyInv
  <1>6. PICK i : i = body[f][p.at]
    OBVIOUS
  <1>7. i \in Instruction[f] /\ i.op # "call" /\ p.ptr \in {i.ptr, i.src} /\ p.bytes = i.bytes
    BY <1>4, <1>5, <1>6 DEF OfAccess
  <1>8. {i.ptr, i.src} \subseteq Value /\ i.bytes \in Nat
        /\ \A v \in {i.ptr, i.src} : Cell[f][v] # NoCell => IsCell(Cell[f][v])
    BY <1>7, InstructionAssumption
  <1>9. p.ptr \in Value /\ p.ptr # NoValue
    BY <1>7, <1>8, ValueAssumption
  <1>10. Cell[f][p.ptr] # NoCell /\ p.var = ShadowOf(Cell[f][p.ptr])
    BY <1>2, <1>9 DEF Placed
  <1>11. p.ptr \in Pointers(f)
    BY <1>7, <1>9, <1>10 DEF Pointers
  <1> QED
    BY <1>4, <1>5, <1>7, <1>8, <1>10, <1>11

\* The instruction and the field of what stands for accesses of a callee.
LEMMA CallOfOp ==
    ASSUME ShadowInv, MadeInv, NEW f \in Function, NEW j \in DOMAIN code[f], NEW p,
           p = code[f][j], p.op \in CallOps
    PROVE  /\ p.at \in DOMAIN body[f] /\ body[f][p.at] \in Instruction[f]
           /\ body[f][p.at].op = "call" /\ p.ptr = NoValue
           /\ body[f][p.at].callee \in Function
           /\ p.idx \in DOMAIN Interface(body[f][p.at].callee)
           /\ p.var = ShadowOf(InCaller(Interface(body[f][p.at].callee)[p.idx]))
  <1>1. p \in ToSet(code[f]) /\ BodyInv(f) /\ CallsInv(f)
    BY DEF ToSet, ShadowInv, FunctionInv
  <1>2. Made(body[f], p, read, mod)
    BY <1>1 DEF MadeInv
  <1>3. p.op \notin AccessOps /\ ~Initial(p) /\ \A end : ~Marker(p, end)
    BY DEF AccessOps, CallOps, Initial, Marker
  <1>4. p.at \in DOMAIN body[f] /\ OfCall(body[f][p.at], p)
    BY <1>2, <1>3 DEF Made, OfInstruction, OfAccess
  <1>5. body[f][p.at] \in Instruction[f]
    BY <1>1, <1>4 DEF BodyInv
  <1>6. PICK g : g = body[f][p.at].callee
    OBVIOUS
  <1>7. body[f][p.at].op = "call" /\ p.ptr = NoValue
    BY <1>4 DEF OfCall
  <1>8. g \in Function /\ CallSays(g, ToSet(code[f]), p.at)
    BY <1>1, <1>4, <1>6, <1>7 DEF CallsInv
  <1>9. \/ p.op \in {"arg_ref", "arg_mod"} /\ <<p.idx, p.var>> \in Says(ToSet(code[f]), p.at, {"arg_ref", "arg_mod"})
        \/ p.op \in {"arg_mod", "arg_new"} /\ <<p.idx, p.var>> \in Says(ToSet(code[f]), p.at, {"arg_mod", "arg_new"})
    BY <1>1 DEF Says, CallOps
  <1>10. \E K \in SUBSET DOMAIN Interface(g) : <<p.idx, p.var>> \in Passed(g, K)
    <2>1. Received(g) \in SUBSET DOMAIN Interface(g) /\ Changed(g) \in SUBSET DOMAIN Interface(g)
      BY DEF Received, Changed
    <2> QED
      BY <1>8, <1>9, <2>1 DEF CallSays
  <1>11. p.idx \in DOMAIN Interface(g) /\ p.var = ShadowOf(InCaller(Interface(g)[p.idx]))
    BY <1>10 DEF Passed
  <1> QED
    BY <1>4, <1>5, <1>6, <1>7, <1>8, <1>11

\* Where a byte of an access lies, in the terms of the graph.
LEMMA BytePlace ==
    ASSUME ShadowInv, MadeInv, PlacesConsistent, NEW f \in Function, NEW e \in Env[f],
           NEW j \in DOMAIN code[f], NEW p, p = code[f][j], p.op \in AccessOps,
           NEW b, b \in Bytes(e, p.ptr, p.bytes)
    PROVE  /\ p.ptr \in Pointers(f) /\ p.var = ShadowOf(Cell[f][p.ptr])
           /\ IsCell(Cell[f][p.ptr])
           /\ e[p.ptr].obj = b[1] /\ e[p.ptr].off \in Nat
           /\ split => e[p.ptr].off = b[2]
  <1>1. /\ p.at \in DOMAIN body[f] /\ OfAccess(body[f][p.at], p, read, mod) /\ p.bytes \in Nat
        /\ p.ptr \in Pointers(f) /\ p.var = ShadowOf(Cell[f][p.ptr]) /\ IsCell(Cell[f][p.ptr])
    BY AccessSays
  <1>2. PICK o, n : o = e[p.ptr].off /\ n = p.bytes
    OBVIOUS
  <1>3. o \in 0 .. ObjectSize /\ o \in Nat
    <2>1. o \in 0 .. ObjectSize
      BY <1>1, <1>2 DEF PlacesConsistent
    <2> QED
      BY <2>1, ValueAssumption
  <1>4. PICK x \in o .. (IF n = Unknown THEN ObjectSize ELSE o + n) - 1 : b = <<e[p.ptr].obj, x>>
    BY <1>2 DEF Bytes
  <1>5. split => x = o
    <2> SUFFICES ASSUME split PROVE x = o
      OBVIOUS
    <2>1. n = 1
      BY <1>1, <1>2 DEF MadeInv, OfAccess
    <2> QED
      BY <1>3, <1>4, <2>1 DEF Unknown
  <1> QED
    BY <1>1, <1>2, <1>3, <1>4, <1>5

\* A callee accesses a byte of one of its fields.
ByCallee(i, e, g, ops, field, b) ==
    \E c \in Called(i, e), j \in Having(g, ops) :
      code[g][j].var = field /\ b \in Bytes(c, code[g][j].ptr, code[g][j].bytes)

\* What is accessed, by the pseudo-instruction itself or by a callee.
LEMMA AccessCases ==
    ASSUME NEW f, NEW e, NEW k, NEW ops \in {Reading, Writing}, NEW b, NEW p, p = code[f][k],
           NEW i, i = body[f][p.at], NEW g, g = i.callee
    PROVE  b \in Accesses(f, e, k, ops) <=>
             \/ p.op \in ops /\ b \in Bytes(e, p.ptr, p.bytes)
             \/ p.op \in CallOps /\ ByCallee(i, e, g, ops, Interface(g)[p.idx], b)
  <1>1. ops \cap CallOps = {}
    BY DEF Reading, Writing, CallOps
  <1>2. CASE p.op \in ops
    <2>1. p.op \notin CallOps
      BY <1>1, <1>2
    <2>2. Accesses(f, e, k, ops) = Bytes(e, p.ptr, p.bytes)
      <3>1. ~(p.op \in {"arg_ref", "arg_mod", "arg_new"})
        BY <2>1 DEF CallOps
      <3> QED
        BY <1>2, <3>1 DEF Accesses
    <2> QED
      BY <1>2, <2>1, <2>2
  <1>3. CASE p.op \notin ops /\ p.op \in CallOps
    <2>1. Accesses(f, e, k, ops) =
            UNION {BytesOf(g, c, {j \in Having(g, ops) : code[g][j].var = Interface(g)[p.idx]}) :
                     c \in Called(i, e)}
      BY <1>3 DEF Accesses, CalleeEnv, CallOps
    <2>2. \A c : b \in BytesOf(g, c, {j \in Having(g, ops) : code[g][j].var = Interface(g)[p.idx]})
                <=> \E j \in Having(g, ops) : /\ code[g][j].var = Interface(g)[p.idx]
                                             /\ b \in Bytes(c, code[g][j].ptr, code[g][j].bytes)
      BY ZenonT(30) DEF BytesOf
    <2>3. b \in Accesses(f, e, k, ops) <=>
            \E c \in Called(i, e) :
              b \in BytesOf(g, c, {j \in Having(g, ops) : code[g][j].var = Interface(g)[p.idx]})
      BY <2>1
    <2> QED
      BY <1>3, <2>2, <2>3, ZenonT(30) DEF ByCallee
  <1>4. CASE p.op \notin ops /\ p.op \notin CallOps
    <2>1. Accesses(f, e, k, ops) = {}
      BY <1>4 DEF Accesses, CallOps
    <2> QED
      BY <1>4, <2>1
  <1> QED
    BY <1>2, <1>3, <1>4

\* A place of a byte that a pseudo-instruction accesses, itself or by a callee.
PlaceOf(x, var, b) ==
    /\ var = ShadowOf(x[1]) /\ x[2].obj = b[1] /\ x[2].off \in Nat
    /\ split => x[2].off = b[2] /\ IsCell(x[1])
LEMMA AccessPlaces ==
    ASSUME ShadowInv, MadeInv, PlacesConsistent, NEW f \in Function, NEW e \in Env[f],
           NEW j \in DOMAIN code[f], NEW ops \in {Reading, Writing},
           NEW b \in Accesses(f, e, j, ops)
    PROVE  \E x \in Places(f, e) : PlaceOf(x, code[f][j].var, b)
  <1>1. PICK p : p = code[f][j]
    OBVIOUS
  <1>2. PICK g, i : i = body[f][p.at] /\ g = i.callee
    OBVIOUS
  <1>3. ops \subseteq AccessOps /\ AccessOps \cap CallOps = {}
    BY DEF Reading, Writing, AccessOps, CallOps
  <1>4. \/ p.op \in ops /\ b \in Bytes(e, p.ptr, p.bytes)
        \/ p.op \in CallOps /\ ByCallee(i, e, g, ops, Interface(g)[p.idx], b)
    BY <1>1, <1>2, AccessCases
  <1>5. CASE p.op \in ops /\ b \in Bytes(e, p.ptr, p.bytes)
    <2>1. /\ p.ptr \in Pointers(f) /\ p.var = ShadowOf(Cell[f][p.ptr]) /\ IsCell(Cell[f][p.ptr])
          /\ e[p.ptr].obj = b[1] /\ e[p.ptr].off \in Nat /\ (split => e[p.ptr].off = b[2])
      BY <1>1, <1>3, <1>5, BytePlace
    <2>2. <<Cell[f][p.ptr], e[p.ptr]>> \in Places(f, e)
      BY <2>1 DEF Places, OwnPlaces
    <2>3. PlaceOf(<<Cell[f][p.ptr], e[p.ptr]>>, p.var, b)
      BY <2>1 DEF PlaceOf
    <2> QED
      BY <1>1, <2>2, <2>3
  <1>6. ASSUME p.op \in CallOps, ByCallee(i, e, g, ops, Interface(g)[p.idx], b)
        PROVE  \E x \in Places(f, e) : PlaceOf(x, p.var, b)
    <2>1. /\ i \in Instruction[f] /\ i.op = "call" /\ g \in Function
          /\ p.idx \in DOMAIN Interface(g) /\ p.var = ShadowOf(InCaller(Interface(g)[p.idx]))
      BY <1>1, <1>2, <1>6, CallOfOp
    <2>2. PICK c \in Called(i, e), k \in Having(g, ops) :
            code[g][k].var = Interface(g)[p.idx] /\ b \in Bytes(c, code[g][k].ptr, code[g][k].bytes)
      BY <1>6 DEF ByCallee
    <2>3. PICK q : q = code[g][k]
      OBVIOUS
    <2>4. k \in DOMAIN code[g] /\ q.op \in AccessOps /\ c \in Env[g]
      BY <1>2, <1>3, <2>2, <2>3 DEF Having, Called
    <2>5. PICK v : v = q.ptr
      OBVIOUS
    <2>6. /\ v \in Pointers(g) /\ q.var = ShadowOf(Cell[g][v]) /\ IsCell(Cell[g][v])
          /\ c[v].obj = b[1] /\ c[v].off \in Nat /\ (split => c[v].off = b[2])
      BY <2>1, <2>2, <2>3, <2>4, <2>5, BytePlace
    <2>7. PICK field : field = Interface(g)[p.idx]
      OBVIOUS
    <2>8. field[1] \in Reach(g) /\ field[2] \in Types[field[1]] \cup {0}
      BY <2>1, <2>7, InterfaceLists
    <2>9. field = <<Cell[g][v].node, IF split THEN Offset(Cell[g][v]) ELSE 0>>
      BY <2>2, <2>3, <2>6, <2>7 DEF ShadowOf
    <2>10. PICK x : x = <<CellOutside(g, v), c[v]>>
      OBVIOUS
    <2>11. x \in Places(f, e)
      <3>1. x \in CalleePlaces(g, c)
        BY <2>6, <2>8, <2>9, <2>10 DEF CalleePlaces
      <3> QED
        BY <1>2, <2>1, <3>1 DEF Places
    <2>12. p.var = ShadowOf(x[1])
      <3>1. x[1] = InCaller(<<Cell[g][v].node, Offset(Cell[g][v])>>)
        BY <2>10 DEF CellOutside
      <3>2. p.var = ShadowOf(InCaller(field))
        BY <2>1, <2>7
      <3>3. CASE split
        BY <2>9, <3>1, <3>2, <3>3
      <3>4. CASE ~split
        BY <2>9, <3>1, <3>2, <3>4 DEF ShadowOf, InCaller
      <3> QED
        BY <3>3, <3>4
    <2>13. split => IsCell(x[1])
      <3> SUFFICES ASSUME split PROVE IsCell(x[1])
        OBVIOUS
      <3>1. x[1] = InCaller(<<field[1], field[2]>>)
        BY <2>9, <2>10 DEF CellOutside
      <3>2. IsCell(InCaller(<<field[1], field[2]>>))
        BY <1>2, <2>1, <2>8, InstructionAssumption
      <3> QED
        BY <3>1, <3>2
    <2>14. PlaceOf(x, p.var, b)
      BY <2>6, <2>10, <2>12, <2>13 DEF PlaceOf
    <2> QED
      BY <2>11, <2>14
  <1> QED
    BY <1>1, <1>4, <1>5, <1>6

\* Strides are apart.
LEMMA StrideApart ==
    ASSUME NEW s \in Nat, NEW k \in Int
    PROVE  (k >= 1 => k * s >= s) /\ (k <= -1 => k * s <= -s) /\ (k = 0 => k * s = 0)
  <1>1. ASSUME k >= 1 PROVE k * s >= s
    <2>1. k - 1 \in Nat
      BY <1>1
    <2>2. PICK m \in Nat : m = k - 1
      BY <2>1
    <2>3. m * s \in Nat
      OBVIOUS
    <2>4. k * s = m * s + s
      <3>1. k = m + 1
        BY <2>2
      <3>2. (m + 1) * s = m * s + s
        OBVIOUS
      <3> QED
        BY <3>1, <3>2
    <2> QED
      BY <2>3, <2>4
  <1>2. ASSUME k <= -1 PROVE k * s <= -s
    <2>1. PICK m \in Nat : m = (-k) - 1
      BY <1>2
    <2>2. m * s \in Nat
      OBVIOUS
    <2>3. k * s = -(m * s) - s
      <3>1. k = -m - 1
        BY <2>1
      <3>2. (-m - 1) * s = -(m * s) - s
        OBVIOUS
      <3> QED
        BY <3>1, <3>2
    <2> QED
      BY <2>2, <2>3
  <1>3. 0 * s = 0
    OBVIOUS
  <1> QED
    BY <1>1, <1>2, <1>3

\* Offsets of cells of a node that is an array lie in its first stride.
LEMMA OffsetRange ==
    ASSUME NEW c, IsCell(c)
    PROVE  /\ Offset(c) \in Nat /\ Size[c.node] \in Nat
           /\ c.node \in Collapsed => Offset(c) = 0
           /\ c.node \in Array \ Collapsed => Offset(c) < Size[c.node]
  <1>1. c.node \in Node /\ c.off \in Nat /\ Size[c.node] \in Nat
    BY GraphAssumption DEF IsCell
  <1>2. CASE c.node \in Collapsed
    BY <1>1, <1>2 DEF Offset
  <1>3. CASE c.node \in Array \ Collapsed
    <2>1. PICK s, o : s = Size[c.node] /\ o = c.off
      OBVIOUS
    <2>2. s \in Nat /\ s # 0 /\ o \in Nat
      BY <1>1, <1>3, <2>1, GraphAssumption
    <2>3. o % s \in Nat /\ o % s < s
      BY <2>2
    <2>4. Offset(c) = o % s
      BY <1>3, <2>1 DEF Offset
    <2> QED
      BY <1>1, <1>3, <2>1, <2>3, <2>4
  <1>4. CASE c.node \notin Collapsed /\ c.node \notin Array \ Collapsed
    BY <1>1, <1>4 DEF Offset
  <1> QED
    BY <1>2, <1>3, <1>4

\* A byte that two pseudo-instructions access, themselves or by callees, belongs to one
\* shadow variable.
LEMMA SameVariable ==
    ASSUME ShadowInv, MadeInv, PlacesConsistent, NEW f \in Function, NEW e \in Env[f],
           NEW j \in DOMAIN code[f], NEW k \in DOMAIN code[f],
           NEW A \in {Reading, Writing}, NEW B \in {Reading, Writing}, NEW b,
           b \in Accesses(f, e, j, A), b \in Accesses(f, e, k, B)
    PROVE  code[f][j].var = code[f][k].var
  <1>1. PICK x \in Places(f, e) : PlaceOf(x, code[f][j].var, b)
    BY AccessPlaces
  <1>2. PICK y \in Places(f, e) : PlaceOf(y, code[f][k].var, b)
    BY AccessPlaces
  <1>3. Consistent(x, y) /\ x[2].obj = y[2].obj
    BY <1>1, <1>2 DEF PlacesConsistent, PlaceOf
  <1>4. PICK n, c, d : n = c.node /\ c = x[1] /\ d = y[1]
    OBVIOUS
  <1>5. n = d.node
    BY <1>3, <1>4 DEF Consistent
  <1>6. CASE ~split
    BY <1>1, <1>2, <1>4, <1>5, <1>6 DEF PlaceOf, ShadowOf
  <1>7. CASE split
    <2>1. IsCell(c) /\ IsCell(d) /\ x[2].off = y[2].off /\ x[2].off \in Nat
      BY <1>1, <1>2, <1>4, <1>7 DEF PlaceOf
    <2>2. PICK u, v, s : u = Offset(c) /\ v = Offset(d) /\ s = Size[n]
      OBVIOUS
    <2>3. /\ u \in Nat /\ v \in Nat /\ s \in Nat
          /\ n \in Collapsed => u = 0 /\ v = 0
          /\ n \in Array \ Collapsed => u < s /\ v < s
      BY <1>4, <1>5, <2>1, <2>2, OffsetRange
    <2>4. u = v
      <3>1. CASE n \in Collapsed
        BY <2>3, <3>1
      <3>2. CASE n \notin Collapsed
        <4>1. \E m \in (IF n \in Array THEN -ObjectSize .. ObjectSize ELSE {0}) :
                x[2].off - y[2].off = u - v + m * s
          BY <1>3, <1>4, <2>2, <3>2 DEF Consistent
        <4>2. PICK m : /\ m \in (IF n \in Array THEN -ObjectSize .. ObjectSize ELSE {0})
                       /\ x[2].off - y[2].off = u - v + m * s
          BY <4>1
        <4>3. m \in Int
          BY <4>2, ValueAssumption
        <4>4. PICK w \in Int : w = m * s
          BY <2>3, <4>3
        <4>5. 0 = u - v + w
          BY <2>1, <4>2, <4>4
        <4>6. (m >= 1 => w >= s) /\ (m <= -1 => w <= -s) /\ (m = 0 => w = 0)
          BY <2>3, <4>3, <4>4, StrideApart
        <4>7. CASE n \in Array
          BY <2>3, <3>2, <4>3, <4>5, <4>6, <4>7
        <4>8. CASE n \notin Array
          BY <2>3, <4>2, <4>5, <4>6, <4>8
        <4> QED
          BY <4>7, <4>8
      <3> QED
        BY <3>1, <3>2
    <2> QED
      BY <1>1, <1>2, <1>4, <1>5, <1>7, <2>2, <2>4 DEF PlaceOf, ShadowOf
  <1> QED
    BY <1>6, <1>7

-----------------------------------------------------------------------------
(* What a use skips does not write what it reads                            *)

\* Accesses of a bytes at x and of b bytes at y, at the offsets u and v of a node whose
\* strides are s, that begin m strides apart.
LEMMA BytesApart ==
    ASSUME NEW x \in Nat, NEW y \in Nat, NEW a \in Nat, NEW b \in Nat,
           NEW u \in Nat, NEW v \in Nat, NEW s \in Nat, NEW m \in Int,
           x - y = u - v + m * s,
           m # 0 => u < s /\ v < s /\ (u = 0 \/ (a # 0 /\ u + a <= s))
                    /\ (v = 0 \/ (b # 0 /\ v + b <= s)),
           (b # 0 /\ u >= v + b) \/ (a # 0 /\ u + a <= v)
    PROVE  (b # 0 /\ y + b <= x) \/ (a # 0 /\ x + a <= y)
  <1>1. PICK w \in Int : w = m * s
    OBVIOUS
  <1>2. (m >= 1 => w >= s) /\ (m <= -1 => w <= -s) /\ (m = 0 => w = 0)
    BY <1>1, StrideApart
  <1>3. x - y = u - v + w
    BY <1>1
  <1>4. CASE m = 0
    BY <1>2, <1>3, <1>4
  <1>5. CASE m >= 1
    BY <1>2, <1>3, <1>5
  <1>6. CASE m <= -1
    BY <1>2, <1>3, <1>6
  <1> QED
    BY <1>4, <1>5, <1>6

\* Bytes of one object, and how they are told apart.
LEMMA NoCommonByte ==
    ASSUME NEW e, NEW p, NEW q, NEW a \in Nat, NEW b \in Nat,
           e[p].off \in Nat, e[q].off \in Nat,
           \/ e[p].obj # e[q].obj
           \/ b # 0 /\ e[q].off + b <= e[p].off
           \/ a # 0 /\ e[p].off + a <= e[q].off
    PROVE  Bytes(e, p, a) \cap Bytes(e, q, b) = {}
  <1> SUFFICES ASSUME NEW c, c \in Bytes(e, p, a), c \in Bytes(e, q, b) PROVE FALSE
    OBVIOUS
  <1>1. PICK x, y, z : x = e[p].off /\ y = e[q].off /\ z = ObjectSize
    OBVIOUS
  <1>2. PICK i \in x .. (IF a = 0 THEN z ELSE x + a) - 1 : c = <<e[p].obj, i>>
    BY <1>1 DEF Bytes, Unknown
  <1>3. PICK j \in y .. (IF b = 0 THEN z ELSE y + b) - 1 : c = <<e[q].obj, j>>
    BY <1>1 DEF Bytes, Unknown
  <1>4. i = j /\ e[p].obj = e[q].obj
    BY <1>2, <1>3
  <1>5. x \in Nat /\ y \in Nat /\ z \in Nat
    BY <1>1, ValueAssumption
  <1>6. (b # 0 /\ y + b <= x) \/ (a # 0 /\ x + a <= y)
    BY <1>1, <1>4
  <1> QED
    BY <1>2, <1>3, <1>4, <1>5, <1>6

\* An access that stays in its stride.
LEMMA StrideKept ==
    ASSUME ShadowInv, MadeInv, NEW f \in Function, NEW j \in DOMAIN code[f],
           NEW p, p = code[f][j], p.op \in AccessOps, ~OverStride(f, p),
           Cell[f][p.ptr].node \in Array \ Collapsed,
           NEW o, o = Offset(Cell[f][p.ptr]), NEW s, s = Size[Cell[f][p.ptr].node]
    PROVE  o = 0 \/ (p.bytes # 0 /\ o + p.bytes <= s)
  <1>1. p.bytes \in Nat /\ IsCell(Cell[f][p.ptr])
    BY AccessSays
  <1>2. PICK n : n = p.bytes
    OBVIOUS
  <1>3. o \in Nat /\ s \in Nat /\ n \in Nat
    BY <1>1, <1>2, OffsetRange
  <1>4. o = 0 \/ ~(n = 0 \/ o + n > s)
    <2>1. PICK c : c = Cell[f][p.ptr]
      OBVIOUS
    <2>2. /\ c.node \in Array \ Collapsed /\ o = Offset(c) /\ s = Size[c.node]
          /\ ~(c.node \in Array \ Collapsed /\ Offset(c) # 0
                /\ (p.bytes = 0 \/ Offset(c) + p.bytes > Size[c.node]))
      BY <2>1 DEF OverStride, Unknown
    <2> QED
      BY <1>2, <2>2
  <1>5. PICK x \in Nat, y \in Nat, m \in Nat : x = o /\ y = s /\ m = n
    BY <1>3
  <1>6. x = 0 \/ ~(m = 0 \/ x + m > y)
    BY <1>4, <1>5
  <1>7. x = 0 \/ (m # 0 /\ x + m <= y)
    BY <1>6
  <1> QED
    BY <1>2, <1>5, <1>7

\* A definition that may be skipped does not write the bytes that the use reads, unless
\* mayClobber misjudges the two.
LEMMA SkippedApart ==
    ASSUME ShadowInv, MadeInv, PlacesConsistent, PointersLeadToSites,
           NEW d \in DOMAIN code[fn], NEW k \in DOMAIN code[fn], NEW p, NEW q,
           p = code[fn][k], q = code[fn][d],
           p.op \in AccessOps, q.op \in AccessOps, p.var = q.var,
           MaySkip(q, p), NEW e \in Env[fn], ~Misjudged(fn, e, q, p)
    PROVE  Bytes(e, p.ptr, p.bytes) \cap Bytes(e, q.ptr, q.bytes) = {}
  <1>1. PICK f : f = fn
    OBVIOUS
  <1>2. f \in Function
    BY <1>1 DEF ShadowInv, OrderInv
  <1>3. PICK v, w, a, b : v = p.ptr /\ w = q.ptr /\ a = p.bytes /\ b = q.bytes
    OBVIOUS
  <1>4. /\ v \in Pointers(f) /\ a \in Nat /\ p.var = ShadowOf(Cell[f][v]) /\ IsCell(Cell[f][v])
        /\ w \in Pointers(f) /\ b \in Nat /\ q.var = ShadowOf(Cell[f][w]) /\ IsCell(Cell[f][w])
    BY <1>1, <1>2, <1>3, AccessSays
  <1>5. e[v].off \in Nat /\ e[w].off \in Nat
    <2>1. e[v].off \in 0 .. ObjectSize /\ e[w].off \in 0 .. ObjectSize
      BY <1>1, <1>2, <1>4 DEF PlacesConsistent
    <2> QED
      BY <2>1, ValueAssumption
  <1>0. KnownPointers(q, p)
    BY DEF MaySkip, Skippable
  <1>6. CASE isNoAlias(q, p)
    BY <1>6 DEF isNoAlias
  <1>7. CASE SitesDisjoint(q, p)
    <2>1. Origins(v) \cup Origins(w) \subseteq SiteValue /\ Origins(v) \cap Origins(w) = {}
      BY <1>3, <1>7 DEF SitesDisjoint
    <2>2. PICK s \in Origins(v) : e[s].obj = e[v].obj
      BY <1>1, <1>2, <1>4, <2>1 DEF PointersLeadToSites
    <2>3. PICK x \in Origins(w) : e[x].obj = e[w].obj
      BY <1>1, <1>2, <1>4, <2>1 DEF PointersLeadToSites
    <2>4. e[s].obj # e[x].obj
      <3>1. ~SitesMeet(e, q, p)
        BY <1>0, <1>7 DEF Misjudged
      <3> QED
        BY <1>3, <3>1 DEF SitesMeet
    <2> QED
      BY <1>3, <1>4, <1>5, <2>2, <2>3, <2>4, NoCommonByte
  <1>8. CASE OffsetsDisjoint(q, p) /\ e[v].obj = e[w].obj
    <2>1. PICK c, o, n, s, g, h : /\ c = Cell[f][v] /\ o = Cell[f][w] /\ n = c.node /\ s = Size[n]
                                  /\ g = Offset(c) /\ h = Offset(o)
      OBVIOUS
    <2>2. (b # 0 /\ g >= h + b) \/ (a # 0 /\ g + a <= h)
      BY <1>1, <1>3, <1>8, <2>1 DEF OffsetsDisjoint, Unknown
    <2>3. Consistent(<<c, e[v]>>, <<o, e[w]>>)
      <3>1. <<c, e[v]>> \in Places(f, e) /\ <<o, e[w]>> \in Places(f, e)
        BY <1>4, <2>1 DEF Places, OwnPlaces
      <3> QED
        BY <1>1, <1>2, <3>1 DEF PlacesConsistent
    <2>4. n = o.node
      BY <1>8, <2>1, <2>3 DEF Consistent
    <2>5. /\ g \in Nat /\ h \in Nat /\ s \in Nat
          /\ n \in Collapsed => g = 0 /\ h = 0
          /\ n \in Array \ Collapsed => g < s /\ h < s
      BY <1>4, <2>1, <2>4, OffsetRange
    <2>6. n \notin Collapsed
      BY <1>4, <2>2, <2>5
    <2>7. PICK m : /\ m \in (IF n \in Array THEN -ObjectSize .. ObjectSize ELSE {0})
                   /\ e[v].off - e[w].off = g - h + m * s
      BY <1>8, <2>1, <2>3, <2>6 DEF Consistent
    <2>8. m \in Int /\ (m # 0 => n \in Array)
      BY <2>7, ValueAssumption
    <2>9. m # 0 => /\ g < s /\ h < s /\ (g = 0 \/ (a # 0 /\ g + a <= s))
                   /\ (h = 0 \/ (b # 0 /\ h + b <= s))
      <3> SUFFICES ASSUME m # 0
                   PROVE  /\ g < s /\ h < s /\ (g = 0 \/ (a # 0 /\ g + a <= s))
                          /\ (h = 0 \/ (b # 0 /\ h + b <= s))
        OBVIOUS
      <3>1. n \in Array \ Collapsed
        BY <2>6, <2>8
      <3>4. ~OverStride(f, p) /\ ~OverStride(f, q)
        BY <1>0, <1>1, <1>8 DEF Misjudged
      <3>2. g = 0 \/ (a # 0 /\ g + a <= s)
        <4>1. p = code[f][k] /\ Cell[f][p.ptr].node \in Array \ Collapsed
              /\ g = Offset(Cell[f][p.ptr]) /\ s = Size[Cell[f][p.ptr].node]
          BY <1>1, <1>3, <2>1, <3>1
        <4>2. g = 0 \/ (p.bytes # 0 /\ g + p.bytes <= s)
          BY <1>1, <1>2, <3>4, <4>1, StrideKept
        <4> QED
          BY <1>3, <4>2
      <3>3. h = 0 \/ (b # 0 /\ h + b <= s)
        <4>1. q = code[f][d] /\ Cell[f][q.ptr].node \in Array \ Collapsed
              /\ h = Offset(Cell[f][q.ptr]) /\ s = Size[Cell[f][q.ptr].node]
          BY <1>1, <1>3, <2>1, <2>4, <3>1
        <4>2. h = 0 \/ (q.bytes # 0 /\ h + q.bytes <= s)
          BY <1>1, <1>2, <3>4, <4>1, StrideKept
        <4> QED
          BY <1>3, <4>2
      <3> QED
        BY <2>5, <3>1, <3>2, <3>3
    <2>10. PICK x, y : x = e[v].off /\ y = e[w].off
      OBVIOUS
    <2>11. (b # 0 /\ y + b <= x) \/ (a # 0 /\ x + a <= y)
      BY <1>4, <1>5, <2>2, <2>5, <2>7, <2>8, <2>9, <2>10, BytesApart
    <2> QED
      <3>1. a \in Nat /\ b \in Nat /\ x \in Nat /\ y \in Nat
        BY <1>3, <1>4, <1>5, <2>10
      <3>2. \/ b # 0 /\ e[w].off + b <= e[v].off
            \/ a # 0 /\ e[v].off + a <= e[w].off
        BY <2>10, <2>11
      <3>3. e[v].off \in Nat /\ e[w].off \in Nat
        BY <2>10, <3>1
      <3>4. Bytes(e, v, a) \cap Bytes(e, w, b) = {}
        BY ONLY <3>1, <3>2, <3>3, NoCommonByte
      <3> QED
        BY <1>3, <1>4, <3>4
  <1>9. CASE e[v].obj # e[w].obj
    BY <1>3, <1>4, <1>5, <1>9, NoCommonByte
  <1> QED
    BY <1>6, <1>7, <1>8, <1>9 DEF MaySkip, Skippable

-----------------------------------------------------------------------------
(* What solveUses keeps of the registers                                    *)

\* No write of what the k-th pseudo-instruction reads comes after register d was set,
\* unless mayClobber misjudges it.
Sound(f, k, d) ==
    \A e \in Env[f], times \in Times(f) :
    \A t \in DOMAIN Trace(f, times) : \A s \in 1 .. t - 1, j \in DOMAIN code[f] :
      /\ Trace(f, times)[t] = code[f][k].at /\ Trace(f, times)[s] = code[f][j].at
      /\ IsDef(code[f][j]) /\ code[f][j].var = code[f][k].var
      /\ \E b : b \in Accesses(f, e, j, Writing) /\ b \in Observed(f, e, k)
      => s <= SetAt(f, Trace(f, times), t, d) \/ Misjudged(f, e, code[f][j], code[f][k])

\* The register is the one that PromoteMemToReg found, or was walked to from there.
Seen(f, k, d) ==
    \/ code[f][k].op = "in"
    \/ d = Reaching(code[f], region[f], k, code[f][k].var)
    \/ Sound(f, k, d)

\* What solveUses does not change: definitions and what has no pointer.
Kept(p) == IsDef(p) \/ (p.ptr = NoValue /\ p.op # "in")

UsesOf(f) ==
    /\ phase = "solve" => f \in Returns
    /\ phase \in {"solve", "end"} /\ f \in Returns =>
         \A k \in DOMAIN code[f] :
           /\ k \in DOMAIN arg[f] /\ \A d \in {arg[f][k]} : Seen(f, k, d)
           /\ Kept(code[f][k]) =>
                arg[f][k] = Reaching(code[f], region[f], k, code[f][k].var)
    /\ phase = "solve" =>
         /\ IsUse(code[f][use])
         /\ \A k \in {use}, d \in {def} : d > 0 => Seen(f, k, d)
         /\ \A k \in {use}, d \in {prev} : d # None => Seen(f, k, d)
         /\ code[f][use].ptr = NoValue => prev = None /\ def = arg[f][use]
UsesInv == \A f \in Function : f = fn => UsesOf(f)

\* The code of a function, and its executions.
LEMMA CodeSteps ==
    ASSUME ShadowInv, MadeInv, NEW f \in Function, NEW n, n = Len(code[f]),
           NEW N, N = Len(body[f])
    PROVE  /\ n \in Nat /\ DOMAIN code[f] = 1 .. n /\ N \in Nat /\ DOMAIN body[f] = 1 .. N
           /\ \A k \in 1 .. n : code[f][k] \in PseudoOps /\ code[f][k].at \in Nat
           /\ Sorted(code[f]) /\ RegionOK(region[f], N)
           /\ \A times \in Times(f) : StepsInOrder(Trace(f, times), N, region[f])
  <1>1. code[f] \in Seq(PseudoOps) /\ body[f] \in Seq(Instruction[f])
    BY DEF ShadowInv, FunctionInv, BodyInv, CodeInv
  <1>2. n \in Nat /\ DOMAIN code[f] = 1 .. n /\ N \in Nat /\ DOMAIN body[f] = 1 .. N
    BY <1>1, LenProperties
  <1>3. \A k \in 1 .. n : code[f][k] \in PseudoOps
    BY <1>1, <1>2, ElementOfSeq
  <1>4. \A k \in 1 .. n : code[f][k].at \in Nat
    BY <1>3 DEF PseudoOps
  <1>5. InPlace(code[f]) /\ RegionOK(region[f], N)
    BY DEF MadeInv
  <1>6. Sorted(code[f])
    BY <1>5 DEF InPlace, Before, Sorted
  <1>7. \A times \in Times(f) : StepsInOrder(Trace(f, times), N, region[f])
    <2> SUFFICES ASSUME NEW times \in Times(f)
                 PROVE  StepsInOrder(Trace(f, times), N, region[f])
      OBVIOUS
    <2>1. RunsThrough(Trace(f, times), N, region[f], times)
      BY <1>2, <1>5, TraceRuns
    <2> QED
      BY <1>2, <1>5, <2>1, RunsInOrder
  <1> QED
    BY <1>2, <1>3, <1>4, <1>5, <1>6, <1>7

\* What accesses itself.
LEMMA DirectAccess ==
    ASSUME NEW f, NEW e, NEW k, NEW ops \in {Reading, Writing}, code[f][k].op \in ops
    PROVE  Accesses(f, e, k, ops) = Bytes(e, code[f][k].ptr, code[f][k].bytes)
  <1>1. PICK p : p = code[f][k]
    OBVIOUS
  <1>2. p.op \notin CallOps
    BY <1>1 DEF Reading, Writing, CallOps
  <1>3. \A b : b \in Accesses(f, e, k, ops) <=> b \in Bytes(e, p.ptr, p.bytes)
    BY <1>1, <1>2, AccessCases
  <1>4. \A b : b \in Accesses(f, e, k, ops) <=> b \in Bytes(e, code[f][k].ptr, code[f][k].bytes)
    BY <1>1, <1>3
  <1> QED
    BY <1>4

\* Registers that PromoteMemToReg found are sound.
LEMMA SeenSound ==
    ASSUME ShadowInv, MadeInv, NEW f \in Function, NEW k \in DOMAIN code[f], NEW d,
           Seen(f, k, d)
    PROVE  Sound(f, k, d)
  <1>1. CASE code[f][k].op = "in"
    <2>1. \A e : Observed(f, e, k) = {}
      <3> SUFFICES ASSUME NEW e PROVE Observed(f, e, k) = {}
        OBVIOUS
      <3>1. Observed(f, e, k) = Accesses(f, e, k, Reading)
        BY <1>1 DEF Observed
      <3>2. code[f][k].op \notin Reading /\ code[f][k].op \notin {"arg_ref", "arg_mod", "arg_new"}
        BY <1>1 DEF Reading
      <3>3. Accesses(f, e, k, Reading) = {}
        BY <3>2 DEF Accesses
      <3> QED
        BY <3>1, <3>3
    <2> QED
      BY <2>1 DEF Sound
  <1>2. CASE d = Reaching(code[f], region[f], k, code[f][k].var)
    <2>1. PICK n, N : n = Len(code[f]) /\ N = Len(body[f])
      OBVIOUS
    <2>2. /\ n \in Nat /\ DOMAIN code[f] = 1 .. n /\ N \in Nat
          /\ \A i \in 1 .. n : code[f][i].at \in Nat
          /\ Sorted(code[f]) /\ RegionOK(region[f], N)
          /\ \A times \in Times(f) : StepsInOrder(Trace(f, times), N, region[f])
      BY <2>1, CodeSteps
    <2>3. ASSUME NEW e \in Env[f], NEW times \in Times(f), NEW t \in DOMAIN Trace(f, times),
                 NEW s \in 1 .. t - 1, NEW j \in DOMAIN code[f],
                 Trace(f, times)[t] = code[f][k].at, Trace(f, times)[s] = code[f][j].at,
                 IsDef(code[f][j]), code[f][j].var = code[f][k].var
          PROVE  s <= SetAt(f, Trace(f, times), t, d)
      <3>1. PICK tr : tr = Trace(f, times)
        OBVIOUS
      <3>2. StepsInOrder(tr, N, region[f]) /\ t \in DOMAIN tr /\ tr[t] = code[f][k].at
            /\ tr[s] = code[f][j].at
        BY <2>2, <2>3, <3>1
      <3>3. s <= SetAt(f, tr, t, Reaching(code[f], region[f], k, code[f][k].var))
        BY <2>2, <2>3, <3>2, ReachingSeen
      <3> QED
        BY <1>2, <3>1, <3>3
    <2> QED
      BY <2>3 DEF Sound
  <1>3. CASE Sound(f, k, d)
    BY <1>3
  <1> QED
    BY <1>1, <1>2, <1>3 DEF Seen

\* One instruction makes one definition, unless it is a call.
LEMMA OneDefinition ==
    ASSUME ShadowInv, MadeInv, NEW f \in Function, NEW d \in DOMAIN code[f],
           NEW j \in DOMAIN code[f], code[f][d].op = "store",
           code[f][j].at = code[f][d].at, IsDef(code[f][j])
    PROVE  j = d
  <1>1. PICK n : n = Len(code[f])
    OBVIOUS
  <1>2. d \in Nat /\ j \in Nat
    BY <1>1, CodeSteps
  <1>3. InPlace(code[f])
    BY DEF MadeInv
  <1>4. ~(d < j)
    BY <1>3 DEF InPlace, Before
  <1>5. ASSUME j < d PROVE FALSE
    <2>1. code[f][j].op # "store"
      BY <1>3, <1>5 DEF InPlace, Before
    <2>2. PICK at, i : at = code[f][d].at /\ i = body[f][at]
      OBVIOUS
    <2>3. at \in DOMAIN body[f] /\ OfAccess(i, code[f][d], read, mod)
      <3>1. code[f][d].op \in AccessOps
        BY DEF AccessOps
      <3> QED
        BY <2>2, <3>1, AccessSays
    <2>4. i.op # "call"
      BY <2>3 DEF OfAccess
    <2>5. Made(body[f], code[f][j], read, mod)
      <3>1. code[f][j] \in ToSet(code[f])
        BY DEF ToSet
      <3> QED
        BY <3>1 DEF MadeInv
    <2>6. CASE OfAccess(i, code[f][j], read, mod)
      BY <2>1, <2>6 DEF OfAccess, AccessOps, IsDef, IsInit
    <2>7. CASE OfCall(i, code[f][j])
      BY <2>4, <2>7 DEF OfCall
    <2>8. CASE Initial(code[f][j])
      <3>1. at = 0
        BY <2>2, <2>8 DEF Initial
      <3>2. PICK N \in Nat : DOMAIN body[f] = 1 .. N
        BY CodeSteps
      <3>3. at # 0
        BY <2>3, <3>2
      <3> QED
        BY <3>1, <3>3
    <2>9. CASE Marker(code[f][j], Len(body[f]) + 1)
      BY <2>9 DEF Marker, IsDef, IsInit
    <2> QED
      BY <2>2, <2>5, <2>6, <2>7, <2>8, <2>9 DEF Made, OfInstruction
  <1> QED
    BY <1>2, <1>4, <1>5

\* A register was set no later at an earlier step.
LEMMA SetEarlier ==
    ASSUME NEW f, NEW tr, NEW N, StepsInOrder(tr, N, region[f]),
           NEW t \in DOMAIN tr, NEW s \in DOMAIN tr, s < t, NEW d \in Int, d > 0
    PROVE  SetAt(f, tr, s, d) <= SetAt(f, tr, t, d)
  <1>1. PICK l, m, at : l = SetAt(f, tr, s, d) /\ m = SetAt(f, tr, t, d) /\ at = code[f][d].at
    OBVIOUS
  <1>2. SetSteps(f, tr, s, d, l) /\ SetSteps(f, tr, t, d, m)
    BY <1>1, SetAtSteps
  <1>3. /\ l \in 0 .. s /\ m \in 0 .. t
        /\ at = tr[t] => m = t
        /\ at # tr[t] => \A q \in 1 .. t - 1 : tr[q] = at => q <= m
        /\ at = tr[s] => l = s
        /\ at # tr[s] => l = 0 \/ tr[l] = at
    BY <1>1, <1>2 DEF SetSteps
  <1>4. s \in Nat /\ t \in Nat
    BY DEF StepsInOrder
  <1>5. CASE at = tr[t]
    BY <1>1, <1>3, <1>4, <1>5
  <1>6. CASE at # tr[t]
    <2>1. l = 0 \/ tr[l] = at
      BY <1>3
    <2>2. l # 0 => l \in 1 .. t - 1
      BY <1>3, <1>4
    <2>3. l <= m
      BY <1>3, <1>6, <2>1, <2>2
    <2> QED
      BY <1>1, <2>3
  <1> QED
    BY <1>5, <1>6

\* Going on from a definition that may be skipped is sound.
LEMMA SkipSound ==
    ASSUME ShadowInv, MadeInv, PlacesConsistent, PointersLeadToSites,
           NEW k \in DOMAIN code[fn], NEW d \in DOMAIN code[fn], NEW c,
           OperandOK(code[fn], k, d), IsUse(code[fn][k]), MaySkip(code[fn][d], code[fn][k]),
           Sound(fn, k, d), c = Reaching(code[fn], region[fn], d, code[fn][d].var), c > 0
    PROVE  Sound(fn, k, c)
  <1>1. PICK f, p, q : f = fn /\ p = code[f][k] /\ q = code[f][d]
    OBVIOUS
  <1>2. f \in Function
    BY <1>1 DEF ShadowInv, OrderInv
  <1>3. PICK n, N : n = Len(code[f]) /\ N = Len(body[f])
    OBVIOUS
  <1>4. /\ n \in Nat /\ DOMAIN code[f] = 1 .. n /\ N \in Nat
        /\ \A i \in 1 .. n : code[f][i].at \in Nat
        /\ Sorted(code[f]) /\ RegionOK(region[f], N)
        /\ \A times \in Times(f) : StepsInOrder(Trace(f, times), N, region[f])
    BY <1>2, <1>3, CodeSteps
  <1>5. d \in 1 .. n /\ d > 0 /\ d < k /\ IsDef(q) /\ q.var = p.var /\ k \in 1 .. n
    BY <1>1, <1>4 DEF OperandOK
  <1>6. c \in 1 .. n /\ c < d /\ IsDef(code[f][c])
    <2>1. c \in None .. d - 1 /\ (c > 0 => IsDef(code[f][c]))
      BY <1>1, <1>4, <1>5, ReachingRange
    <2> QED
      BY <1>4, <1>5, <2>1 DEF None
  <1>7. p.op \in Reading /\ q.op = "store"
    <2>1. p.ptr # NoValue /\ q.ptr # NoValue /\ ~IsInit(q)
      BY <1>1 DEF MaySkip, Skippable, KnownPointers
    <2>2. p \in PseudoOps /\ q \in PseudoOps
      BY <1>1, <1>2, <1>3, <1>4, <1>5, CodeSteps
    <2>3. Made(body[f], p, read, mod) /\ Made(body[f], q, read, mod)
      <3>1. p \in ToSet(code[f]) /\ q \in ToSet(code[f])
        BY <1>1 DEF ToSet
      <3> QED
        BY <1>2, <3>1 DEF MadeInv
    <2>4. q.op \in AccessOps
      BY <2>1, <2>3 DEF Made, Marker, Initial, IsInit, OfInstruction, OfAccess, OfCall
    <2>5. q.op = "store"
      BY <1>5, <2>4 DEF AccessOps, IsDef, IsInit
    <2>6. p.op \in AccessOps
      <3>1. ~IsInit(p)
        BY <1>1 DEF IsUse, IsDef
      <3> QED
        BY <2>1, <2>3, <3>1 DEF Made, Marker, Initial, IsInit, OfInstruction, OfAccess, OfCall
    <2>7. p.op \in Reading
      BY <1>1, <2>6 DEF AccessOps, IsUse, IsDef, IsInit, Reading
    <2> QED
      BY <2>5, <2>7
  <1>8. ASSUME NEW e \in Env[f], NEW times \in Times(f), NEW t \in DOMAIN Trace(f, times),
               NEW s \in 1 .. t - 1, NEW j \in DOMAIN code[f],
               Trace(f, times)[t] = code[f][k].at, Trace(f, times)[s] = code[f][j].at,
               IsDef(code[f][j]), code[f][j].var = code[f][k].var,
               NEW b, b \in Accesses(f, e, j, Writing), b \in Observed(f, e, k),
               ~Misjudged(f, e, code[f][j], code[f][k])
        PROVE  s <= SetAt(f, Trace(f, times), t, c)
    <2>1. PICK tr : tr = Trace(f, times)
      OBVIOUS
    <2>2. StepsInOrder(tr, N, region[f]) /\ t \in DOMAIN tr /\ tr[t] = p.at
          /\ tr[s] = code[f][j].at
      BY <1>1, <1>4, <1>8, <2>1
    <2>3. PICK l : l = SetAt(f, tr, t, d)
      OBVIOUS
    <2>4. s <= l
      BY <1>1, <1>8, <2>1, <2>3 DEF Sound
    <2>5. q.at # tr[t]
      <3>1. InPlace(code[f])
        BY <1>2 DEF MadeInv
      <3> QED
        BY <1>1, <1>5, <1>7, <2>2, <3>1 DEF InPlace, Before
    <2>6. l <= t - 1 /\ l \in 0 .. t /\ (l = 0 \/ tr[l] = q.at)
      <3>1. SetSteps(f, tr, t, d, l)
        <4>1. d \in Int
          BY <1>5
        <4> QED
          BY <2>2, <2>3, <4>1, SetAtSteps
      <3>2. d > 0 /\ code[f][d].at # tr[t]
        BY <1>1, <1>5, <2>5
      <3>3. l <= t - 1 /\ l \in 0 .. t /\ (l = 0 \/ tr[l] = code[f][d].at)
        BY <3>1, <3>2 DEF SetSteps
      <3> QED
        BY <1>1, <3>3
    <2>7. t \in Nat /\ l \in 1 .. t - 1 /\ tr[l] = q.at /\ l \in DOMAIN tr /\ l < t
      <3>2. PICK T \in Nat : DOMAIN tr = 1 .. T
        BY <2>2 DEF StepsInOrder
      <3>1. t \in Nat
        BY <2>2, <3>2
      <3>3. l # 0 /\ l \in 1 .. t - 1 /\ l < t
        BY <2>4, <2>6, <3>1
      <3>4. l \in 1 .. T
        BY <2>2, <3>1, <3>2, <3>3
      <3> QED
        BY <2>6, <3>1, <3>2, <3>3, <3>4
    <2>8. CASE s = l
      <3>1. j = d
        <4>1. /\ j \in DOMAIN code[f] /\ d \in DOMAIN code[f] /\ IsDef(code[f][j])
              /\ code[f][d].op = "store" /\ code[f][j].at = code[f][d].at
          BY <1>1, <1>7, <1>8, <2>2, <2>7, <2>8
        <4> QED
          BY <1>2, <4>1, OneDefinition
      <3>2. b \in Bytes(e, q.ptr, q.bytes)
        <4>1. code[f][j].op \in Writing /\ code[f][j] = q
          BY <1>1, <1>7, <3>1 DEF Writing
        <4>2. Accesses(f, e, j, Writing) = Bytes(e, code[f][j].ptr, code[f][j].bytes)
          BY <4>1, DirectAccess
        <4> QED
          BY <1>8, <4>1, <4>2
      <3>3. b \in Bytes(e, p.ptr, p.bytes)
        <4>1. p.op # "out"
          BY <1>7 DEF Reading
        <4> QED
          <5>1. Observed(f, e, k) = Accesses(f, e, k, Reading)
            BY <1>1, <4>1 DEF Observed
          <5>2. Accesses(f, e, k, Reading) = Bytes(e, code[f][k].ptr, code[f][k].bytes)
            BY <1>1, <1>7, DirectAccess
          <5> QED
            BY <1>1, <1>8, <5>1, <5>2
      <3>4. Bytes(e, p.ptr, p.bytes) \cap Bytes(e, q.ptr, q.bytes) = {}
        <4>1. p.op \in AccessOps /\ q.op \in AccessOps
          BY <1>7 DEF Reading, AccessOps
        <4>2. ~Misjudged(fn, e, q, p)
          BY <1>1, <1>8, <3>1
        <4> QED
          BY <1>1, <1>5, <1>8, <4>1, <4>2, SkippedApart
      <3> QED
        BY <3>2, <3>3, <3>4
    <2>9. CASE s # l
      <3>1. s \in 1 .. l - 1
        BY <2>4, <2>7, <2>9
      <3>2. s <= SetAt(f, tr, l, Reaching(code[f], region[f], d, code[f][d].var))
        <4>1. code[f][j].var = code[f][d].var /\ j \in 1 .. n /\ tr[l] = code[f][d].at
          BY <1>1, <1>4, <1>5, <1>8, <2>7
        <4> QED
          BY <1>4, <1>5, <1>8, <2>2, <2>7, <3>1, <4>1, ReachingSeen
      <3>3. SetAt(f, tr, l, c) <= SetAt(f, tr, t, c)
        BY <1>6, <2>2, <2>7, SetEarlier
      <3>4. SetAt(f, tr, l, c) \in Int /\ SetAt(f, tr, t, c) \in Int
        <4>1. c \in Int
          BY <1>6
        <4>2. SetSteps(f, tr, l, c, SetAt(f, tr, l, c)) /\ SetSteps(f, tr, t, c, SetAt(f, tr, t, c))
          BY <2>2, <2>7, <4>1, SetAtSteps
        <4> QED
          <5>1. SetAt(f, tr, l, c) \in 0 .. l
            BY <4>2 DEF SetSteps
          <5>2. SetAt(f, tr, t, c) \in 0 .. t
            BY <4>2 DEF SetSteps
          <5> QED
            BY <5>1, <5>2
      <3> QED
        BY <1>1, <2>1, <2>7, <3>1, <3>2, <3>3, <3>4
    <2> QED
      BY <2>8, <2>9
  <1> QED
    BY <1>1, <1>8 DEF Sound

\* What the registers have seen depends on the code and on the region only.
LEMMA SeenStays ==
    ASSUME UNCHANGED <<flags, fn, body, code, region>>, NEW f, NEW k, NEW d
    PROVE  Seen(f, k, d)' <=> Seen(f, k, d)
  <1>1. /\ split' = split /\ read' = read /\ mod' = mod
        /\ fn' = fn /\ body' = body /\ code' = code /\ region' = region
    BY DEF flags
  <1>2. Times(f)' = Times(f) /\ \A times : Trace(f, times)' = Trace(f, times)
    BY <1>1 DEF Times, Trace
  <1>3. \A tr, t, x : SetAt(f, tr, t, x)' = SetAt(f, tr, t, x)
    BY <1>1 DEF SetAt
  <1>4. \A g : Interface(g)' = Interface(g)
    BY <1>1 DEF Interface, Fields
  <1>5. /\ \A g, ops : Having(g, ops)' = Having(g, ops)
        /\ \A g, c, S : BytesOf(g, c, S)' = BytesOf(g, c, S)
        /\ \A e, i : CalleeEnv(f, e, i)' = CalleeEnv(f, e, i)
    BY <1>1 DEF Having, BytesOf, CalleeEnv
  <1>6. \A e, j, ops : Accesses(f, e, j, ops)' = Accesses(f, e, j, ops)
    BY <1>1, <1>4, <1>5 DEF Accesses
  <1>7. \A e : Observed(f, e, k)' = Observed(f, e, k)
    BY <1>1, <1>6 DEF Observed
  <1>9. \A e, x, y : Misjudged(f, e, x, y)' <=> Misjudged(f, e, x, y)
    BY <1>1 DEF Misjudged, OffsetsDisjoint
  <1>8. Sound(f, k, d)' <=> Sound(f, k, d)
    BY <1>1, <1>2, <1>3, <1>6, <1>7, <1>9 DEF Sound
  <1> QED
    BY <1>1, <1>8 DEF Seen

\* The use that solveUses goes on to.
LEMMA NextUseSays ==
    ASSUME NEW n \in Nat, NEW cs, DOMAIN cs = 1 .. n, NEW args, NEW k, NextUse(cs, args, k)
    PROVE  /\ prev' = None
           /\ \/ phase' = "end"
              \/ phase' = "solve" /\ use' \in 1 .. n /\ IsUse(cs[use']) /\ def' = args[use']
  <1> DEFINE later == {j \in DOMAIN cs : j > k /\ IsUse(cs[j])}
  <1>1. prev' = None
    BY DEF NextUse
  <1>2. CASE later = {}
    BY <1>1, <1>2 DEF NextUse
  <1>3. CASE later # {}
    <2>1. phase' = "solve" /\ use' = Min(later) /\ def' = args[use']
      BY <1>3 DEF NextUse
    <2>2. later \in SUBSET (1 .. n)
      OBVIOUS
    <2>3. Min(later) \in later
      <3> HIDE DEF later
      <3> QED
        BY <1>3, <2>2, MaxMin
    <2>4. use' \in DOMAIN cs /\ IsUse(cs[use'])
      BY <2>1, <2>3
    <2> QED
      BY <1>1, <2>1, <2>4
  <1> QED
    BY <1>2, <1>3

\* The registers that PromoteMemToReg leaves.
LEMMA EndVisitUses ==
    ASSUME ShadowInv, MadeInv, EndVisit
    PROVE  UsesInv'
  <1>1. PICK f : f = fn
    OBVIOUS
  <1>2. f \in Function /\ DOMAIN code = Function /\ DOMAIN region = Function /\ DOMAIN arg = Function
    BY <1>1 DEF ShadowInv, OrderInv, TypeInv
  <1>0. PICK n : n = Len(body[f])
    OBVIOUS
  <1>11. f \in Function
    BY <1>2
  <1>9. /\ phase = "visit" /\ shadows' = UsedAtEnd(f) /\ ids' = IdsFor(ids, InOrder(UsedAtEnd(f)))
        /\ code' = [code EXCEPT ![f] = CodeAtEnd(f)]
        /\ \E r \in Regions(n) :
             /\ region' = [region EXCEPT ![f] = r]
             /\ IF f \in Returns
                THEN LET args == [k \in DOMAIN CodeAtEnd(f) |-> Operand(CodeAtEnd(f), r, k)]
                     IN  arg' = [arg EXCEPT ![f] = args] /\ NextUse(CodeAtEnd(f), args, 0)
                ELSE phase' = "end" /\ UNCHANGED <<arg, use, def, prev>>
        /\ UNCHANGED <<flags, todo, fn, body>>
    BY <1>0, <1>1, <1>11, EndVisitSays
  <1>10. PICK r \in Regions(n) :
           /\ region' = [region EXCEPT ![f] = r]
           /\ IF f \in Returns
              THEN LET args == [k \in DOMAIN CodeAtEnd(f) |-> Operand(CodeAtEnd(f), r, k)]
                   IN  arg' = [arg EXCEPT ![f] = args] /\ NextUse(CodeAtEnd(f), args, 0)
              ELSE phase' = "end" /\ UNCHANGED <<arg, use, def, prev>>
    BY <1>9
  <1>3. PICK cs : cs = CodeAtEnd(f)
    OBVIOUS
  <1>4. /\ region' = [region EXCEPT ![f] = r]
        /\ IF f \in Returns
           THEN LET args == [k \in DOMAIN cs |-> Operand(cs, r, k)]
                IN  arg' = [arg EXCEPT ![f] = args] /\ NextUse(cs, args, 0)
           ELSE phase' = "end" /\ UNCHANGED <<arg, use, def, prev>>
    BY <1>3, <1>10
  <1>5. code' = [code EXCEPT ![f] = cs] /\ fn' = f
    BY <1>1, <1>3, <1>9
  <1>6. code'[f] = cs /\ region'[f] = r
    BY <1>2, <1>4, <1>5
  <1>7. CASE f \notin Returns
    <2>1. phase' = "end"
      BY <1>4, <1>7
    <2>2. UsesOf(f)'
      BY <1>7, <2>1 DEF UsesOf
    <2> QED
      BY <1>5, <2>2 DEF UsesInv
  <1>8. CASE f \in Returns
    <2>1. PICK args : args = [k \in DOMAIN cs |-> Operand(cs, r, k)]
      OBVIOUS
    <2>2. arg' = [arg EXCEPT ![f] = args] /\ NextUse(cs, args, 0)
      BY <1>3, <1>4, <1>8, <2>1
    <2>3. arg'[f] = args /\ DOMAIN args = DOMAIN cs
      BY <1>2, <2>1, <2>2
    <2>4. \A k \in DOMAIN cs : cs[k].op # "in" => args[k] = Reaching(cs, r, k, cs[k].var)
      BY <2>1 DEF Operand
    <2>5. \A k \in DOMAIN cs : \A d : d = args[k] => Seen(f, k, d)'
      BY <1>6, <2>4 DEF Seen
    <2>6. \A k \in DOMAIN cs : Kept(cs[k]) => args[k] = Reaching(cs, r, k, cs[k].var)
      BY <2>4 DEF Kept, IsDef, IsInit
    <2>7. \E m \in Nat : DOMAIN cs = 1 .. m
      <3>1. ShadowInv'
        BY EndVisitInv
      <3>2. CodeInv(f)'
        BY <1>2, <3>1 DEF ShadowInv, FunctionInv
      <3>3. cs \in Seq(PseudoOps)
        BY <1>6, <3>2 DEF CodeInv
      <3> QED
        BY <3>3, LenProperties
    <2>8. PICK m \in Nat : DOMAIN cs = 1 .. m
      BY <2>7
    <2>9. /\ prev' = None
          /\ \/ phase' = "end"
             \/ phase' = "solve" /\ use' \in 1 .. m /\ IsUse(cs[use']) /\ def' = args[use']
      BY <2>2, <2>8, NextUseSays
    <2>10. phase' = "solve" => /\ IsUse(code'[f][use']) /\ prev' = None /\ def' = arg'[f][use']
                               /\ \A k \in {use'}, d \in {def'} : Seen(f, k, d)'
      <3> SUFFICES ASSUME phase' = "solve"
                   PROVE  /\ IsUse(code'[f][use']) /\ prev' = None /\ def' = arg'[f][use']
                          /\ \A k \in {use'}, d \in {def'} : Seen(f, k, d)'
        OBVIOUS
      <3>1. use' \in DOMAIN cs /\ IsUse(cs[use']) /\ def' = args[use'] /\ prev' = None
        BY <2>8, <2>9
      <3>2. \A k \in {use'}, d \in {def'} : k \in DOMAIN cs /\ d = args[k]
        BY <3>1
      <3>3. \A k \in {use'}, d \in {def'} : Seen(f, k, d)'
        BY <2>5, <3>2
      <3> QED
        BY <1>6, <2>3, <3>1, <3>3
    <2>11. \A k \in DOMAIN code'[f] : /\ k \in DOMAIN arg'[f] /\ \A d \in {arg'[f][k]} : Seen(f, k, d)'
                                      /\ Kept(code'[f][k]) =>
                                           arg'[f][k] = Reaching(code'[f], region'[f], k, code'[f][k].var)
      BY <1>6, <2>3, <2>5, <2>6
    <2>12. UsesOf(f)'
      BY <1>8, <2>10, <2>11 DEF UsesOf
    <2> QED
      BY <1>5, <2>12 DEF UsesInv
  <1> QED
    BY <1>7, <1>8

\* Going on to an earlier definition.
LEMMA SkipUses ==
    ASSUME ShadowInv, MadeInv, UsesInv, PlacesConsistent, PointersLeadToSites, SkipDef
    PROVE  UsesInv'
  <1>1. PICK f : f = fn
    OBVIOUS
  <1>2. f \in Function /\ UsesOf(f)
    BY <1>1 DEF ShadowInv, OrderInv, UsesInv
  <1>3. /\ phase = "solve" /\ def > 0 /\ MaySkip(Ops[def], Ops[use])
        /\ prev' = def /\ def' = arg[f][def]
        /\ UNCHANGED <<flags, fn, phase, body, region, code, arg, use>>
    BY <1>1 DEF SkipDef
  <1>4. \A k, d : Seen(f, k, d)' <=> Seen(f, k, d)
    BY <1>3, SeenStays
  <1>5. PICK k, d, c : k = use /\ d = def /\ c = def'
    OBVIOUS
  <1>6. f \in Returns /\ k \in DOMAIN code[f] /\ d \in DOMAIN code[f] /\ OperandOK(code[f], k, d)
    <2>1. PICK n \in Nat : n = Len(code[f]) /\ DOMAIN code[f] = 1 .. n
      BY <1>2, CodeSteps
    <2>2. k \in 1 .. n /\ d \in None .. n /\ OperandOK(code[f], k, d)
      BY <1>1, <1>3, <1>5, <2>1 DEF ShadowInv, SolveInv
    <2> QED
      BY <1>2, <1>3, <1>5, <2>1, <2>2 DEF UsesOf, None
  <1>7. IsUse(code[f][k]) /\ Seen(f, k, d) /\ IsDef(code[f][d])
    BY <1>2, <1>3, <1>5, <1>6 DEF UsesOf, OperandOK
  <1>8. c = Reaching(code[f], region[f], d, code[f][d].var)
    <2>1. Kept(code[f][d])
      BY <1>7 DEF Kept
    <2> QED
      BY <1>2, <1>3, <1>5, <1>6, <2>1 DEF UsesOf
  <1>9. c > 0 => Seen(f, k, c)
    <2> SUFFICES ASSUME c > 0 PROVE Seen(f, k, c)
      OBVIOUS
    <2>1. Sound(f, k, d)
      BY <1>2, <1>6, <1>7, SeenSound
    <2>2. MaySkip(code[f][d], code[f][k])
      BY <1>1, <1>3, <1>5 DEF Ops
    <2>3. Sound(fn, k, c)
      BY <1>1, <1>6, <1>7, <1>8, <2>1, <2>2, SkipSound
    <2> QED
      BY <1>1, <2>3 DEF Seen
  <1>10. code[f][k].ptr # NoValue
    BY <1>1, <1>3, <1>5 DEF Ops, MaySkip, Skippable, KnownPointers
  <1>11. /\ phase' = "solve" /\ use' = k /\ def' = c /\ prev' = d /\ fn' = f
         /\ code' = code /\ region' = region /\ arg' = arg
    BY <1>1, <1>3, <1>5
  <1>12. \A i \in DOMAIN code[f] :
           /\ i \in DOMAIN arg[f] /\ \A x \in {arg[f][i]} : Seen(f, i, x)
           /\ Kept(code[f][i]) => arg[f][i] = Reaching(code[f], region[f], i, code[f][i].var)
    BY <1>2, <1>3, <1>6 DEF UsesOf
  <1>13. \A i \in DOMAIN code'[f] :
           /\ i \in DOMAIN arg'[f] /\ \A x \in {arg'[f][i]} : Seen(f, i, x)'
           /\ Kept(code'[f][i]) => arg'[f][i] = Reaching(code'[f], region'[f], i, code'[f][i].var)
    BY <1>4, <1>11, <1>12
  <1>14. /\ IsUse(code'[f][use']) /\ code'[f][use'].ptr # NoValue
         /\ \A i \in {use'}, x \in {def'} : x > 0 => Seen(f, i, x)'
         /\ \A i \in {use'}, x \in {prev'} : x # None => Seen(f, i, x)'
    BY <1>4, <1>7, <1>9, <1>10, <1>11
  <1>15. UsesOf(f)'
    BY <1>6, <1>13, <1>14 DEF UsesOf
  <1> QED
    BY <1>11, <1>15 DEF UsesInv

\* A use gets its register.
LEMMA StopUses ==
    ASSUME ShadowInv, UsesInv, MadeInv, StopWalk
    PROVE  UsesInv'
  <1>1. PICK f : f = fn
    OBVIOUS
  <1>2. f \in Function /\ UsesOf(f) /\ DOMAIN arg = Function
    BY <1>1 DEF ShadowInv, OrderInv, UsesInv, TypeInv
  <1>3. PICK found, args :
          /\ found = IF def > 0 THEN def ELSE prev
          /\ args = IF found = None THEN arg[f] ELSE [arg[f] EXCEPT ![use] = found]
    OBVIOUS
  <1>4. /\ phase = "solve" /\ arg' = [arg EXCEPT ![f] = args] /\ NextUse(code[f], args, use)
        /\ UNCHANGED <<flags, fn, body, region, code>>
    BY <1>1, <1>3 DEF StopWalk, Ops
  <1>5. \A k, d : Seen(f, k, d)' <=> Seen(f, k, d)
    BY <1>4, SeenStays
  <1>6. PICK n \in Nat : n = Len(code[f]) /\ DOMAIN code[f] = 1 .. n
    BY <1>2, CodeSteps
  <1>7. /\ f \in Returns /\ IsUse(code[f][use])
        /\ def > 0 => Seen(f, use, def)
        /\ prev # None => Seen(f, use, prev)
        /\ code[f][use].ptr = NoValue => prev = None /\ def = arg[f][use]
        /\ \A k \in 1 .. n :
             /\ k \in DOMAIN arg[f] /\ Seen(f, k, arg[f][k])
             /\ Kept(code[f][k]) => arg[f][k] = Reaching(code[f], region[f], k, code[f][k].var)
    BY <1>2, <1>4, <1>6 DEF UsesOf
  <1>8. found # None => Seen(f, use, found)
    BY <1>3, <1>7
  <1>9. \A k \in 1 .. n :
          /\ k \in DOMAIN args /\ Seen(f, k, args[k])
          /\ Kept(code[f][k]) => args[k] = Reaching(code[f], region[f], k, code[f][k].var)
    <2> SUFFICES ASSUME NEW k \in 1 .. n
                 PROVE  /\ k \in DOMAIN args /\ Seen(f, k, args[k])
                        /\ Kept(code[f][k]) => args[k] = Reaching(code[f], region[f], k, code[f][k].var)
      OBVIOUS
    <2>1. DOMAIN args = DOMAIN arg[f] /\ (k # use \/ found = None => args[k] = arg[f][k])
      BY <1>3
    <2>2. CASE k # use \/ found = None
      BY <1>7, <2>1, <2>2
    <2>3. CASE k = use /\ found # None
      <3>1. args[k] = found
        BY <1>3, <1>7, <2>3
      <3>2. Kept(code[f][k]) => found = arg[f][k]
        <4>1. Kept(code[f][k]) => code[f][k].ptr = NoValue
          BY <1>7, <2>3 DEF Kept, IsUse
        <4> QED
          BY <1>3, <1>7, <2>3, <4>1
      <3> QED
        BY <1>7, <1>8, <2>1, <2>3, <3>1, <3>2
    <2> QED
      BY <2>2, <2>3
  <1>10. arg'[f] = args /\ code' = code /\ region' = region /\ fn' = f
    BY <1>1, <1>2, <1>4
  <1>11. /\ prev' = None
         /\ \/ phase' = "end"
            \/ phase' = "solve" /\ use' \in 1 .. n /\ IsUse(code[f][use']) /\ def' = args[use']
    BY <1>4, <1>6, NextUseSays
  <1>12. phase' = "solve" => /\ IsUse(code'[f][use']) /\ prev' = None /\ def' = arg'[f][use']
                             /\ \A k \in {use'}, d \in {def'} : Seen(f, k, d)'
    <2> SUFFICES ASSUME phase' = "solve"
                 PROVE  /\ IsUse(code'[f][use']) /\ prev' = None /\ def' = arg'[f][use']
                        /\ \A k \in {use'}, d \in {def'} : Seen(f, k, d)'
      OBVIOUS
    <2>1. \A k \in {use'}, d \in {def'} : k \in 1 .. n /\ d = args[k]
      BY <1>11
    <2>2. \A k \in {use'}, d \in {def'} : Seen(f, k, d)
      BY <1>9, <2>1
    <2>3. \A k \in {use'}, d \in {def'} : Seen(f, k, d)'
      BY <1>5, <2>2
    <2> QED
      BY <1>10, <1>11, <2>3
  <1>13. \A k \in DOMAIN code'[f] :
           /\ k \in DOMAIN arg'[f] /\ \A d \in {arg'[f][k]} : Seen(f, k, d)'
           /\ Kept(code'[f][k]) => arg'[f][k] = Reaching(code'[f], region'[f], k, code'[f][k].var)
    BY <1>5, <1>6, <1>9, <1>10
  <1>14. UsesOf(f)'
    BY <1>7, <1>12, <1>13 DEF UsesOf
  <1> QED
    BY <1>10, <1>14 DEF UsesInv

LEMMA UsesNext ==
    ASSUME ShadowInv, MadeInv, UsesInv, PlacesConsistent, PointersLeadToSites, [Next]_vars
    PROVE  UsesInv'
  <1>1. CASE EndVisit
    BY <1>1, EndVisitUses
  <1>2. CASE SkipDef
    BY <1>2, SkipUses
  <1>3. CASE StopWalk
    BY <1>3, StopUses
  <1>4. ASSUME phase' \in {"begin", "visit", "done"} PROVE UsesInv'
    BY <1>4 DEF UsesInv, UsesOf
  <1>5. CASE BeginFunction
    BY <1>4, <1>5 DEF BeginFunction
  <1>6. ASSUME NEW i, NEW reads, NEW writes, NEW ps, NEW touched,
               VisitTouching(i, reads, writes, ps, touched)
        PROVE  UsesInv'
    BY <1>4, <1>6 DEF VisitTouching
  <1>7. ASSUME NEW i \in Instruction[fn],
               \/ VisitLoadInst(i) \/ VisitStoreInst(i) \/ VisitAllocation(i)
               \/ VisitCalloc(i) \/ VisitMemSetInst(i) \/ VisitMemTransferInst(i)
               \/ VisitMemhavoc(i) \/ VisitShadowQuery(i) \/ VisitGetShadowMem(i)
               \/ VisitShadowUpdate(i) \/ VisitFree(i) \/ VisitDsaCallSite(i)
        PROVE  UsesInv'
    <2>1. ASSUME NEW reads, NEW writes, NEW ps, Visit(i, reads, writes, ps) PROVE UsesInv'
      BY <1>6, <2>1 DEF Visit
    <2>2. CASE VisitLoadInst(i)
      BY <2>1, <2>2 DEF VisitLoadInst
    <2>3. CASE VisitStoreInst(i)
      BY <2>1, <2>3 DEF VisitStoreInst
    <2>4. CASE VisitAllocation(i) \/ VisitCalloc(i) \/ VisitMemSetInst(i) \/ VisitMemTransferInst(i)
      BY <2>1, <2>4 DEF VisitAllocation, VisitCalloc, VisitMemSetInst, VisitMemTransferInst
    <2>5. CASE VisitMemhavoc(i) \/ VisitShadowQuery(i) \/ VisitGetShadowMem(i)
      BY <2>1, <2>5 DEF VisitMemhavoc, VisitShadowQuery, VisitGetShadowMem, Query
    <2>6. CASE VisitShadowUpdate(i) \/ VisitFree(i)
      BY <2>1, <2>6 DEF VisitShadowUpdate, VisitFree, Update
    <2>7. CASE VisitDsaCallSite(i)
      BY <1>6, <2>7 DEF VisitDsaCallSite
    <2> QED
      BY <1>7, <2>2, <2>3, <2>4, <2>5, <2>6, <2>7
  <1>8. CASE EndFunction
    <2>1. phase' \in {"begin", "done"}
      BY <1>8 DEF EndFunction
    <2> QED
      BY <1>4, <2>1
  <1>9. CASE UNCHANGED vars
    <2>1. /\ UNCHANGED <<flags, fn, body, code, region>>
          /\ phase' = phase /\ code' = code /\ region' = region /\ arg' = arg
          /\ use' = use /\ def' = def /\ prev' = prev /\ fn' = fn
      BY <1>9 DEF vars, flags
    <2>2. \A f, k, d : Seen(f, k, d)' <=> Seen(f, k, d)
      BY <2>1, SeenStays
    <2>3. \A f : UsesOf(f)' <=> UsesOf(f)
      BY <2>1, <2>2 DEF UsesOf
    <2> QED
      BY <2>1, <2>3 DEF UsesInv
  <1> QED
    BY <1>1, <1>2, <1>3, <1>5, <1>7, <1>8, <1>9 DEF Next

-----------------------------------------------------------------------------
(* What instructions write and read is seen by their pseudo-instructions    *)

\* An access of a callee that is not hidden is one of a field that its caller may see.
LEMMA CalleeField ==
    ASSUME ShadowInv, MadeInv, NEW g \in Function, NEW j \in DOMAIN code[g], NEW p,
           p = code[g][j], p.op \in Reading \cup Writing, p.var[1] \in Reach(g),
           j \notin Hidden(g)
    PROVE  /\ p.op \in Writing => p.var[1] \in mod
           /\ \E idx \in DOMAIN Interface(g) : Interface(g)[idx] = p.var
  <1>1. p.op \in AccessOps /\ j \in Having(g, Reading \cup Writing)
    BY DEF AccessOps, Reading, Writing, Having
  <1>2. PICK i : i = body[g][p.at]
    OBVIOUS
  <1>3. OfAccess(i, p, read, mod) /\ p.var = ShadowOf(Cell[g][p.ptr])
    BY <1>1, <1>2, AccessSays
  <1>4. PICK n, o : n = p.var[1] /\ o = p.var[2] /\ p.var = <<n, o>>
    <2>1. PICK m, x : ShadowOf(Cell[g][p.ptr]) = <<m, x>>
      BY DEF ShadowOf
    <2>2. p.var = <<m, x>>
      BY <1>3, <2>1
    <2>3. p.var[1] = m /\ p.var[2] = x
      BY <2>2
    <2> QED
      BY <2>2, <2>3
  <1>5. o \in Fields(n)
    BY <1>1, <1>4 DEF Hidden
  <1>6. i.op \in Unmarking => n \in (IF p.op \in Writing THEN mod ELSE read \cup mod)
    BY <1>1, <1>2, <1>4 DEF Hidden
  <1>7. Queries \subseteq Unmarking /\ Updates \subseteq Unmarking
    BY DEF Queries, Updates, Unmarking
  <1>8. n \in read \cup mod /\ (p.op \in Writing => n \in mod)
    <2>1. CASE p.op \in Writing
      <3>1. p.op = "store"
        BY <2>1 DEF Writing
      <3>2. n \in mod \/ i.op \in Updates
        BY <1>3, <1>4, <3>1 DEF OfAccess
      <3> QED
        BY <1>6, <1>7, <2>1, <3>2
    <2>2. CASE p.op \notin Writing
      <3>1. p.op # "store"
        BY <2>2 DEF Writing
      <3>2. n \in read \/ i.op \in Queries
        BY <1>3, <1>4, <3>1 DEF OfAccess
      <3> QED
        BY <1>6, <1>7, <2>2, <3>2
    <2> QED
      BY <2>1, <2>2
  <1>9. p.var \in FieldsOf(g)
    <2>1. p.var \in {n} \X Fields(n)
      BY <1>4, <1>5
    <2> QED
      BY <1>4, <1>8, <2>1 DEF FieldsOf
  <1>10. ToSet(Interface(g)) = FieldsOf(g)
    BY InterfaceLists
  <1> QED
    BY <1>4, <1>8, <1>9, <1>10 DEF ToSet

\* The pseudo-instruction of a call for a field that the callee accesses.
LEMMA CallHasOp ==
    ASSUME ShadowInv, NEW f \in Function, NEW at \in DOMAIN body[f], body[f][at].op = "call",
           NEW g, g = body[f][at].callee, NEW idx \in DOMAIN Interface(g),
           NEW x, x = Interface(g)[idx]
    PROVE  /\ x[1] \in mod =>
                \E k \in OpsAt(f, at) : code[f][k].idx = idx /\ code[f][k].op \in {"arg_mod", "arg_new"}
           /\ x[1] \notin OnlyReturned(g) =>
                \E k \in OpsAt(f, at) : code[f][k].idx = idx /\ code[f][k].op \in {"arg_ref", "arg_mod"}
  <1>1. CallSays(g, ToSet(code[f]), at)
    BY DEF ShadowInv, FunctionInv, CallsInv
  <1>2. ASSUME NEW names, <<idx, ShadowOf(InCaller(x))>> \in Says(ToSet(code[f]), at, names)
        PROVE  \E k \in OpsAt(f, at) : code[f][k].idx = idx /\ code[f][k].op \in names
    <2>1. PICK p \in ToSet(code[f]) : p.op \in names /\ p.at = at /\ p.idx = idx
      BY <1>2 DEF Says
    <2>2. PICK k \in DOMAIN code[f] : code[f][k] = p
      BY <2>1 DEF ToSet
    <2> QED
      BY <2>1, <2>2 DEF OpsAt
  <1>3. x[1] \in mod => <<idx, ShadowOf(InCaller(x))>> \in Passed(g, Changed(g))
    BY DEF Passed, Changed
  <1>4. x[1] \notin OnlyReturned(g) => <<idx, ShadowOf(InCaller(x))>> \in Passed(g, Received(g))
    BY DEF Passed, Received
  <1> QED
    BY <1>1, <1>2, <1>3, <1>4 DEF CallSays

\* What an instruction writes openly, a definition stands for.
LEMMA WrittenDefined ==
    ASSUME ShadowInv, MadeInv, NEW f \in Function, NEW e \in Env[f],
           NEW at, NEW b \in WrittenOpenly(f, e, at)
    PROVE  \E j \in OpsAt(f, at) : IsDef(code[f][j]) /\ b \in Accesses(f, e, j, Writing)
  <1>1. CASE ~IsCall(f, at)
    <2>1. PICK j \in OpsAt(f, at) : code[f][j].op \in Writing /\ b \in Bytes(e, code[f][j].ptr, code[f][j].bytes)
      BY <1>1 DEF WrittenOpenly, Written, BytesOf
    <2>2. Accesses(f, e, j, Writing) = Bytes(e, code[f][j].ptr, code[f][j].bytes)
      BY <2>1, DirectAccess
    <2>3. IsDef(code[f][j])
      BY <2>1 DEF Writing, IsDef
    <2> QED
      BY <2>1, <2>2, <2>3
  <1>2. CASE IsCall(f, at)
    <2>1. PICK call, g : call = body[f][at] /\ g = call.callee
      OBVIOUS
    <2>2. at \in DOMAIN body[f] /\ call.op = "call" /\ call \in Instruction[f] /\ g \in Function
      <3>1. at \in DOMAIN body[f] /\ call.op = "call"
        BY <1>2, <2>1 DEF IsCall
      <3>2. body[f] \in Seq(Instruction[f])
        BY DEF ShadowInv, FunctionInv, BodyInv
      <3> QED
        BY <2>1, <3>1, <3>2, InstructionAssumption
    <2>3. PICK c \in Called(call, e), j \in ToNodes(g, Writing, Reach(g)) \ Hidden(g) :
            b \in Bytes(c, code[g][j].ptr, code[g][j].bytes)
      BY <1>2, <2>1 DEF WrittenOpenly, BytesOf, CalleeEnv
    <2>4. PICK p : p = code[g][j]
      OBVIOUS
    <2>5. /\ j \in Having(g, Writing) /\ j \in DOMAIN code[g] /\ p.op \in Writing
          /\ p.var[1] \in Reach(g) /\ j \notin Hidden(g)
      BY <2>3, <2>4 DEF ToNodes, Having
    <2>7. p.var[1] \in mod /\ \E idx \in DOMAIN Interface(g) : Interface(g)[idx] = p.var
      BY <2>2, <2>4, <2>5, CalleeField
    <2>8. PICK idx \in DOMAIN Interface(g) : Interface(g)[idx] = p.var
      BY <2>7
    <2>9. PICK k \in OpsAt(f, at) : code[f][k].idx = idx /\ code[f][k].op \in {"arg_mod", "arg_new"}
      <3>1. PICK x : x = Interface(g)[idx]
        OBVIOUS
      <3>2. x[1] \in mod
        BY <2>7, <2>8, <3>1
      <3>3. /\ x[1] \in mod =>
                 \E k \in OpsAt(f, at) : code[f][k].idx = idx /\ code[f][k].op \in {"arg_mod", "arg_new"}
            /\ x[1] \notin OnlyReturned(g) =>
                 \E k \in OpsAt(f, at) : code[f][k].idx = idx /\ code[f][k].op \in {"arg_ref", "arg_mod"}
        <4>1. at \in DOMAIN body[f] /\ body[f][at].op = "call" /\ g = body[f][at].callee
          BY <2>1, <2>2
        <4> QED
          BY <3>1, <4>1, CallHasOp
      <3> QED
        BY <3>2, <3>3
    <2>10. ByCallee(call, e, g, Writing, Interface(g)[code[f][k].idx], b)
      BY <2>3, <2>4, <2>5, <2>8, <2>9 DEF ByCallee
    <2>11. b \in Accesses(f, e, k, Writing)
      <3>1. PICK q : q = code[f][k]
        OBVIOUS
      <3>2. q.op \in CallOps /\ call = body[f][q.at]
        BY <2>1, <2>9, <3>1 DEF CallOps, OpsAt
      <3>3. ByCallee(call, e, g, Writing, Interface(g)[q.idx], b)
        BY <2>10, <3>1
      <3> QED
        BY <2>1, <3>1, <3>2, <3>3, AccessCases
    <2>12. IsDef(code[f][k])
      BY <2>9 DEF IsDef
    <2> QED
      BY <2>11, <2>12
  <1> QED
    BY <1>1, <1>2

\* What an instruction reads openly, a pseudo-instruction of it reads.
LEMMA ReadObserved ==
    ASSUME ShadowInv, MadeInv, NEW f \in Function, NEW e \in Env[f],
           NEW at, NEW b \in ReadOpenly(f, e, at)
    PROVE  \E k \in OpsAt(f, at) : b \in Observed(f, e, k)
  <1>1. CASE ~IsCall(f, at)
    BY <1>1 DEF ReadOpenly, ReadAt
  <1>2. CASE IsCall(f, at)
    <2>1. PICK call, g : call = body[f][at] /\ g = call.callee
      OBVIOUS
    <2>2. at \in DOMAIN body[f] /\ call.op = "call" /\ call \in Instruction[f] /\ g \in Function
      <3>1. at \in DOMAIN body[f] /\ call.op = "call"
        BY <1>2, <2>1 DEF IsCall
      <3>2. body[f] \in Seq(Instruction[f])
        BY DEF ShadowInv, FunctionInv, BodyInv
      <3> QED
        BY <2>1, <3>1, <3>2, InstructionAssumption
    <2>3. PICK c \in Called(call, e),
               j \in ToNodes(g, Reading, Reachable(Inputs[g])) \ Hidden(g) :
            b \in Bytes(c, code[g][j].ptr, code[g][j].bytes)
      BY <1>2, <2>1 DEF ReadOpenly, BytesOf, CalleeEnv
    <2>4. PICK p : p = code[g][j]
      OBVIOUS
    <2>5. /\ j \in Having(g, Reading) /\ j \in DOMAIN code[g] /\ p.op \in Reading
          /\ p.var[1] \in Reachable(Inputs[g]) /\ j \notin Hidden(g)
      BY <2>3, <2>4 DEF ToNodes, Having
    <2>7. p.var[1] \in Reach(g) /\ p.var[1] \notin OnlyReturned(g)
      BY <2>5 DEF Reach, OnlyReturned
    <2>8. PICK idx \in DOMAIN Interface(g) : Interface(g)[idx] = p.var
      BY <2>2, <2>4, <2>5, <2>7, CalleeField
    <2>9. PICK k \in OpsAt(f, at) : code[f][k].idx = idx /\ code[f][k].op \in {"arg_ref", "arg_mod"}
      <3>1. PICK x : x = Interface(g)[idx]
        OBVIOUS
      <3>2. x[1] \notin OnlyReturned(g)
        BY <2>7, <2>8, <3>1
      <3>3. /\ x[1] \in mod =>
                 \E k \in OpsAt(f, at) : code[f][k].idx = idx /\ code[f][k].op \in {"arg_mod", "arg_new"}
            /\ x[1] \notin OnlyReturned(g) =>
                 \E k \in OpsAt(f, at) : code[f][k].idx = idx /\ code[f][k].op \in {"arg_ref", "arg_mod"}
        <4>1. at \in DOMAIN body[f] /\ body[f][at].op = "call" /\ g = body[f][at].callee
          BY <2>1, <2>2
        <4> QED
          BY <3>1, <4>1, CallHasOp
      <3> QED
        BY <3>2, <3>3
    <2>10. ByCallee(call, e, g, Reading, Interface(g)[code[f][k].idx], b)
      BY <2>3, <2>4, <2>5, <2>8, <2>9 DEF ByCallee
    <2>11. b \in Accesses(f, e, k, Reading)
      <3>1. PICK q : q = code[f][k]
        OBVIOUS
      <3>2. q.op \in CallOps /\ call = body[f][q.at]
        BY <2>1, <2>9, <3>1 DEF CallOps, OpsAt
      <3>3. ByCallee(call, e, g, Reading, Interface(g)[q.idx], b)
        BY <2>10, <3>1
      <3> QED
        BY <2>1, <3>1, <3>2, <3>3, AccessCases
    <2>12. Observed(f, e, k) = Accesses(f, e, k, Reading)
      <3>1. code[f][k].op # "out"
        BY <2>9
      <3> QED
        BY <3>1 DEF Observed
    <2> QED
      BY <2>11, <2>12
  <1> QED
    BY <1>1, <1>2

\* What is observed belongs to the variable of the pseudo-instruction that writes it.
LEMMA ObservedVariable ==
    ASSUME ShadowInv, MadeInv, PlacesConsistent, NEW f \in Function, NEW e \in Env[f],
           NEW j \in DOMAIN code[f], NEW k \in DOMAIN code[f], NEW b,
           b \in Accesses(f, e, j, Writing), b \in Observed(f, e, k)
    PROVE  code[f][j].var = code[f][k].var
  <1>1. CASE code[f][k].op = "out"
    <2>1. PICK d \in DOMAIN code[f] : /\ code[f][d].var = code[f][k].var
                                      /\ b \in Accesses(f, e, d, Writing)
      BY <1>1 DEF Observed
    <2>2. code[f][j].var = code[f][d].var
      BY <2>1, SameVariable
    <2> QED
      BY <2>1, <2>2
  <1>2. CASE code[f][k].op # "out"
    <2>1. b \in Accesses(f, e, k, Reading)
      BY <1>2 DEF Observed
    <2> QED
      BY <2>1, SameVariable
  <1> QED
    BY <1>1, <1>2

-----------------------------------------------------------------------------
(* The registers are set in time                                            *)

\* What enters an instruction was set before it, and not before the last write.
LEMMA EntersInTime ==
    ASSUME ShadowInv, MadeInv, NEW f \in Function, UsesOf(f), phase = "end", f \in Returns,
           NEW e \in Env[f], NEW times \in Times(f), NEW tr, tr = Trace(f, times),
           NEW t \in DOMAIN tr, NEW s \in 1 .. t - 1,
           NEW k \in DOMAIN code[f], NEW j \in DOMAIN code[f],
           tr[t] = code[f][k].at, tr[s] = code[f][j].at,
           IsDef(code[f][j]), code[f][j].var = code[f][k].var,
           NEW b, b \in Accesses(f, e, j, Writing), b \in Observed(f, e, k),
           ~Misjudged(f, e, code[f][j], code[f][k])
    PROVE  SetAt(f, tr, t, Entering(f, k)) \in s .. t - 1
  <1>1. PICK n, N, at : n = Len(code[f]) /\ N = Len(body[f]) /\ at = code[f][k].at
    OBVIOUS
  <1>2. /\ n \in Nat /\ DOMAIN code[f] = 1 .. n /\ N \in Nat /\ DOMAIN body[f] = 1 .. N
        /\ \A i \in 1 .. n : code[f][i].at \in Nat
        /\ Sorted(code[f]) /\ RegionOK(region[f], N) /\ StepsInOrder(tr, N, region[f])
    BY <1>1, CodeSteps
  <1>3. BodyInv(f) /\ CodeInv(f) /\ InPlace(code[f])
    BY DEF ShadowInv, FunctionInv, MadeInv
  <1>4. \A i \in DOMAIN code[f] : Made(body[f], code[f][i], read, mod)
    BY DEF MadeInv, ToSet
  <1>5. \A i \in DOMAIN code[f] :
          /\ i \in DOMAIN arg[f] /\ Seen(f, i, arg[f][i]) /\ OperandOK(code[f], i, arg[f][i])
          /\ Kept(code[f][i]) => arg[f][i] = Reaching(code[f], region[f], i, code[f][i].var)
          /\ arg[f][i] \in Int
    <2>1. \A i \in DOMAIN code[f] :
            /\ i \in DOMAIN arg[f] /\ Seen(f, i, arg[f][i])
            /\ Kept(code[f][i]) => arg[f][i] = Reaching(code[f], region[f], i, code[f][i].var)
      BY DEF UsesOf
    <2>2. \A i \in DOMAIN arg[f] : OperandOK(code[f], i, arg[f][i])
      BY <1>3 DEF BodyInv
    <2>3. \A i \in DOMAIN arg[f] : arg[f][i] \in Int
      <3>1. CASE arg[f] = <<>>
        BY <3>1
      <3>2. CASE arg[f] \in [1 .. n -> None .. n]
        <4>1. \A i \in DOMAIN arg[f] : arg[f][i] \in None .. n
          BY <3>2
        <4> QED
          BY <1>2, <4>1 DEF None
      <3> QED
        BY <1>1, <1>3, <3>1, <3>2 DEF BodyInv
    <2> QED
      BY <2>1, <2>2, <2>3
  <1>6. ASSUME NEW d \in Int, s <= SetAt(f, tr, t, d), d > 0 => code[f][d].at # tr[t]
        PROVE  SetAt(f, tr, t, d) \in s .. t - 1
    <2>1. PICK l : l = SetAt(f, tr, t, d)
      OBVIOUS
    <2>2. SetSteps(f, tr, t, d, l)
      BY <1>2, <2>1, SetAtSteps
    <2>3. l \in 0 .. t /\ l <= t - 1
      BY <1>6, <2>2 DEF SetSteps
    <2>4. t \in Nat
      BY <1>2 DEF StepsInOrder
    <2> QED
      BY <1>6, <2>1, <2>3, <2>4
  <1>7. at \in 1 .. N + 1
    BY <1>1, <1>2 DEF StepsInOrder
  <1>8. CASE ~IsCall(f, at)
    <2>1. PICK d : d = arg[f][k]
      OBVIOUS
    <2>2. Entering(f, k) = d
      BY <1>1, <1>8, <2>1 DEF Entering
    <2>3. s <= SetAt(f, tr, t, d)
      <3>1. Sound(f, k, d)
        BY <1>5, <2>1, SeenSound
      <3> QED
        BY <3>1 DEF Sound
    <2>4. ASSUME d > 0, code[f][d].at = at PROVE FALSE
      <3>1. d \in Int /\ OperandOK(code[f], k, d)
        BY <1>5, <2>1
      <3>2. d < k /\ IsDef(code[f][d]) /\ d \in 1 .. n
        BY <1>2, <2>4, <3>1 DEF OperandOK
      <3>3. code[f][d].op # "store"
        BY <1>1, <1>2, <1>3, <2>4, <3>2 DEF InPlace, Before
      <3>4. Made(body[f], code[f][d], read, mod)
        BY <1>2, <1>4, <3>2
      <3>5. CASE Initial(code[f][d])
        BY <1>2, <1>7, <2>4, <3>5 DEF Initial
      <3>6. CASE Marker(code[f][d], Len(body[f]) + 1)
        BY <3>2, <3>6 DEF Marker, IsDef, IsInit
      <3>7. CASE at \in DOMAIN body[f] /\ OfInstruction(body[f][at], code[f][d], read, mod)
        <4>1. OfAccess(body[f][at], code[f][d], read, mod)
          BY <1>8, <3>7 DEF OfInstruction, OfCall, IsCall
        <4> QED
          BY <3>2, <3>3, <4>1 DEF OfAccess, AccessOps, IsDef, IsInit
      <3> QED
        BY <2>4, <3>4, <3>5, <3>6, <3>7 DEF Made
    <2>5. d \in Int
      BY <1>5, <2>1
    <2> QED
      BY <1>1, <1>6, <2>2, <2>3, <2>4, <2>5
  <1>9. CASE IsCall(f, at)
    <2> DEFINE same == {i \in OpsAt(f, at) : code[f][i].var = code[f][k].var}
    <2>1. PICK m : m = Min(same)
      OBVIOUS
    <2>2. k \in same /\ same \in SUBSET (1 .. n)
      BY <1>1, <1>2 DEF OpsAt
    <2>3. m \in same /\ \A i \in same : m <= i
      <3> HIDE DEF same
      <3> QED
        BY <1>2, <2>1, <2>2, MaxMin
    <2>4. m \in 1 .. n /\ code[f][m].at = at /\ code[f][m].var = code[f][k].var
      BY <1>2, <2>3 DEF OpsAt
    <2>5. Entering(f, k) = arg[f][m]
      BY <1>1, <1>9, <2>1 DEF Entering
    <2>6. Kept(code[f][m])
      <3>1. Made(body[f], code[f][m], read, mod)
        BY <1>2, <1>4, <2>4
      <3>2. at \in DOMAIN body[f] /\ body[f][at].op = "call"
        BY <1>9 DEF IsCall
      <3>3. ~Initial(code[f][m])
        BY <1>2, <1>7, <2>4 DEF Initial
      <3>4. ~Marker(code[f][m], Len(body[f]) + 1)
        <4>1. at # N + 1
          BY <1>2, <3>2
        <4> QED
          BY <1>1, <2>4, <4>1 DEF Marker
      <3>5. OfCall(body[f][at], code[f][m])
        BY <2>4, <3>1, <3>2, <3>3, <3>4 DEF Made, OfInstruction, OfAccess
      <3> QED
        BY <3>5 DEF OfCall, CallOps, Kept
    <2>7. PICK d : d = arg[f][m]
      OBVIOUS
    <2>8. d \in Int /\ d = Reaching(code[f], region[f], m, code[f][m].var) /\ OperandOK(code[f], m, d)
      BY <1>2, <1>5, <2>4, <2>6, <2>7
    <2>9. s <= SetAt(f, tr, t, d)
      <3>1. tr[t] = code[f][m].at /\ code[f][j].var = code[f][m].var /\ j \in 1 .. n
        BY <1>1, <1>2, <2>4
      <3>2. s <= SetAt(f, tr, t, Reaching(code[f], region[f], m, code[f][m].var))
        BY <1>2, <2>4, <3>1, ReachingSeen
      <3> QED
        BY <2>8, <3>2
    <2>10. ASSUME d > 0, code[f][d].at = at PROVE FALSE
      <3>1. d < m /\ d \in 1 .. n /\ code[f][d].var = code[f][k].var
        BY <1>2, <2>4, <2>8, <2>10 DEF OperandOK
      <3>2. d \in same
        BY <1>2, <2>10, <3>1 DEF OpsAt
      <3>3. m <= d
        BY <2>3, <3>2
      <3> QED
        BY <1>2, <2>4, <3>1, <3>3
    <2> HIDE DEF same
    <2> QED
      BY <1>1, <1>6, <2>5, <2>7, <2>8, <2>9, <2>10
  <1> QED
    BY <1>8, <1>9

\* Uses see what was written.
LEMMA UsesFollow ==
    ASSUME ShadowInv, MadeInv, UsesInv, PlacesConsistent
    PROVE  WritesSeen
  <1> SUFFICES ASSUME phase = "end", fn \in Returns, NEW e \in Env[fn], NEW n \in Times(fn),
                      NEW t \in DOMAIN Trace(fn, n),
                      NEW x \in UNION {{i} \X ReadOpenly(fn, e, i) : i \in 1 .. Len(body[fn]) + 1},
                      x[1] = Trace(fn, n)[t], NEW s \in 1 .. t - 1,
                      <<Trace(fn, n)[s], x[2]>> \in
                          UNION {{i} \X WrittenOpenly(fn, e, i) : i \in 1 .. Len(body[fn]) + 1}
               PROVE  \/ \E k \in OpsAt(fn, Trace(fn, n)[t]) :
                           /\ <<k, x[2]>> \in UNION {{i} \X Observed(fn, e, i) : i \in DOMAIN code[fn]}
                           /\ SetAt(fn, Trace(fn, n), t, Entering(fn, k)) \in s .. t - 1
                      \/ \E d \in OpsAt(fn, Trace(fn, n)[s]), k \in OpsAt(fn, Trace(fn, n)[t]) :
                           Misjudged(fn, e, code[fn][d], code[fn][k])
    BY DEF WritesSeen
  <1>1. PICK f, tr, b : f = fn /\ tr = Trace(fn, n) /\ b = x[2]
    OBVIOUS
  <1>2. f \in Function /\ UsesOf(f)
    BY <1>1 DEF ShadowInv, OrderInv, UsesInv
  <1>3. b \in ReadOpenly(f, e, tr[t])
    BY <1>1
  <1>4. b \in WrittenOpenly(f, e, tr[s])
    BY <1>1
  <1>5. PICK j \in OpsAt(f, tr[s]) : IsDef(code[f][j]) /\ b \in Accesses(f, e, j, Writing)
    BY <1>1, <1>2, <1>4, WrittenDefined
  <1>6. PICK k \in OpsAt(f, tr[t]) : b \in Observed(f, e, k)
    BY <1>1, <1>2, <1>3, ReadObserved
  <1>7. /\ j \in DOMAIN code[f] /\ tr[s] = code[f][j].at
        /\ k \in DOMAIN code[f] /\ tr[t] = code[f][k].at
    BY <1>5, <1>6 DEF OpsAt
  <1>8. CASE Misjudged(f, e, code[f][j], code[f][k])
    BY <1>1, <1>5, <1>6, <1>8
  <1>9. CASE ~Misjudged(f, e, code[f][j], code[f][k])
    <2>1. code[f][j].var = code[f][k].var
      BY <1>1, <1>2, <1>5, <1>6, <1>7, ObservedVariable
    <2>2. f \in Returns /\ e \in Env[f] /\ n \in Times(f) /\ tr = Trace(f, n) /\ t \in DOMAIN tr
      BY <1>1
    <2>3. SetAt(f, tr, t, Entering(f, k)) \in s .. t - 1
      BY <1>2, <1>5, <1>6, <1>7, <1>9, <2>1, <2>2, EntersInTime
    <2>4. <<k, b>> \in UNION {{i} \X Observed(f, e, i) : i \in DOMAIN code[f]}
      BY <1>6, <1>7
    <2> QED
      BY <1>1, <1>6, <2>3, <2>4
  <1> QED
    BY <1>8, <1>9

LEMMA UsesInit ==
    ASSUME Init
    PROVE  UsesInv
  <1>1. phase = "begin"
    BY DEF Init
  <1> QED
    BY <1>1 DEF UsesInv, UsesOf

\* In executions that the graphs are right about, every use sees what was written to the
\* bytes that it reads, but for what mayClobber misjudges and callees hide, whatever
\* functions, options and answers of LLVM's analyses there are (solveUses and
\* mayClobber, ShadowMem.cc).
THEOREM WritesAreSeen ==
    ASSUME PlacesConsistent, PointersLeadToSites
    PROVE  Spec => []WritesSeen
  <1>1. Init => ShadowInv /\ MadeInv /\ UsesInv
    BY InitInv, MadeInit, UsesInit
  <1>2. ShadowInv /\ MadeInv /\ UsesInv /\ [Next]_vars => (ShadowInv /\ MadeInv /\ UsesInv)'
    BY NextInv, MadeNext, UsesNext
  <1>3. ShadowInv /\ MadeInv /\ UsesInv => WritesSeen
    BY UsesFollow
  <1> QED
    BY <1>1, <1>2, <1>3, PTL DEF Spec
=============================================================================
