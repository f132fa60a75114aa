---------------------------- MODULE ClosureProofs ----------------------------
(* What the closure over call sites computes, for every call graph, every graph and
   every order of the worklist: it forgets nobody (ClosureForgetsNobody), its
   traversals reach all that corresponds at an aligned call site (ClosureAgrees),
   and labels spread exactly as far as nodes are connected (ClosureExact).  *)
EXTENDS ClosureReference, Induction, FiniteSetTheorems, SequenceTheorems, TLAPS

\* the pair of nodes that MergePair merges
Left == Head(todo)[1].node
Right == Head(todo)[2].node

\* The next pair that is not skipped has a node on either side of the call.
LEMMA MergedNodes ==
    ASSUME TypeOK, at = "merge", todo # <<>>, ~Missing(Head(todo))
    PROVE  /\ current \in CallSite
           /\ Left \in NodesOf(Callee[current])
           /\ Right \in NodesOf(Caller[current])
  <1>1. current \in CallSite
    BY DEF TypeOK
  <1>2. Head(todo) \in Links(Callee[current]) \X Links(Caller[current])
    <2>1. todo \in Seq(Links(Callee[current]) \X Links(Caller[current]))
      BY DEF TypeOK
    <2> QED
      BY <2>1, HeadTailProperties
  <1>3. Head(todo)[1] \in CellsOf(Callee[current])
        /\ Head(todo)[2] \in CellsOf(Caller[current])
    BY <1>2 DEF Missing, Links
  <1> QED
    BY <1>1, <1>3 DEF CellsOf, Left, Right

\* The calls of the recursion stay in the two graphs.
LEMMA LinkPairsType ==
    ASSUME LinksOK(link), NEW g, NEW h, NEW n1 \in NodesOf(g), NEW n2 \in NodesOf(h)
    PROVE  LinkPairs(n1, n2) \in Seq(Links(g) \X Links(h))
  <1>1. link[n1] \in [Field -> Links(g)] /\ link[n2] \in [Field -> Links(h)]
    BY DEF LinksOK, NodesOf
  <1>2. \A i \in 1 .. MaxField + 1 : i - 1 \in Field
    BY FieldAssumption DEF Field
  <1>3. MaxField + 1 \in Nat
    BY FieldAssumption
  <1>4. LinkPairs(n1, n2) \in [1 .. MaxField + 1 -> Links(g) \X Links(h)]
    BY <1>1, <1>2 DEF LinkPairs
  <1> QED
    BY <1>3, <1>4, SeqDef

\* Merging gives a label.
LEMMA MergedType ==
    ASSUME op \in {"AllocaSite", "UniqueScalar"}, NEW a \in Label, NEW b \in Label
    PROVE  Merged(a, b) \in Label
  <1>1. CASE op = "AllocaSite"
    BY <1>1 DEF Label, Merged, MergedSites
  <1>2. CASE op = "UniqueScalar"
    BY <1>2 DEF Label, Merged, MergedScalar
  <1> QED
    BY <1>1, <1>2

\* Only call sites are dependents.
LEMMA DependentsType == Dependents \subseteq CallSite
  BY DEF Dependents, getUses, getDefs

\* WorkList::enqueue: everything asked for waits afterwards, with what waited
\* before, and nothing twice.
LEMMA Enqueued ==
    ASSUME NEW S, S \subseteq CallSite, Enqueue(S),
           queue \in Seq(CallSite),
           \A i, k \in 1 .. Len(queue) : queue[i] = queue[k] => i = k
    PROVE  /\ queue' \in Seq(CallSite)
           /\ \A i, k \in 1 .. Len(queue') : queue'[i] = queue'[k] => i = k
           /\ Waiting \subseteq Waiting'
           /\ S \subseteq Waiting'
  <1> DEFINE T == S \ Waiting
             c == Cardinality(T)
  <1>1. PICK order \in Orders(T) : queue' = queue \o order
    BY DEF Enqueue
  <1>2. c \in Nat
    <2>1. IsFiniteSet(T)
      BY CallSiteAssumption, FS_Subset
    <2> QED
      BY <2>1, FS_CardinalityType
  <1>3. /\ order \in [1 .. c -> T]
        /\ \A x \in T : \E i \in 1 .. c : order[i] = x
        /\ \A i, k \in 1 .. c : order[i] = order[k] => i = k
    BY <1>1 DEF Orders
  <1> HIDE DEF c
  <1>4. order \in Seq(CallSite) /\ Len(order) = c
    <2>1. order \in [1 .. c -> CallSite]
      BY <1>3
    <2>2. order \in Seq(CallSite)
      BY <1>2, <2>1, SeqDef
    <2> QED
      BY <1>2, <2>1, <2>2, LenProperties
  <1>5. /\ queue' \in Seq(CallSite)
        /\ Len(queue') = Len(queue) + c
        /\ \A i \in 1 .. Len(queue) + c :
               queue'[i] = IF i <= Len(queue) THEN queue[i] ELSE order[i - Len(queue)]
    BY <1>1, <1>2, <1>4, ConcatProperties
  <1>6. Len(queue) \in Nat
    BY LenProperties
  <1>7. \A i, k \in 1 .. Len(queue') : queue'[i] = queue'[k] => i = k
    <2> SUFFICES ASSUME NEW i \in 1 .. Len(queue'), NEW k \in 1 .. Len(queue'),
                        queue'[i] = queue'[k], i <= k
                 PROVE  i = k
      BY <1>2, <1>5, <1>6
    <2>1. CASE k <= Len(queue)
      BY <2>1, <1>2, <1>5, <1>6
    <2>2. CASE i > Len(queue)
      <3>1. i - Len(queue) \in 1 .. c /\ k - Len(queue) \in 1 .. c
        BY <2>2, <1>2, <1>5, <1>6
      <3>2. order[i - Len(queue)] = order[k - Len(queue)]
        BY <2>2, <1>2, <1>5, <1>6
      <3> QED
        BY <3>1, <3>2, <1>3, <1>2, <1>5, <1>6
    <2>3. CASE i <= Len(queue) /\ k > Len(queue)
      <3>1. queue'[i] = queue[i] /\ i \in 1 .. Len(queue)
        BY <2>3, <1>2, <1>5, <1>6
      <3>2. queue'[k] \in T
        <4>1. k - Len(queue) \in 1 .. c
          BY <2>3, <1>2, <1>5, <1>6
        <4>2. queue'[k] = order[k - Len(queue)]
          BY <2>3, <1>2, <1>5, <1>6
        <4> QED
          BY <4>1, <4>2, <1>3
      <3> QED
        BY <3>1, <3>2 DEF Waiting
    <2> QED
      BY <2>1, <2>2, <2>3, <1>2, <1>5, <1>6
  <1>8. Waiting \subseteq Waiting'
    <2> SUFFICES ASSUME NEW i \in 1 .. Len(queue) PROVE queue[i] \in Waiting'
      BY DEF Waiting
    <2>1. i \in 1 .. Len(queue') /\ queue'[i] = queue[i]
      BY <1>2, <1>5, <1>6
    <2> QED
      BY <2>1 DEF Waiting
  <1>9. T \subseteq Waiting'
    <2> SUFFICES ASSUME NEW x \in T PROVE x \in Waiting'
      OBVIOUS
    <2>1. PICK i \in 1 .. c : order[i] = x
      BY <1>3
    <2>2. i + Len(queue) \in 1 .. Len(queue') /\ queue'[i + Len(queue)] = x
      BY <2>1, <1>2, <1>5, <1>6
    <2> QED
      BY <2>2 DEF Waiting
  <1> QED
    BY <1>5, <1>7, <1>8, <1>9

LEMMA InitTypeOK == Init => TypeOK
  <1> SUFFICES ASSUME Init PROVE TypeOK
    OBVIOUS
  <1>1. label \in [Node -> Label]
    BY LabelAssumption DEF Init, Label
  <1>2. LinksOK(link) /\ RootsOK(root)
    BY ShapeAssumption DEF Init
  <1>3. pass \in Seq(CallSite) /\ queue \in Seq(CallSite) /\ Len(queue) = 0
    BY CallSiteAssumption, EmptySeq DEF Init
  <1> QED
    BY <1>1, <1>2, <1>3 DEF Init, TypeOK

\* exec_callsite begins with the parameters of its call site.
LEMMA ExecuteTypeOK ==
    ASSUME TypeOK, NEW cs \in CallSite, Execute(cs),
           pass' \in Seq(CallSite), queue' \in Seq(CallSite),
           \A i, k \in 1 .. Len(queue') : queue'[i] = queue'[k] => i = k
    PROVE  TypeOK'
  <1>1. root[cs] \in Seq(Parameters(cs))
    BY DEF TypeOK, RootsOK
  <1> QED
    BY <1>1 DEF Execute, TypeOK, fixed, Label, LinksOK, RootsOK, Parameters

LEMMA NextTypeOK == TypeOK /\ [Next]_vars => TypeOK'
  <1> SUFFICES ASSUME TypeOK, [Next]_vars PROVE TypeOK'
    OBVIOUS
  <1> USE DEF fixed, Label, LinksOK, RootsOK
  <1>1. CASE FirstPass
    <2>1. Head(pass) \in CallSite /\ Tail(pass) \in Seq(CallSite)
      BY <1>1, HeadTailProperties DEF FirstPass, TypeOK
    <2> QED
      BY <1>1, <2>1, ExecuteTypeOK DEF FirstPass, TypeOK
  <1>2. CASE Dequeue
    <2>1. queue \in Seq(CallSite) /\ queue # <<>>
      BY <1>2 DEF Dequeue, TypeOK
    <2>2. /\ Head(queue) \in CallSite /\ Tail(queue) \in Seq(CallSite)
          /\ Len(Tail(queue)) = Len(queue) - 1
          /\ \A i \in 1 .. Len(Tail(queue)) : Tail(queue)[i] = queue[i + 1]
      BY <2>1, HeadTailProperties
    <2>3. Len(queue) \in Nat
      BY <2>1, LenProperties
    <2>4. \A i, k \in 1 .. Len(Tail(queue)) :
            Tail(queue)[i] = Tail(queue)[k] => i = k
      <3> SUFFICES ASSUME NEW i \in 1 .. Len(Tail(queue)),
                          NEW k \in 1 .. Len(Tail(queue)),
                          Tail(queue)[i] = Tail(queue)[k]
                   PROVE  i = k
        OBVIOUS
      <3>1. /\ i + 1 \in 1 .. Len(queue) /\ k + 1 \in 1 .. Len(queue)
            /\ queue[i + 1] = queue[k + 1]
        BY <2>2, <2>3
      <3> QED
        BY <3>1 DEF TypeOK
    <2> QED
      BY <1>2, <2>2, <2>4, ExecuteTypeOK DEF Dequeue, TypeOK
  <1>3. CASE RunOnCallSite
    <2>1. current \in CallSite /\ rest \in Seq(Parameters(current)) /\ rest # <<>>
      BY <1>3 DEF RunOnCallSite, TypeOK
    <2>2. Head(rest) \in Parameters(current) /\ Tail(rest) \in Seq(Parameters(current))
      BY <2>1, HeadTailProperties
    <2>3. <<Head(rest)>> \in Seq(Links(Callee[current]) \X Links(Caller[current]))
      BY <2>2 DEF Parameters, Links
    <2> QED
      BY <1>3, <2>1, <2>2, <2>3 DEF RunOnCallSite, TypeOK
  <1>4. CASE NoSuchLink \/ AlreadySeen
    <2>1. /\ todo \in Seq(Links(Callee[current]) \X Links(Caller[current]))
          /\ todo # <<>>
      BY <1>4 DEF NoSuchLink, AlreadySeen, TypeOK
    <2>2. Tail(todo) \in Seq(Links(Callee[current]) \X Links(Caller[current]))
      BY <2>1, HeadTailProperties
    <2> QED
      BY <1>4, <2>2 DEF NoSuchLink, AlreadySeen, TypeOK
  <1>5. CASE MergePair
    <2>1. /\ current \in CallSite
          /\ Left \in NodesOf(Callee[current])
          /\ Right \in NodesOf(Caller[current])
      BY <1>5, MergedNodes DEF MergePair
    <2>2. Left \in Node /\ Right \in Node
      BY <2>1 DEF NodesOf
    <2>3. Merged(label[Left], label[Right]) \in Label
      BY <2>2, MergedType DEF TypeOK
    <2>4. label' \in [Node -> Label]'
      BY <1>5, <2>2, <2>3 DEF MergePair, TypeOK, Left, Right
    <2>5. LinkPairs(Left, Right) \in Seq(Links(Callee[current]) \X Links(Caller[current]))
      BY <2>1, LinkPairsType DEF TypeOK
    <2>6. /\ todo \in Seq(Links(Callee[current]) \X Links(Caller[current]))
          /\ todo # <<>>
      BY <1>5 DEF MergePair, TypeOK
    <2>7. Tail(todo) \in Seq(Links(Callee[current]) \X Links(Caller[current]))
      BY <2>6, HeadTailProperties
    <2>8. todo' \in Seq(Links(Callee[current]) \X Links(Caller[current]))
      BY <1>5, <2>5, <2>7, ConcatProperties DEF MergePair, Left, Right
    <2>9. /\ changed' \subseteq {"callee", "caller"}
          /\ seen' \subseteq Node
      BY <1>5, <2>2 DEF MergePair, ChangedBits, TypeOK, Right
    <2>10. /\ DOMAIN met' = CallSite
           /\ \A cs \in CallSite :
                met'[cs] \subseteq NodesOf(Callee[cs]) \X NodesOf(Caller[cs])
      BY <1>5, <2>1 DEF MergePair, TypeOK, Left, Right
    <2> QED
      BY <1>5, <2>4, <2>8, <2>9, <2>10 DEF MergePair, TypeOK
  <1>6. CASE Notify
    <2>1. /\ queue' \in Seq(CallSite)
          /\ \A i, k \in 1 .. Len(queue') : queue'[i] = queue'[k] => i = k
      BY <1>6, DependentsType, Enqueued DEF Notify, TypeOK
    <2> QED
      BY <1>6, <2>1 DEF Notify, TypeOK
  <1>7. CASE CallSiteDone
    BY <1>7 DEF CallSiteDone, TypeOK
  <1>8. CASE UNCHANGED vars
    BY <1>8 DEF vars, TypeOK
  <1> QED
    BY <1>1, <1>2, <1>3, <1>4, <1>5, <1>6, <1>7, <1>8 DEF Next

\* The state has its types, and no call site waits twice, in every behaviour.
THEOREM ClosureTypeCorrect == Spec => []TypeOK
  BY InitTypeOK, NextTypeOK, PTL DEF Spec

-----------------------------------------------------------------------------
\* Nodes that a call site compared agree, or it is going to be executed again:
\* it waits, or it is a dependent of what the merge at work has changed.
Remembered(cs) == cs \in Waiting \/ (at = "merge" /\ cs \in Dependents)
AgreeOrRemembered ==
    \A cs \in CallSite : \A p \in met[cs] : Agree(p[1], p[2]) \/ Remembered(cs)

\* Whoever compared a node of component g is among the uses and defs of g.
LEMMA ComparedByDependent ==
    ASSUME TypeOK, NEW cs \in CallSite, NEW p \in met[cs], NEW g,
           p[1] \in NodesOf(g) \/ p[2] \in NodesOf(g)
    PROVE  cs \in getUses(g) \cup getDefs(g)
  BY DEF TypeOK, NodesOf, getUses, getDefs

LEMMA MergeRemembers ==
    ASSUME TypeOK, AgreeOrRemembered, MergePair
    PROVE  AgreeOrRemembered'
  <1>1. /\ current \in CallSite
        /\ Left \in NodesOf(Callee[current])
        /\ Right \in NodesOf(Caller[current])
    BY MergedNodes DEF MergePair
  <1>2. PICK n1, n2, m : n1 = Left /\ n2 = Right /\ m = Merged(label[n1], label[n2])
    OBVIOUS
  <1>3. n1 \in Node /\ n2 \in Node /\ label \in [Node -> Label]
    BY <1>1, <1>2 DEF NodesOf, TypeOK
  <1>4. /\ label' = [label EXCEPT ![n1] = m, ![n2] = m]
        /\ changed' = changed \cup ChangedBits(label[n1], label[n2])
        /\ met' = [met EXCEPT ![current] = @ \cup {<<n1, n2>>}]
        /\ UNCHANGED <<op, queue, at, current>>
    BY <1>2 DEF MergePair, Left, Right, fixed
  <1>5. label'[n1] = m /\ label'[n2] = m
        /\ \A n \in Node : n # n1 /\ n # n2 => label'[n] = label[n]
    BY <1>3, <1>4
  <1>6. Dependents \subseteq Dependents' /\ at = "merge" /\ Waiting' = Waiting
    BY <1>4 DEF Dependents, Waiting, MergePair
  <1> SUFFICES ASSUME NEW cs \in CallSite, NEW p \in met'[cs]
               PROVE  Agree(p[1], p[2])' \/ Remembered(cs)'
    BY DEF AgreeOrRemembered
  <1>7. CASE p = <<n1, n2>>
    BY <1>5, <1>7 DEF Agree
  <1>8. CASE p \in met[cs]
    <2>1. p[1] \in Node /\ p[2] \in Node
      BY <1>8 DEF TypeOK, NodesOf
    <2>2. CASE label'[p[1]] = label[p[1]] /\ label'[p[2]] = label[p[2]]
      <3>1. Agree(p[1], p[2]) \/ Remembered(cs)
        BY <1>8 DEF AgreeOrRemembered
      <3>2. Agree(p[1], p[2]) => Agree(p[1], p[2])'
        BY <2>2 DEF Agree
      <3> QED
        BY <3>1, <3>2, <1>4, <1>6 DEF Remembered
    <2>3. CASE label'[n1] # label[n1] /\ n1 \in {p[1], p[2]}
      <3>1. "callee" \in changed'
        BY <2>3, <1>2, <1>4, <1>5 DEF ChangedBits
      <3>2. cs \in getUses(Callee[current]) \cup getDefs(Callee[current])
        BY <2>3, <1>1, <1>2, <1>8, ComparedByDependent
      <3>3. cs \in Dependents'
        BY <3>1, <3>2, <1>4 DEF Dependents, getUses, getDefs
      <3> QED
        BY <3>3, <1>4, <1>6 DEF Remembered
    <2>4. CASE label'[n2] # label[n2] /\ n2 \in {p[1], p[2]}
      <3>1. "caller" \in changed'
        BY <2>4, <1>2, <1>4, <1>5 DEF ChangedBits
      <3>2. cs \in getUses(Caller[current]) \cup getDefs(Caller[current])
        BY <2>4, <1>1, <1>2, <1>8, ComparedByDependent
      <3>3. cs \in Dependents'
        BY <3>1, <3>2, <1>4 DEF Dependents, getUses, getDefs
      <3> QED
        BY <3>3, <1>4, <1>6 DEF Remembered
    <2> QED
      BY <2>1, <2>2, <2>3, <2>4, <1>5
  <1> QED
    BY <1>1, <1>4, <1>7, <1>8 DEF TypeOK

\* A call site that begins forgets what it compared; the others still wait.
LEMMA ExecuteRemembers ==
    ASSUME TypeOK, AgreeOrRemembered, at = "idle", NEW c \in CallSite, Execute(c),
           Waiting \subseteq Waiting' \cup {c}
    PROVE  AgreeOrRemembered'
  <1> SUFFICES ASSUME NEW cs \in CallSite, NEW p \in met'[cs]
               PROVE  Agree(p[1], p[2])' \/ Remembered(cs)'
    BY DEF AgreeOrRemembered
  <1>1. cs # c /\ p \in met[cs]
    BY DEF Execute, TypeOK
  <1>2. Agree(p[1], p[2]) \/ cs \in Waiting
    BY <1>1 DEF AgreeOrRemembered, Remembered
  <1> QED
    BY <1>1, <1>2 DEF Remembered, Agree, Execute

LEMMA NextRemembers == TypeOK /\ AgreeOrRemembered /\ [Next]_vars => AgreeOrRemembered'
  <1> SUFFICES ASSUME TypeOK, AgreeOrRemembered, [Next]_vars
               PROVE  AgreeOrRemembered'
    OBVIOUS
  <1>1. CASE FirstPass
    <2>1. Head(pass) \in CallSite
      BY <1>1, HeadTailProperties DEF FirstPass, TypeOK
    <2>2. Waiting' = Waiting
      BY <1>1 DEF FirstPass, Waiting
    <2> QED
      BY <1>1, <2>1, <2>2, ExecuteRemembers DEF FirstPass
  <1>2. CASE Dequeue
    <2>1. queue \in Seq(CallSite) /\ queue # <<>> /\ Len(queue) \in Nat
      BY <1>2, LenProperties DEF Dequeue, TypeOK
    <2>2. /\ Head(queue) \in CallSite /\ Head(queue) = queue[1]
          /\ Len(Tail(queue)) = Len(queue) - 1
          /\ \A i \in 1 .. Len(Tail(queue)) : Tail(queue)[i] = queue[i + 1]
      BY <2>1, HeadTailProperties
    <2>3. queue' = Tail(queue)
      BY <1>2 DEF Dequeue
    <2>4. Waiting \subseteq Waiting' \cup {Head(queue)}
      <3> SUFFICES ASSUME NEW i \in 1 .. Len(queue)
                   PROVE  queue[i] \in Waiting' \cup {Head(queue)}
        BY DEF Waiting
      <3>1. CASE i = 1
        BY <3>1, <2>2
      <3>2. CASE i # 1
        <4>1. i - 1 \in 1 .. Len(Tail(queue)) /\ Tail(queue)[i - 1] = queue[i]
          BY <3>2, <2>1, <2>2
        <4> QED
          BY <4>1, <2>3 DEF Waiting
      <3> QED
        BY <3>1, <3>2
    <2> QED
      BY <1>2, <2>2, <2>4, ExecuteRemembers DEF Dequeue
  <1>3. CASE RunOnCallSite
    BY <1>3 DEF RunOnCallSite, AgreeOrRemembered, Remembered, Agree, Waiting
  <1>4. CASE NoSuchLink \/ AlreadySeen
    BY <1>4 DEF NoSuchLink, AlreadySeen, AgreeOrRemembered, Remembered, Agree,
                Waiting, Dependents
  <1>5. CASE MergePair
    BY <1>5, MergeRemembers
  <1>6. CASE Notify
    <2>1. Waiting \subseteq Waiting' /\ Dependents \subseteq Waiting'
      BY <1>6, DependentsType, Enqueued DEF Notify, TypeOK
    <2> QED
      BY <1>6, <2>1 DEF Notify, AgreeOrRemembered, Remembered, Agree
  <1>7. CASE CallSiteDone
    BY <1>7 DEF CallSiteDone, AgreeOrRemembered, Remembered, Agree, Waiting
  <1>8. CASE UNCHANGED vars
    BY <1>8 DEF vars, AgreeOrRemembered, Remembered, Agree, Waiting, Dependents
  <1> QED
    BY <1>1, <1>2, <1>3, <1>4, <1>5, <1>6, <1>7, <1>8 DEF Next

\* When the closure ends, the nodes that its call sites compared agree: the
\* enqueuing of uses and defs by UniqueScalar and AllocaSite is enough.
THEOREM ClosureForgetsNobody == Spec => []ComparedAgree
  <1>1. Init => AgreeOrRemembered
    BY DEF Init, AgreeOrRemembered
  <1>2. AgreeOrRemembered => ComparedAgree
    <2>1. queue = <<>> => Waiting = {}
      BY DEF Waiting
    <2> QED
      BY <2>1 DEF AgreeOrRemembered, Remembered, ComparedAgree, Done
  <1> QED
    BY <1>1, <1>2, NextRemembers, ClosureTypeCorrect, PTL DEF Spec
-----------------------------------------------------------------------------
(* The simulation of a callee in its caller, one link at a time.  *)

Triples == Node \X Node \X Nat
Roots(pairs) == UNION {SimulatedAt(pairs[k][1], pairs[k][2]) : k \in 1 .. Len(pairs)}

\* What corresponds at a call site are nodes, one at a distance in the other.
LEMMA BelowType ==
    ASSUME NEW links, LinksOK(links), NEW t \in Triples
    PROVE  Below(links, t) \subseteq Triples
  <1> SUFFICES ASSUME NEW j \in Field, j + t[3] \in Field,
                      links[t[1]][j] # NoLink, links[t[2]][j + t[3]] # NoLink,
                      NEW u \in SimulatedAt(links[t[1]][j], links[t[2]][j + t[3]])
               PROVE  u \in Triples
    BY DEF Below
  <1>1. t[1] \in Node /\ t[2] \in Node
    BY DEF Triples
  <1>2. PICK c1, c2 : c1 = links[t[1]][j] /\ c2 = links[t[2]][j + t[3]]
    OBVIOUS
  <1>3. c1 \in CellsOf(GraphOf[t[1]]) /\ c2 \in CellsOf(GraphOf[t[2]])
    BY <1>1, <1>2 DEF LinksOK, Links
  <1>4. /\ c1.node \in Node /\ c1.off \in Nat
        /\ c2.node \in Node /\ c2.off \in Nat
    BY <1>3, FieldAssumption DEF CellsOf, NodesOf, Field
  <1> QED
    BY <1>2, <1>4 DEF SimulatedAt, Triples

LEMMA RootsType ==
    ASSUME NEW g, NEW h, NEW pairs \in Seq(CellsOf(g) \X CellsOf(h))
    PROVE  Roots(pairs) \subseteq Triples
  <1> SUFFICES ASSUME NEW k \in 1 .. Len(pairs),
                      NEW u \in SimulatedAt(pairs[k][1], pairs[k][2])
               PROVE  u \in Triples
    BY DEF Roots
  <1>1. PICK c1 \in CellsOf(g), c2 \in CellsOf(h) : c1 = pairs[k][1] /\ c2 = pairs[k][2]
    <2>1. pairs[k] \in CellsOf(g) \X CellsOf(h)
      BY LenProperties
    <2> QED
      BY <2>1
  <1>2. /\ c1.node \in Node /\ c1.off \in Nat
        /\ c2.node \in Node /\ c2.off \in Nat
    BY <1>1, FieldAssumption DEF CellsOf, NodesOf, Field
  <1> QED
    BY <1>1, <1>2 DEF SimulatedAt, Triples

\* The nodes that correspond are computed link by link.
LEMMA SimulatedWithinSteps ==
    ASSUME NEW links, LinksOK(links),
           NEW g, NEW h, NEW pairs \in Seq(CellsOf(g) \X CellsOf(h))
    PROVE  /\ SimulatedWithin(links, pairs)[0] = Roots(pairs)
           /\ \A n \in Nat :
                LET known == SimulatedWithin(links, pairs)[n]
                IN  /\ known \subseteq Triples
                    /\ SimulatedWithin(links, pairs)[n + 1]
                         = known \cup UNION {Below(links, t) : t \in known}
  <1> DEFINE S == SUBSET Triples
             More(V) == V \cup UNION {Below(links, t) : t \in V}
             F == [V \in S |-> More(V)]
             upTo(f) == [i \in Nat |-> IF i = 0 THEN Roots(pairs) ELSE More(f[i - 1])]
  <1>1. Roots(pairs) \in S
    BY RootsType
  <1>2. F \in [S -> S]
    <2> SUFFICES ASSUME NEW V \in S PROVE More(V) \in S
      OBVIOUS
    <2>1. \A t \in V : Below(links, t) \subseteq Triples
      BY BelowType
    <2> QED
      BY <2>1
  <1>3. PICK f \in [Nat -> S] :
          f[0] = Roots(pairs) /\ \A n \in Nat : f[n + 1] = F[f[n]]
    <2>1. PICK a, G, X : a = Roots(pairs) /\ G = F /\ X = S
      OBVIOUS
    <2>2. a \in X /\ G \in [X -> X]
      BY <1>1, <1>2, <2>1
    <2> HIDE DEF F, S
    <2>3. \E f \in [Nat -> X] : f[0] = a /\ \A n \in Nat : f[n + 1] = G[f[n]]
      <3>1. \E f : Iterating(f, X, a, G)
        BY <2>2, Iterates
      <3> QED
        BY <3>1 DEF Iterating
    <2> QED
      BY <2>1, <2>3
  <1>4. f = upTo(f)
    <2>1. ASSUME NEW i \in Nat, i # 0 PROVE f[i] = More(f[i - 1])
      <3>1. i - 1 \in Nat /\ i - 1 + 1 = i
        BY <2>1
      <3>2. f[i] = F[f[i - 1]] /\ f[i - 1] \in S
        BY <3>1, <1>3
      <3> QED
        BY <3>2
    <2> HIDE DEF More, S
    <2> QED
      BY <2>1, <1>3
  <1>5. PICK h0 : h0 = SimulatedWithin(links, pairs)
    OBVIOUS
  <1>6. h0 = upTo(h0)
    BY <1>4, <1>5 DEF SimulatedWithin, Roots
  <1>7. h0[0] = Roots(pairs)
    BY <1>6
  <1>8. ASSUME NEW n \in Nat PROVE h0[n + 1] = More(h0[n])
    <2>1. n + 1 \in Nat /\ n + 1 # 0 /\ n + 1 - 1 = n
      OBVIOUS
    <2> HIDE DEF More
    <2> QED
      BY <1>6, <2>1
  <1>9. \A n \in Nat : h0[n] \subseteq Triples
    <2> DEFINE P == {n \in Nat : h0[n] \subseteq Triples}
    <2>1. 0 \in P
      BY <1>1, <1>7
    <2>2. ASSUME NEW n \in P PROVE n + 1 \in P
      <3>1. F[h0[n]] = More(h0[n]) /\ F[h0[n]] \in S
        <4> HIDE DEF More
        <4> QED
          BY <1>2
      <3> QED
        BY <3>1, <1>8
    <2> HIDE DEF F, S, More, upTo
    <2>3. P = Nat
      BY <2>1, <2>2, SetInduction
    <2> QED
      BY <2>3
  <1> QED
    BY <1>5, <1>7, <1>8, <1>9

\* More links lead to more nodes.
LEMMA WithinGrows ==
    ASSUME NEW links, LinksOK(links),
           NEW g, NEW h, NEW pairs \in Seq(CellsOf(g) \X CellsOf(h)),
           NEW m \in Nat, NEW n \in Nat, m <= n
    PROVE  SimulatedWithin(links, pairs)[m] \subseteq SimulatedWithin(links, pairs)[n]
  <1>1. PICK W : W = SimulatedWithin(links, pairs)
    OBVIOUS
  <1>2. \A i \in Nat : W[i] \subseteq W[i + 1]
    BY <1>1, SimulatedWithinSteps
  <1> DEFINE P == {i \in Nat : m <= i => W[m] \subseteq W[i]}
  <1>3. 0 \in P
    OBVIOUS
  <1>4. ASSUME NEW i \in P PROVE i + 1 \in P
    <2>1. CASE m <= i
      BY <2>1, <1>2
    <2>2. CASE m = i + 1
      BY <2>2
    <2> QED
      BY <2>1, <2>2
  <1>5. P = Nat
    <2> HIDE DEF P
    <2>1. P \in SUBSET Nat
      BY DEF P
    <2> QED
      BY <1>3, <1>4, <2>1, SetInduction
  <1> QED
    BY <1>1, <1>5

-----------------------------------------------------------------------------
(* mergeUniqueScalar and mergeAllocSites reach every pair of nodes that correspond
   at an aligned call site.  *)

Elems(s) == {s[i] : i \in 1 .. Len(s)}

\* The pairs of cells that the execution at work has ahead of it.
Ahead == Elems(rest) \cup IF at = "merge" THEN Elems(todo) ELSE {}

\* A node of the caller has been merged with some node of the callee.
NodeMet(cs, n) == \E p \in met[cs] : p[2] = n

\* The links of what has been compared are compared, or will be.
LinkMet(cs, l) == Missing(l) \/ NodeMet(cs, l[2].node) \/ (cs = current /\ l \in Ahead)
LinksMet ==
    \A cs \in CallSite : \A p \in met[cs] : \A j \in Field :
        LinkMet(cs, <<link[p[1]][j], link[p[2]][j]>>)

\* So are the pairs that a call site passes, once it has begun.
RootsMet ==
    \A cs \in CallSite :
        cs \in Elems(pass) \/ \A r \in Elems(root[cs]) :
                                NodeMet(cs, r[2].node) \/ (cs = current /\ r \in Ahead)

\* What the merge has seen it has compared, and it compares roots of its call site.
SeenMet == at = "merge" => \A n \in seen : NodeMet(current, n)
RestOfRoots == at # "idle" => Elems(rest) \subseteq Elems(root[current])

Within(cs) == SimulatedWithin(link, root[cs])
Nodes(p) == <<p[1].node, p[2].node, 0>>

\* At an aligned call site, pairs that are compared correspond to each other. How
\* many links lead to them is bounded by the number of nodes seen.
MetAligned ==
    \A cs \in CallSite : Aligned(cs) =>
        \A p \in met[cs] : <<p[1], p[2], 0>> \in Simulation(cs)
TodoAligned ==
    at = "merge" /\ Aligned(current) =>
        \A p \in Elems(todo) : ~Missing(p) =>
            \E k \in 0 .. Cardinality(seen) : Nodes(p) \in Within(current)[k]

\* The analysis has established this before, and graphs do not change.
Propagated == \A cs \in CallSite : NoPropagation(cs)

Traversed == /\ LinksMet /\ RootsMet /\ SeenMet /\ RestOfRoots
             /\ MetAligned /\ TodoAligned /\ Propagated

LEMMA ElemsOfTail ==
    ASSUME NEW S, NEW s \in Seq(S), s # <<>>
    PROVE  Elems(s) = {Head(s)} \cup Elems(Tail(s))
  <1>1. /\ Len(s) \in Nat \ {0} /\ Head(s) = s[1]
        /\ Len(Tail(s)) = Len(s) - 1
        /\ \A i \in 1 .. Len(Tail(s)) : Tail(s)[i] = s[i + 1]
    BY EmptySeq, HeadTailProperties
  <1>2. ASSUME NEW i \in 1 .. Len(s) PROVE s[i] \in {Head(s)} \cup Elems(Tail(s))
    <2>1. CASE i = 1
      BY <1>1, <2>1
    <2>2. CASE i # 1
      <3>1. i - 1 \in 1 .. Len(Tail(s)) /\ Tail(s)[i - 1] = s[i]
        BY <1>1, <2>2
      <3> QED
        BY <3>1 DEF Elems
    <2> QED
      BY <2>1, <2>2
  <1>3. ASSUME NEW i \in 1 .. Len(Tail(s)) PROVE Tail(s)[i] \in Elems(s)
    <2>1. i + 1 \in 1 .. Len(s)
      BY <1>1
    <2> QED
      BY <1>1, <2>1 DEF Elems
  <1>4. Head(s) \in Elems(s)
    <2>1. 1 \in 1 .. Len(s)
      BY <1>1
    <2> QED
      BY <1>1, <2>1 DEF Elems
  <1>5. Elems(s) \subseteq {Head(s)} \cup Elems(Tail(s))
    BY <1>2 DEF Elems
  <1>6. Elems(Tail(s)) \subseteq Elems(s)
    <2> SUFFICES ASSUME NEW x \in Elems(Tail(s)) PROVE x \in Elems(s)
      OBVIOUS
    <2>1. PICK i \in 1 .. Len(Tail(s)) : x = Tail(s)[i]
      BY DEF Elems
    <2> QED
      BY <1>3, <2>1
  <1> QED
    BY <1>4, <1>5, <1>6

LEMMA ElemsOfConcat ==
    ASSUME NEW S, NEW s \in Seq(S), NEW t \in Seq(S)
    PROVE  Elems(s \o t) = Elems(s) \cup Elems(t)
  <1>1. /\ Len(s) \in Nat /\ Len(t) \in Nat /\ Len(s \o t) = Len(s) + Len(t)
        /\ \A i \in 1 .. Len(s) + Len(t) :
             (s \o t)[i] = IF i <= Len(s) THEN s[i] ELSE t[i - Len(s)]
    BY ConcatProperties, LenProperties
  <1>2. ASSUME NEW i \in 1 .. Len(s \o t) PROVE (s \o t)[i] \in Elems(s) \cup Elems(t)
    <2>1. CASE i <= Len(s)
      BY <1>1, <2>1 DEF Elems
    <2>2. CASE i > Len(s)
      <3>1. i - Len(s) \in 1 .. Len(t) /\ (s \o t)[i] = t[i - Len(s)]
        BY <1>1, <2>2
      <3> QED
        BY <3>1 DEF Elems
    <2> QED
      BY <1>1, <2>1, <2>2
  <1>3. ASSUME NEW i \in 1 .. Len(s) PROVE s[i] \in Elems(s \o t)
    <2>1. i \in 1 .. Len(s \o t) /\ (s \o t)[i] = s[i]
      BY <1>1
    <2> QED
      BY <2>1 DEF Elems
  <1>4. ASSUME NEW i \in 1 .. Len(t) PROVE t[i] \in Elems(s \o t)
    <2>1. i + Len(s) \in 1 .. Len(s \o t) /\ (s \o t)[i + Len(s)] = t[i]
      BY <1>1
    <2> QED
      BY <2>1 DEF Elems
  <1> QED
    BY <1>2, <1>3, <1>4 DEF Elems

LEMMA ElemsOfEmpty == Elems(<<>>) = {}
  BY DEF Elems

\* Graphs do not change, so neither does what corresponds.
LEMMA CorrespondenceStays ==
    ASSUME [Next]_vars
    PROVE  /\ UNCHANGED <<op, link, root, start>>
           /\ \A cs : UNCHANGED <<Within(cs), Simulation(cs)>>
           /\ \A cs : Aligned(cs)' = Aligned(cs)
           /\ Propagated => Propagated'
  <1>1. UNCHANGED <<op, link, root, start>>
    BY DEF Next, vars, fixed, FirstPass, Dequeue, Execute, RunOnCallSite, NoSuchLink,
           AlreadySeen, MergePair, Notify, CallSiteDone
  <1>2. ASSUME NEW cs PROVE UNCHANGED <<Within(cs), Simulation(cs)>>
    BY <1>1 DEF Within, Simulation
  <1>3. ASSUME NEW cs PROVE Aligned(cs)' = Aligned(cs)
    BY <1>2 DEF Aligned
  <1>4. ASSUME Propagated PROVE Propagated'
    BY <1>1, <1>2, <1>4 DEF Propagated, NoPropagation
  <1> QED
    BY <1>1, <1>2, <1>3, <1>4

\* What a call site passes is there.
LEMMA RootsThere ==
    ASSUME TypeOK, NEW cs \in CallSite, NEW r \in Elems(root[cs])
    PROVE  /\ r[1] \in CellsOf(Callee[cs]) /\ r[2] \in CellsOf(Caller[cs])
           /\ ~Missing(r)
  <1>1. root[cs] \in Seq(Parameters(cs))
    BY DEF TypeOK, RootsOK
  <1>2. r \in Parameters(cs)
    BY <1>1, ElementOfSeq DEF Elems
  <1>3. Callee[cs] \in Component /\ Caller[cs] \in Component
    BY ComponentsAssumption
  <1> QED
    BY <1>2, <1>3, FieldAssumption DEF Parameters, Missing

\* As long as nothing new is compared, and what the execution skips is missing or
\* was met, everything stays compared.
LEMMA SkippingMeets ==
    ASSUME TypeOK, LinksMet, RootsMet, UNCHANGED <<link, root, met, pass>>,
           \A l \in Ahead : \/ l \in Ahead' /\ current' = current
                            \/ Missing(l)
                            \/ NodeMet(current, l[2].node)
    PROVE  LinksMet' /\ RootsMet'
  <1>1. \A cs, n : NodeMet(cs, n)' <=> NodeMet(cs, n)
    BY DEF NodeMet
  <1>2. ASSUME NEW cs \in CallSite, NEW l, LinkMet(cs, l) PROVE LinkMet(cs, l)'
    BY <1>1, <1>2 DEF LinkMet, Missing
  <1>3. LinksMet'
    BY <1>2 DEF LinksMet
  <1>4. RootsMet'
    <2> SUFFICES ASSUME NEW cs \in CallSite, cs \notin Elems(pass'),
                        NEW r \in Elems(root'[cs])
                 PROVE  NodeMet(cs, r[2].node)' \/ (cs = current' /\ r \in Ahead')
      BY DEF RootsMet
    <2>1. r \in Elems(root[cs]) /\ cs \notin Elems(pass)
      OBVIOUS
    <2>2. NodeMet(cs, r[2].node) \/ (cs = current /\ r \in Ahead)
      BY <2>1 DEF RootsMet
    <2>3. ~Missing(r)
      BY <2>1, RootsThere
    <2> QED
      BY <1>1, <2>2, <2>3
  <1> QED
    BY <1>3, <1>4

\* A call site that begins has all it passes ahead, and compared nothing yet.
LEMMA ExecuteTraverses ==
    ASSUME TypeOK, Traversed, [Next]_vars, at = "idle", NEW c \in CallSite, Execute(c),
           \A cs \in CallSite : cs # c /\ cs \in Elems(pass) => cs \in Elems(pass')
    PROVE  Traversed'
  <1>1. /\ at' = "callsite" /\ current' = c /\ rest' = root[c]
        /\ met' = [met EXCEPT ![c] = {}] /\ UNCHANGED <<link, root, todo>>
    BY DEF Execute, fixed
  <1>2. \A cs \in CallSite : current # cs
    BY CallSiteAssumption DEF TypeOK
  <1>3. DOMAIN met = CallSite
    BY DEF TypeOK
  <1>4. met'[c] = {} /\ \A cs \in CallSite : cs # c => met'[cs] = met[cs]
    BY <1>1, <1>3
  <1>5. LinksMet'
    <2> SUFFICES ASSUME NEW cs \in CallSite, NEW p \in met'[cs], NEW j \in Field
                 PROVE  LinkMet(cs, <<link[p[1]][j], link[p[2]][j]>>)'
      BY <1>1 DEF LinksMet
    <2>1. cs # c /\ p \in met[cs]
      BY <1>4
    <2>2. LinkMet(cs, <<link[p[1]][j], link[p[2]][j]>>)
      BY <2>1 DEF Traversed, LinksMet
    <2> QED
      BY <1>1, <1>2, <1>4, <2>1, <2>2 DEF LinkMet, NodeMet, Missing
  <1>6. RootsMet'
    <2> SUFFICES ASSUME NEW cs \in CallSite, cs \notin Elems(pass'),
                        NEW r \in Elems(root[cs])
                 PROVE  NodeMet(cs, r[2].node)' \/ (cs = current' /\ r \in Ahead')
      BY <1>1 DEF RootsMet
    <2>1. CASE cs = c
      BY <1>1, <2>1 DEF Ahead
    <2>2. CASE cs # c
      BY <1>2, <1>4, <2>2 DEF Traversed, RootsMet, NodeMet
    <2> QED
      BY <2>1, <2>2
  <1>7. SeenMet' /\ TodoAligned'
    BY <1>1 DEF SeenMet, TodoAligned
  <1>8. RestOfRoots'
    BY <1>1 DEF RestOfRoots
  <1>9. MetAligned'
    BY <1>4, CorrespondenceStays DEF Traversed, MetAligned
  <1> QED
    BY <1>5, <1>6, <1>7, <1>8, <1>9, CorrespondenceStays DEF Traversed

\* A pair of cells at an aligned call site.
LEMMA RootAligned ==
    ASSUME TypeOK, Propagated, NEW cs \in CallSite, Aligned(cs), NEW r \in Elems(root[cs])
    PROVE  Nodes(r) \in Within(cs)[0] /\ Nodes(r) \in Simulation(cs)
  <1>1. PICK c1, c2, i : /\ c1 = r[1] /\ c2 = r[2]
                         /\ i \in 1 .. Len(root[cs]) /\ root[cs][i] = r
    BY DEF Elems
  <1>2. c1.off <= c2.off
    BY <1>1 DEF Propagated, NoPropagation
  <1>3. <<c1.node, c2.node, c2.off - c1.off>> \in Roots(root[cs])
    BY <1>1, <1>2 DEF Roots, SimulatedAt
  <1>4. LinksOK(link) /\ root[cs] \in Seq(CellsOf(Callee[cs]) \X CellsOf(Caller[cs]))
    BY DEF TypeOK, RootsOK, Parameters
  <1>5. Cardinality(Node) * Cardinality(Node) \in Nat
        /\ 0 <= Cardinality(Node) * Cardinality(Node)
    <2>1. Cardinality(Node) \in Nat
      BY ComponentsAssumption, FS_CardinalityType
    <2> QED
      BY <2>1
  <1>6. <<c1.node, c2.node, c2.off - c1.off>> \in Within(cs)[0]
    BY <1>3, <1>4, SimulatedWithinSteps DEF Within
  <1>7. <<c1.node, c2.node, c2.off - c1.off>> \in Simulation(cs)
    BY <1>4, <1>5, <1>6, WithinGrows DEF Within, Simulation
  <1>8. c2.off - c1.off = 0
    BY <1>7 DEF Aligned
  <1> QED
    BY <1>1, <1>6, <1>7, <1>8 DEF Nodes

\* The links of a pair, one by one.
LEMMA ElemsOfLinkPairs ==
    ASSUME TypeOK, NEW n1 \in Node, NEW n2 \in Node
    PROVE  Elems(LinkPairs(n1, n2)) = {<<link[n1][j], link[n2][j]>> : j \in Field}
  <1>1. MaxField + 1 \in Nat
    BY FieldAssumption
  <1>2. LinkPairs(n1, n2) \in Seq(Links(GraphOf[n1]) \X Links(GraphOf[n2]))
    BY LinkPairsType DEF TypeOK, NodesOf
  <1>3. Len(LinkPairs(n1, n2)) = MaxField + 1
    BY <1>1, <1>2, LenProperties DEF LinkPairs
  <1>4. ASSUME NEW j \in Field
        PROVE  <<link[n1][j], link[n2][j]>> \in Elems(LinkPairs(n1, n2))
    <2>1. PICK i \in 1 .. MaxField + 1 : i - 1 = j
      <3>1. PICK i : i = j + 1
        OBVIOUS
      <3>2. i \in 1 .. MaxField + 1 /\ i - 1 = j
        BY <3>1, FieldAssumption DEF Field
      <3> QED
        BY <3>2
    <2>2. LinkPairs(n1, n2)[i] = <<link[n1][j], link[n2][j]>>
      BY <2>1 DEF LinkPairs
    <2> QED
      BY <1>3, <2>1, <2>2 DEF Elems
  <1>5. ASSUME NEW x \in Elems(LinkPairs(n1, n2))
        PROVE  \E j \in Field : x = <<link[n1][j], link[n2][j]>>
    <2>1. PICK i \in 1 .. MaxField + 1 : x = LinkPairs(n1, n2)[i]
      BY <1>3 DEF Elems
    <2>2. i - 1 \in Field
      BY FieldAssumption DEF Field
    <2>3. x = <<link[n1][i - 1], link[n2][i - 1]>>
      BY <2>1 DEF LinkPairs
    <2> QED
      BY <2>2, <2>3
  <1> QED
    BY <1>4, <1>5

\* One more node seen, and there are no more of them than nodes.
LEMMA OneMoreSeen ==
    ASSUME TypeOK, NEW n \in Node \ seen
    PROVE  /\ Cardinality(seen) \in Nat
           /\ Cardinality(seen \cup {n}) = Cardinality(seen) + 1
           /\ Cardinality(seen) + 1 <= Cardinality(Node) * Cardinality(Node)
           /\ Cardinality(Node) * Cardinality(Node) \in Nat
  <1>1. IsFiniteSet(Node) /\ IsFiniteSet(seen) /\ IsFiniteSet(seen \cup {n})
    BY ComponentsAssumption, FS_Subset DEF TypeOK
  <1>2. Cardinality(seen) \in Nat /\ Cardinality(Node) \in Nat
    BY <1>1, FS_CardinalityType
  <1>3. Cardinality(seen \cup {n}) = Cardinality(seen) + 1
    BY <1>1, FS_AddElement
  <1>4. Cardinality(seen \cup {n}) <= Cardinality(Node)
    BY <1>1, FS_Subset DEF TypeOK
  <1>5. PICK c : c = Cardinality(Node)
    OBVIOUS
  <1>6. c \in Nat /\ 1 <= c
    BY <1>2, <1>3, <1>4, <1>5
  <1>7. c <= c * c /\ c * c \in Nat
    BY <1>6
  <1> QED
    BY <1>2, <1>3, <1>4, <1>5, <1>7

\* The links of a pair that corresponds lead to pairs that correspond, at an aligned
\* call site.
LEMMA LinkAligned ==
    ASSUME TypeOK, Propagated, NEW cs \in CallSite, Aligned(cs),
           NEW n1 \in Node, NEW n2 \in Node,
           NEW k \in Nat, k + 1 <= Cardinality(Node) * Cardinality(Node),
           Cardinality(Node) * Cardinality(Node) \in Nat,
           <<n1, n2, 0>> \in Within(cs)[k],
           NEW j \in Field, ~Missing(<<link[n1][j], link[n2][j]>>)
    PROVE  /\ Nodes(<<link[n1][j], link[n2][j]>>) \in Within(cs)[k + 1]
           /\ Nodes(<<link[n1][j], link[n2][j]>>) \in Simulation(cs)
           /\ <<n1, n2, 0>> \in Simulation(cs)
  <1>1. PICK c1, c2, t : c1 = link[n1][j] /\ c2 = link[n2][j] /\ t = <<n1, n2, 0>>
    OBVIOUS
  <1>2. LinksOK(link) /\ root[cs] \in Seq(CellsOf(Callee[cs]) \X CellsOf(Caller[cs]))
    BY DEF TypeOK, RootsOK, Parameters
  <1>3. t \in Simulation(cs)
    <2>1. PICK most : most = Cardinality(Node) * Cardinality(Node)
      OBVIOUS
    <2>2. most \in Nat /\ k <= most
      BY <2>1
    <2>3. Within(cs)[k] \subseteq Within(cs)[most]
      BY <1>2, <2>2, WithinGrows DEF Within
    <2> QED
      BY <1>1, <2>1, <2>3 DEF Within, Simulation
  <1>4. t[1] = n1 /\ t[2] = n2 /\ t[3] = 0 /\ j + t[3] = j
    BY <1>1, FieldAssumption DEF Field
  <1>5. c1 # NoLink /\ c2 # NoLink
    BY <1>1 DEF Missing
  <1>6. c1.off <= c2.off
    BY <1>1, <1>3, <1>4, <1>5 DEF Propagated, NoPropagation
  <1>7. PICK u : u = <<c1.node, c2.node, c2.off - c1.off>>
    OBVIOUS
  <1>8. u \in Below(link, t)
    <2>1. u \in SimulatedAt(link[t[1]][j], link[t[2]][j + t[3]])
      BY <1>1, <1>4, <1>6, <1>7 DEF SimulatedAt
    <2>2. j + t[3] \in Field /\ link[t[1]][j] # NoLink /\ link[t[2]][j + t[3]] # NoLink
      BY <1>1, <1>4, <1>5
    <2> QED
      BY <2>1, <2>2 DEF Below
  <1>9. u \in Within(cs)[k + 1]
    <2>1. Within(cs)[k + 1]
            = Within(cs)[k] \cup UNION {Below(link, x) : x \in Within(cs)[k]}
      BY <1>2, SimulatedWithinSteps DEF Within
    <2> QED
      BY <1>1, <1>8, <2>1
  <1>10. u \in Simulation(cs)
    <2>1. PICK most : most = Cardinality(Node) * Cardinality(Node)
      OBVIOUS
    <2>2. most \in Nat /\ k + 1 \in Nat /\ k + 1 <= most
      BY <2>1
    <2>3. Within(cs)[k + 1] \subseteq Within(cs)[most]
      BY <1>2, <2>2, WithinGrows DEF Within
    <2> QED
      BY <1>9, <2>1, <2>3 DEF Within, Simulation
  <1>11. u[3] = 0
    BY <1>10 DEF Aligned
  <1> QED
    BY <1>1, <1>3, <1>7, <1>9, <1>10, <1>11 DEF Nodes

LEMMA MergeTraverses ==
    ASSUME TypeOK, Traversed, MergePair, [Next]_vars
    PROVE  Traversed'
  <1>1. /\ current \in CallSite
        /\ Left \in NodesOf(Callee[current])
        /\ Right \in NodesOf(Caller[current])
    BY MergedNodes DEF MergePair
  <1>2. PICK n1, n2, pair : n1 = Left /\ n2 = Right /\ pair = Head(todo)
    OBVIOUS
  <1>3. n1 \in Node /\ n2 \in Node /\ n2 \notin seen
    BY <1>1, <1>2 DEF NodesOf, MergePair, Left, Right
  <1>4. /\ seen' = seen \cup {n2}
        /\ todo' = LinkPairs(n1, n2) \o Tail(todo)
        /\ met' = [met EXCEPT ![current] = @ \cup {<<n1, n2>>}]
        /\ at = "merge" /\ UNCHANGED <<link, root, pass, at, current, rest>>
        /\ pair[1].node = n1 /\ pair[2].node = n2 /\ ~Missing(pair)
    BY <1>2 DEF MergePair, Left, Right, fixed
  <1>5. /\ Elems(todo) = {pair} \cup Elems(Tail(todo))
        /\ Elems(todo') = Elems(LinkPairs(n1, n2)) \cup Elems(Tail(todo))
    <2>0. PICK S, lp, tail : /\ S = Links(Callee[current]) \X Links(Caller[current])
                             /\ lp = LinkPairs(n1, n2) /\ tail = Tail(todo)
      OBVIOUS
    <2>1. todo \in Seq(S) /\ todo # <<>>
      BY <2>0 DEF MergePair, TypeOK
    <2>2. tail \in Seq(S)
      BY <2>0, <2>1, HeadTailProperties
    <2>3. lp \in Seq(S)
      BY <1>1, <1>2, <2>0, LinkPairsType DEF TypeOK
    <2>4. Elems(lp \o tail) = Elems(lp) \cup Elems(tail)
      BY <2>2, <2>3, ElemsOfConcat
    <2>5. Elems(todo) = {pair} \cup Elems(tail)
      BY <1>2, <2>0, <2>1, ElemsOfTail
    <2> QED
      BY <1>4, <2>0, <2>4, <2>5
  <1>6. Elems(LinkPairs(n1, n2)) = {<<link[n1][j], link[n2][j]>> : j \in Field}
    BY <1>3, ElemsOfLinkPairs
  <1>7. /\ \A cs \in CallSite : met[cs] \subseteq met'[cs]
        /\ <<n1, n2>> \in met'[current]
        /\ \A cs \in CallSite : \A p \in met'[cs] :
              p \in met[cs] \/ (cs = current /\ p = <<n1, n2>>)
    BY <1>1, <1>4 DEF TypeOK
  <1>8. /\ \A cs \in CallSite : \A n : NodeMet(cs, n) => NodeMet(cs, n)'
        /\ NodeMet(current, n2)'
    <2>1. ASSUME NEW cs \in CallSite, NEW n, NodeMet(cs, n) PROVE NodeMet(cs, n)'
      BY <1>7, <2>1 DEF NodeMet
    <2>2. <<n1, n2>>[2] = n2
      OBVIOUS
    <2>3. NodeMet(current, n2)'
      BY <1>1, <1>4, <1>7, <2>2 DEF NodeMet
    <2> QED
      BY <2>1, <2>3
  <1>9. \A l \in Ahead : l \in Ahead' \/ l = pair
    BY <1>4, <1>5 DEF Ahead
  <1>10. ASSUME NEW cs \in CallSite, NEW l, LinkMet(cs, l) PROVE LinkMet(cs, l)'
    BY <1>4, <1>8, <1>9, <1>10 DEF LinkMet, Missing
  <1>11. LinksMet'
    <2> SUFFICES ASSUME NEW cs \in CallSite, NEW p \in met'[cs], NEW j \in Field
                 PROVE  LinkMet(cs, <<link[p[1]][j], link[p[2]][j]>>)'
      BY <1>4 DEF LinksMet
    <2>1. CASE p \in met[cs]
      BY <1>4, <1>10, <2>1 DEF Traversed, LinksMet
    <2>2. CASE cs = current /\ p = <<n1, n2>>
      <3>1. <<link[p[1]][j], link[p[2]][j]>> \in Ahead'
        BY <1>4, <1>5, <1>6, <2>2 DEF Ahead
      <3> QED
        BY <1>4, <2>2, <3>1 DEF LinkMet
    <2> QED
      BY <1>7, <2>1, <2>2
  <1>12. RootsMet'
    BY <1>4, <1>8, <1>9 DEF Traversed, RootsMet
  <1>13. SeenMet' /\ RestOfRoots'
    BY <1>1, <1>4, <1>8 DEF Traversed, SeenMet, RestOfRoots
  <1>14. /\ Cardinality(seen) \in Nat
         /\ Cardinality(seen') = Cardinality(seen) + 1
         /\ Cardinality(seen) + 1 <= Cardinality(Node) * Cardinality(Node)
         /\ Cardinality(Node) * Cardinality(Node) \in Nat
    BY <1>3, <1>4, OneMoreSeen
  <1>15. ASSUME Aligned(current)
         PROVE  \E k \in 0 .. Cardinality(seen) : <<n1, n2, 0>> \in Within(current)[k]
    <2>1. Nodes(pair) = <<n1, n2, 0>>
      BY <1>4 DEF Nodes
    <2> QED
      BY <1>4, <1>5, <1>15, <2>1 DEF Traversed, TodoAligned
  <1>16. MetAligned'
    <2> SUFFICES ASSUME NEW cs \in CallSite, Aligned(cs), NEW p \in met'[cs]
                 PROVE  <<p[1], p[2], 0>> \in Simulation(cs)
      BY CorrespondenceStays DEF MetAligned
    <2>1. CASE p \in met[cs]
      BY <2>1 DEF Traversed, MetAligned
    <2>2. CASE cs = current /\ p = <<n1, n2>>
      <3>1. PICK k \in 0 .. Cardinality(seen) : <<n1, n2, 0>> \in Within(cs)[k]
        BY <1>15, <2>2
      <3>2. LinksOK(link) /\ root[cs] \in Seq(CellsOf(Callee[cs]) \X CellsOf(Caller[cs]))
        BY DEF TypeOK, RootsOK, Parameters
      <3>3. k \in Nat /\ k <= Cardinality(Node) * Cardinality(Node)
        BY <1>14
      <3>4. <<n1, n2, 0>> \in Simulation(cs)
        BY <1>14, <3>1, <3>2, <3>3, WithinGrows DEF Within, Simulation
      <3> QED
        BY <2>2, <3>4
    <2> QED
      BY <1>7, <2>1, <2>2
  <1>17. TodoAligned'
    <2> SUFFICES ASSUME Aligned(current), NEW p \in Elems(todo'), ~Missing(p)
                 PROVE  \E k \in 0 .. Cardinality(seen') : Nodes(p) \in Within(current)[k]
      BY <1>4, CorrespondenceStays DEF TodoAligned, Missing, Nodes
    <2>1. CASE p \in Elems(Tail(todo))
      <3>1. PICK k \in 0 .. Cardinality(seen) : Nodes(p) \in Within(current)[k]
        BY <1>4, <1>5, <2>1 DEF Traversed, TodoAligned
      <3> QED
        BY <1>14, <3>1
    <2>2. CASE p \in Elems(LinkPairs(n1, n2))
      <3>1. PICK j \in Field : p = <<link[n1][j], link[n2][j]>>
        BY <1>6, <2>2
      <3>2. PICK k \in 0 .. Cardinality(seen) : <<n1, n2, 0>> \in Within(current)[k]
        BY <1>15
      <3>3. k \in Nat /\ k + 1 <= Cardinality(Node) * Cardinality(Node)
            /\ k + 1 \in 0 .. Cardinality(seen')
        BY <1>14
      <3>4. Nodes(p) \in Within(current)[k + 1]
        BY <1>1, <1>3, <1>14, <3>1, <3>2, <3>3, LinkAligned DEF Traversed
      <3> QED
        BY <3>3, <3>4
    <2> QED
      BY <1>5, <2>1, <2>2
  <1> QED
    BY <1>11, <1>12, <1>13, <1>16, <1>17, CorrespondenceStays DEF Traversed

LEMMA NextTraversed == TypeOK /\ TypeOK' /\ Traversed /\ [Next]_vars => Traversed'
  <1> SUFFICES ASSUME TypeOK, TypeOK', Traversed, [Next]_vars
               PROVE  Traversed'
    OBVIOUS
  <1>1. CASE FirstPass
    <2>1. pass \in Seq(CallSite) /\ pass # <<>>
      BY <1>1 DEF FirstPass, TypeOK
    <2>2. Head(pass) \in CallSite
      BY <2>1, HeadTailProperties
    <2>3. Elems(pass) = {Head(pass)} \cup Elems(pass')
      BY <1>1, <2>1, ElemsOfTail DEF FirstPass
    <2> QED
      BY <1>1, <2>2, <2>3, ExecuteTraverses DEF FirstPass
  <1>2. CASE Dequeue
    <2>1. Head(queue) \in CallSite
      BY <1>2, HeadTailProperties DEF Dequeue, TypeOK
    <2> QED
      BY <1>2, <2>1, ExecuteTraverses DEF Dequeue
  <1>3. CASE RunOnCallSite
    <2>1. PICK S : S = Parameters(current)
      OBVIOUS
    <2>2. /\ current \in CallSite /\ rest \in Seq(S) /\ rest # <<>>
          /\ at = "callsite" /\ at' = "merge" /\ todo' = <<Head(rest)>>
          /\ rest' = Tail(rest) /\ seen' = {}
          /\ UNCHANGED <<link, root, met, pass, current>>
      BY <1>3, <2>1 DEF RunOnCallSite, TypeOK, fixed
    <2>3. Elems(rest) = {Head(rest)} \cup Elems(rest')
      BY <2>2, ElemsOfTail
    <2>4. Elems(todo') = {Head(rest)}
      BY <2>2 DEF Elems
    <2>5. Ahead' = Ahead
      BY <2>2, <2>3, <2>4 DEF Ahead
    <2>6. LinksMet' /\ RootsMet'
      BY <2>2, <2>5, SkippingMeets DEF Traversed
    <2>7. SeenMet' /\ MetAligned'
      BY <2>2, CorrespondenceStays DEF Traversed, SeenMet, MetAligned
    <2>8. RestOfRoots'
      BY <2>2, <2>3 DEF Traversed, RestOfRoots
    <2>9. TodoAligned'
      <3> SUFFICES ASSUME Aligned(current), NEW p \in Elems(todo')
                   PROVE  \E k \in 0 .. Cardinality(seen') : Nodes(p) \in Within(current)[k]
        BY <2>2, CorrespondenceStays DEF TodoAligned, Nodes
      <3>1. p \in Elems(root[current])
        BY <2>2, <2>3, <2>4 DEF Traversed, RestOfRoots
      <3>2. Cardinality(seen') = 0
        BY <2>2, FS_EmptySet
      <3> QED
        BY <2>2, <3>1, <3>2, RootAligned DEF Traversed
    <2> QED
      BY <2>6, <2>7, <2>8, <2>9, CorrespondenceStays DEF Traversed
  <1>4. CASE NoSuchLink \/ AlreadySeen
    <2>1. PICK S : S = Links(Callee[current]) \X Links(Caller[current])
      OBVIOUS
    <2>2. /\ at = "merge" /\ todo \in Seq(S) /\ todo # <<>> /\ todo' = Tail(todo)
          /\ UNCHANGED <<link, root, met, pass, current, rest, at, seen>>
          /\ Missing(Head(todo)) \/ Head(todo)[2].node \in seen
      BY <1>4, <2>1 DEF NoSuchLink, AlreadySeen, TypeOK, fixed
    <2>3. Elems(todo) = {Head(todo)} \cup Elems(todo')
      BY <2>2, ElemsOfTail
    <2>4. \A l \in Ahead : l \in Ahead' \/ l = Head(todo)
      BY <2>2, <2>3 DEF Ahead
    <2>5. Missing(Head(todo)) \/ NodeMet(current, Head(todo)[2].node)
      BY <2>2 DEF Traversed, SeenMet
    <2>6. LinksMet' /\ RootsMet'
      BY <2>2, <2>4, <2>5, SkippingMeets DEF Traversed
    <2>7. SeenMet' /\ MetAligned' /\ RestOfRoots'
      BY <2>2, CorrespondenceStays DEF Traversed, SeenMet, MetAligned, NodeMet, RestOfRoots
    <2>8. TodoAligned'
      BY <2>2, <2>3, CorrespondenceStays DEF Traversed, TodoAligned, Missing, Nodes
    <2> QED
      BY <2>6, <2>7, <2>8, CorrespondenceStays DEF Traversed
  <1>5. CASE MergePair
    BY <1>5, MergeTraverses
  <1>6. CASE Notify
    <2>1. /\ at = "merge" /\ at' = "callsite" /\ todo = <<>>
          /\ UNCHANGED <<link, root, met, pass, current, rest, seen>>
      BY <1>6 DEF Notify, fixed
    <2>2. Ahead' = Ahead
      BY <2>1, ElemsOfEmpty DEF Ahead
    <2>3. LinksMet' /\ RootsMet'
      BY <2>1, <2>2, SkippingMeets DEF Traversed
    <2> QED
      BY <2>1, <2>3, CorrespondenceStays
         DEF Traversed, SeenMet, MetAligned, RestOfRoots, TodoAligned
  <1>7. CASE CallSiteDone
    <2>1. /\ at = "callsite" /\ at' = "idle" /\ rest = <<>>
          /\ UNCHANGED <<link, root, met, pass>>
      BY <1>7 DEF CallSiteDone, fixed
    <2>2. Ahead = {}
      BY <2>1, ElemsOfEmpty DEF Ahead
    <2>3. LinksMet' /\ RootsMet'
      BY <2>1, <2>2, SkippingMeets DEF Traversed
    <2> QED
      BY <2>1, <2>3, CorrespondenceStays
         DEF Traversed, SeenMet, MetAligned, RestOfRoots, TodoAligned
  <1>8. CASE UNCHANGED vars
    <2>1. UNCHANGED <<link, root, met, pass, current, rest, todo, at, seen>>
      BY <1>8 DEF vars
    <2>2. Ahead' = Ahead
      BY <2>1 DEF Ahead
    <2>3. LinksMet' /\ RootsMet'
      BY <2>1, <2>2, SkippingMeets DEF Traversed
    <2>4. SeenMet' /\ MetAligned' /\ RestOfRoots'
      BY <2>1, CorrespondenceStays DEF Traversed, SeenMet, MetAligned, NodeMet, RestOfRoots
    <2>5. TodoAligned'
      BY <2>1, CorrespondenceStays DEF Traversed, TodoAligned, Missing, Nodes
    <2> QED
      BY <2>3, <2>4, <2>5, CorrespondenceStays DEF Traversed
  <1> QED
    BY <1>1, <1>2, <1>3, <1>4, <1>5, <1>6, <1>7, <1>8 DEF Next

LEMMA InitTraversed == Init => Traversed
  <1> SUFFICES ASSUME Init PROVE Traversed
    OBVIOUS
  <1>1. at = "idle" /\ pass = CallOrder /\ met = [cs \in CallSite |-> {}]
    BY DEF Init
  <1>2. LinksMet /\ MetAligned
    BY <1>1 DEF LinksMet, MetAligned
  <1>3. RootsMet
    BY <1>1, CallSiteAssumption DEF RootsMet, Elems
  <1>4. SeenMet /\ RestOfRoots /\ TodoAligned
    BY <1>1 DEF SeenMet, RestOfRoots, TodoAligned
  <1>5. Propagated
    BY DEF Init, Propagated
  <1> QED
    BY <1>2, <1>3, <1>4, <1>5 DEF Traversed

\* When all is done, an aligned call site has compared whatever corresponds.
LEMMA AlignedCompared ==
    ASSUME TypeOK, Traversed, Done, NEW cs \in CallSite, Aligned(cs),
           NEW t \in Simulation(cs)
    PROVE  <<t[1], t[2]>> \in met[cs]
  <1>1. PICK most : most = Cardinality(Node) * Cardinality(Node)
    OBVIOUS
  <1>2. most \in Nat
    <2>1. Cardinality(Node) \in Nat
      BY ComponentsAssumption, FS_CardinalityType
    <2> QED
      BY <1>1, <2>1
  <1>3. LinksOK(link) /\ root[cs] \in Seq(CellsOf(Callee[cs]) \X CellsOf(Caller[cs]))
    BY DEF TypeOK, RootsOK, Parameters
  <1>4. Within(cs)[most] = Simulation(cs)
    BY <1>1 DEF Within, Simulation
  <1>5. current # cs /\ cs \notin Elems(pass)
    BY CallSiteAssumption, ElemsOfEmpty DEF Done, TypeOK
  <1>6. ASSUME NEW u \in Simulation(cs), NodeMet(cs, u[2]), NEW n1, NEW n2, NEW k,
               u = <<n1, n2, k>>
        PROVE  <<u[1], u[2]>> \in met[cs]
    <2>1. PICK p \in met[cs] : p[2] = u[2]
      BY <1>6 DEF NodeMet
    <2>2. PICK w : w = <<p[1], p[2], 0>>
      OBVIOUS
    <2>3. w \in Simulation(cs) /\ w[2] = u[2]
      BY <2>1, <2>2 DEF Traversed, MetAligned
    <2>4. w = u
      BY <2>3 DEF Aligned
    <2>5. p = <<p[1], p[2]>>
      BY DEF TypeOK
    <2> QED
      BY <2>1, <2>2, <2>4, <2>5
  <1> DEFINE P == {n \in Nat : n <= most => \A u \in Within(cs)[n] : <<u[1], u[2]>> \in met[cs]}
  <1>7. 0 \in P
    <2> SUFFICES ASSUME NEW u \in Within(cs)[0] PROVE <<u[1], u[2]>> \in met[cs]
      OBVIOUS
    <2>1. u \in Simulation(cs)
      BY <1>2, <1>3, <1>4, WithinGrows DEF Within
    <2>2. u \in Roots(root[cs])
      <3>1. Within(cs)[0] = Roots(root[cs])
        BY <1>3, SimulatedWithinSteps DEF Within
      <3> QED
        BY <3>1
    <2>3. PICK i \in 1 .. Len(root[cs]) : u \in SimulatedAt(root[cs][i][1], root[cs][i][2])
      BY <2>2 DEF Roots
    <2>4. PICK c1, c2, r : r = root[cs][i] /\ c1 = r[1] /\ c2 = r[2]
      OBVIOUS
    <2>5. u = <<c1.node, c2.node, c2.off - c1.off>>
      BY <2>3, <2>4 DEF SimulatedAt
    <2>6. r \in Elems(root[cs])
      BY <2>4 DEF Elems
    <2>7. NodeMet(cs, c2.node)
      BY <1>5, <2>4, <2>6 DEF Traversed, RootsMet
    <2> QED
      BY <1>6, <2>1, <2>5, <2>7
  <1>8. ASSUME NEW n \in P PROVE n + 1 \in P
    <2> SUFFICES ASSUME n + 1 <= most, NEW u \in Within(cs)[n + 1]
                 PROVE  <<u[1], u[2]>> \in met[cs]
      OBVIOUS
    <2>0. /\ n \in Nat /\ n + 1 \in Nat /\ n <= most
          /\ \A x \in Within(cs)[n] : <<x[1], x[2]>> \in met[cs]
      BY <1>2
    <2> HIDE DEF P
    <2>1. u \in Simulation(cs)
      BY <1>2, <1>3, <1>4, <2>0, WithinGrows DEF Within
    <2>2. Within(cs)[n + 1]
            = Within(cs)[n] \cup UNION {Below(link, x) : x \in Within(cs)[n]}
      BY <1>3, <2>0, SimulatedWithinSteps DEF Within
    <2>3. CASE u \in Within(cs)[n]
      BY <2>0, <2>3
    <2>4. ASSUME NEW x \in Within(cs)[n], u \in Below(link, x)
          PROVE  <<u[1], u[2]>> \in met[cs]
      <3>1. <<x[1], x[2]>> \in met[cs]
        BY <2>0
      <3>2. x \in Simulation(cs)
        <4>1. Within(cs)[n] \subseteq Within(cs)[most]
          BY <1>2, <1>3, <2>0, WithinGrows DEF Within
        <4> QED
          BY <1>4, <4>1
      <3>3. x[3] = 0
        BY <3>2 DEF Aligned
      <3>4. PICK j \in Field : /\ link[x[1]][j] # NoLink /\ link[x[2]][j + x[3]] # NoLink
                               /\ u \in SimulatedAt(link[x[1]][j], link[x[2]][j + x[3]])
        BY <2>4 DEF Below
      <3>5. PICK c1, c2 : c1 = link[x[1]][j] /\ c2 = link[x[2]][j]
        OBVIOUS
      <3>6. j + x[3] = j
        BY <3>3, FieldAssumption DEF Field
      <3>7. u = <<c1.node, c2.node, c2.off - c1.off>>
        BY <3>4, <3>5, <3>6 DEF SimulatedAt
      <3>8. LinkMet(cs, <<c1, c2>>)
        BY <3>1, <3>5 DEF Traversed, LinksMet
      <3>9. NodeMet(cs, c2.node)
        BY <1>5, <3>4, <3>5, <3>6, <3>8 DEF LinkMet, Missing
      <3> QED
        BY <1>6, <2>1, <3>7, <3>9
    <2> QED
      BY <2>2, <2>3, <2>4
  <1>9. P = Nat
    <2> HIDE DEF P
    <2>1. P \in SUBSET Nat
      BY DEF P
    <2> QED
      BY <1>7, <1>8, <2>1, SetInduction
  <1> QED
    BY <1>2, <1>4, <1>9

\* Where the nodes of a callee lie in those of the caller one to one and at their
\* beginnings, the closure makes caller and callee agree on all that corresponds,
\* though it compares links by their fields and every node of the caller once.
THEOREM ClosureAgrees == Spec => []AlignedAgree
  <1>1. TypeOK /\ Traversed /\ ComparedAgree => AlignedAgree
    <2> SUFFICES ASSUME TypeOK, Traversed, ComparedAgree, Done,
                        NEW cs \in CallSite, Aligned(cs), NEW t \in Simulation(cs)
                 PROVE  Agree(t[1], t[2])
      BY DEF AlignedAgree, CorrespondingAgree
    <2>1. <<t[1], t[2]>> \in met[cs]
      BY AlignedCompared
    <2> QED
      BY <2>1 DEF ComparedAgree
  <1> QED
    BY <1>1, InitTraversed, NextTraversed, ClosureTypeCorrect, ClosureForgetsNobody,
       PTL DEF Spec

-----------------------------------------------------------------------------
(* What an execution of a call site compares does not depend on labels: it is
   computed step by step from the graphs.  *)

Conf(a, r, t, s, m) == [at |-> a, rest |-> r, todo |-> t, seen |-> s, met |-> m]
Confs(cs) == [at : {"callsite", "merge"},
              rest : Seq(Parameters(cs)),
              todo : Seq(Links(Callee[cs]) \X Links(Caller[cs])),
              seen : SUBSET Node,
              met : SUBSET (NodesOf(Callee[cs]) \X NodesOf(Caller[cs]))]

\* the recursive calls for two nodes, in graphs with these links
PairsIn(links, n1, n2) ==
    [i \in 1 .. MaxField + 1 |-> <<links[n1][i - 1], links[n2][i - 1]>>]

\* RunOnCallSite, Notify, NoSuchLink or AlreadySeen, MergePair; it ends with no
\* pair left
Skipped(c) == Missing(Head(c.todo)) \/ Head(c.todo)[2].node \in c.seen
Advance(links, c) ==
    IF c.at = "callsite"
    THEN IF c.rest = <<>> THEN c
         ELSE Conf("merge", Tail(c.rest), <<Head(c.rest)>>, {}, c.met)
    ELSE IF c.todo = <<>> THEN Conf("callsite", c.rest, <<>>, {}, c.met)
    ELSE IF Skipped(c) THEN Conf("merge", c.rest, Tail(c.todo), c.seen, c.met)
    ELSE LET n1 == Head(c.todo)[1].node
             n2 == Head(c.todo)[2].node
         IN  Conf("merge", c.rest, PairsIn(links, n1, n2) \o Tail(c.todo),
                  c.seen \cup {n2}, c.met \cup {<<n1, n2>>})

LEMMA PairsInType ==
    ASSUME NEW links, LinksOK(links), NEW g, NEW h,
           NEW n1 \in NodesOf(g), NEW n2 \in NodesOf(h)
    PROVE  PairsIn(links, n1, n2) \in Seq(Links(g) \X Links(h))
  <1>1. links[n1] \in [Field -> Links(g)] /\ links[n2] \in [Field -> Links(h)]
    BY DEF LinksOK, NodesOf
  <1>2. \A i \in 1 .. MaxField + 1 : i - 1 \in Field
    BY FieldAssumption DEF Field
  <1>3. MaxField + 1 \in Nat
    BY FieldAssumption
  <1>4. PairsIn(links, n1, n2) \in [1 .. MaxField + 1 -> Links(g) \X Links(h)]
    BY <1>1, <1>2 DEF PairsIn
  <1> QED
    BY <1>3, <1>4, SeqDef

LEMMA AdvanceType ==
    ASSUME NEW links, LinksOK(links), NEW cs \in CallSite, NEW c \in Confs(cs)
    PROVE  Advance(links, c) \in Confs(cs) /\ c.met \subseteq Advance(links, c).met
  <1>1. PICK S, T : S = Parameters(cs) /\ T = Links(Callee[cs]) \X Links(Caller[cs])
    OBVIOUS
  <1>2. /\ c.at \in {"callsite", "merge"} /\ c.rest \in Seq(S) /\ c.todo \in Seq(T)
        /\ c.seen \subseteq Node
        /\ c.met \subseteq NodesOf(Callee[cs]) \X NodesOf(Caller[cs])
    BY <1>1 DEF Confs
  <1>3. CASE c.at = "callsite" /\ c.rest = <<>>
    BY <1>3 DEF Advance
  <1>4. CASE c.at = "callsite" /\ c.rest # <<>>
    <2>1. Head(c.rest) \in S /\ Tail(c.rest) \in Seq(S)
      BY <1>2, <1>4, HeadTailProperties
    <2>2. <<Head(c.rest)>> \in Seq(T)
      BY <1>1, <2>1 DEF Parameters, Links
    <2> QED
      BY <1>1, <1>2, <1>4, <2>1, <2>2 DEF Advance, Conf, Confs
  <1>5. CASE c.at = "merge" /\ c.todo = <<>>
    <2>1. <<>> \in Seq(T)
      BY EmptySeq
    <2> QED
      BY <1>1, <1>2, <1>5, <2>1 DEF Advance, Conf, Confs
  <1>6. CASE c.at = "merge" /\ c.todo # <<>> /\ Skipped(c)
    <2>1. Tail(c.todo) \in Seq(T)
      BY <1>2, <1>6, HeadTailProperties
    <2> QED
      BY <1>1, <1>2, <1>6, <2>1 DEF Advance, Conf, Confs
  <1>7. CASE c.at = "merge" /\ c.todo # <<>> /\ ~Skipped(c)
    <2>1. PICK p, tail, n1, n2 : /\ p = Head(c.todo) /\ tail = Tail(c.todo)
                                 /\ n1 = p[1].node /\ n2 = p[2].node
      OBVIOUS
    <2>2. p \in T /\ tail \in Seq(T)
      BY <1>2, <1>7, <2>1, HeadTailProperties
    <2>3. p[1] \in CellsOf(Callee[cs]) /\ p[2] \in CellsOf(Caller[cs])
      BY <1>1, <1>7, <2>1, <2>2 DEF Skipped, Missing, Links
    <2>4. n1 \in NodesOf(Callee[cs]) /\ n2 \in NodesOf(Caller[cs]) /\ n2 \in Node
      BY <2>1, <2>3 DEF CellsOf, NodesOf
    <2>5. PairsIn(links, n1, n2) \in Seq(T)
      BY <1>1, <2>4, PairsInType
    <2>6. PairsIn(links, n1, n2) \o tail \in Seq(T)
      BY <2>2, <2>5, ConcatProperties
    <2>7. Advance(links, c) = Conf("merge", c.rest, PairsIn(links, n1, n2) \o tail,
                                   c.seen \cup {n2}, c.met \cup {<<n1, n2>>})
      BY <1>7, <2>1 DEF Advance
    <2> QED
      BY <1>1, <1>2, <2>4, <2>6, <2>7 DEF Conf, Confs
  <1> QED
    BY <1>2, <1>3, <1>4, <1>5, <1>6, <1>7

\* An execution from its beginning on, and all that it compares.
CourseIn(links, pairs, cs) ==
    CHOOSE g : Iterating(g, Confs(cs), Conf("callsite", pairs, <<>>, {}, {}),
                         [c \in Confs(cs) |-> Advance(links, c)])
Course(cs) == CourseIn(link, root[cs], cs)
AllMet(cs) == UNION {Course(cs)[k].met : k \in Nat}

LEMMA CourseSteps ==
    ASSUME TypeOK, NEW cs \in CallSite
    PROVE  /\ Course(cs)[0] = Conf("callsite", root[cs], <<>>, {}, {})
           /\ \A k \in Nat : /\ Course(cs)[k] \in Confs(cs)
                             /\ Course(cs)[k + 1] = Advance(link, Course(cs)[k])
  <1>1. PICK F, b : /\ F = [c \in Confs(cs) |-> Advance(link, c)]
                    /\ b = Conf("callsite", root[cs], <<>>, {}, {})
    OBVIOUS
  <1>2. LinksOK(link) /\ root[cs] \in Seq(Parameters(cs))
    BY DEF TypeOK, RootsOK
  <1>3. F \in [Confs(cs) -> Confs(cs)]
    BY <1>1, <1>2, AdvanceType
  <1>4. b \in Confs(cs)
    BY <1>1, <1>2, EmptySeq DEF Conf, Confs
  <1>5. \E g : Iterating(g, Confs(cs), b, F)
    BY <1>3, <1>4, Iterates
  <1>6. Iterating(Course(cs), Confs(cs), b, F)
    BY <1>1, <1>5 DEF Course, CourseIn
  <1>7. /\ Course(cs)[0] = b
        /\ \A k \in Nat : Course(cs)[k] \in Confs(cs)
                          /\ Course(cs)[k + 1] = F[Course(cs)[k]]
    BY <1>6 DEF Iterating
  <1> QED
    BY <1>1, <1>7

\* Nothing is compared after the end, and nothing is forgotten before.
LEMMA CourseEnds ==
    ASSUME TypeOK, NEW cs \in CallSite, NEW k \in Nat,
           Course(cs)[k].at = "callsite", Course(cs)[k].rest = <<>>
    PROVE  AllMet(cs) = Course(cs)[k].met
  <1>1. PICK g : g = Course(cs)
    OBVIOUS
  <1>2. \A i \in Nat : g[i].met \subseteq g[i + 1].met
    <2>1. LinksOK(link)
      BY DEF TypeOK
    <2> QED
      BY <1>1, <2>1, CourseSteps, AdvanceType
  <1>3. \A i \in Nat : g[i + 1] = Advance(link, g[i])
    BY <1>1, CourseSteps
  <1> DEFINE P == {i \in Nat : /\ i <= k => g[k - i].met \subseteq g[k].met
                               /\ g[k + i] = g[k]}
  <1>4. 0 \in P
    OBVIOUS
  <1>5. ASSUME NEW i \in P PROVE i + 1 \in P
    <2>1. i \in Nat /\ k + i \in Nat /\ k + (i + 1) = (k + i) + 1
      OBVIOUS
    <2>2. g[k + i] = g[k]
      OBVIOUS
    <2>3. Advance(link, g[k]) = g[k]
      BY <1>1 DEF Advance
    <2>4. g[k + (i + 1)] = g[k]
      BY <1>3, <2>1, <2>2, <2>3
    <2>5. ASSUME i + 1 <= k PROVE g[k - (i + 1)].met \subseteq g[k].met
      <3>1. PICK j : j = k - (i + 1)
        OBVIOUS
      <3>2. j \in Nat /\ j + 1 = k - i /\ i <= k
        BY <2>5, <3>1
      <3>3. g[j].met \subseteq g[j + 1].met
        BY <1>2, <3>2
      <3>4. g[k - i].met \subseteq g[k].met
        BY <3>2
      <3> QED
        BY <3>1, <3>2, <3>3, <3>4
    <2> HIDE DEF P
    <2> QED
      BY <2>1, <2>4, <2>5 DEF P
  <1>6. P = Nat
    <2> HIDE DEF P
    <2>1. P \in SUBSET Nat
      BY DEF P
    <2> QED
      BY <1>4, <1>5, <2>1, SetInduction
  <1>7. /\ \A i \in Nat : i <= k => g[k - i].met \subseteq g[k].met
        /\ \A i \in Nat : g[k + i] = g[k]
    BY <1>6
  <1> HIDE DEF P
  <1>8. ASSUME NEW i \in Nat PROVE g[i].met \subseteq g[k].met
    <2>1. CASE i <= k
      <3>1. PICK j : j = k - i
        OBVIOUS
      <3>2. j \in Nat /\ j <= k /\ k - j = i
        BY <2>1, <3>1
      <3> QED
        BY <1>7, <3>2
    <2>2. CASE i > k
      <3>1. PICK j : j = i - k
        OBVIOUS
      <3>2. j \in Nat /\ k + j = i
        BY <2>2, <3>1
      <3> QED
        BY <1>7, <3>2
    <2> QED
      BY <2>1, <2>2
  <1> QED
    BY <1>1, <1>8 DEF AllMet

\* The execution at work, as far as it goes on.
Config == IF at = "merge" THEN Conf("merge", rest, todo, seen, met[current])
          ELSE Conf("callsite", rest, <<>>, {}, met[current])
Finished(cs, c) == c = Conf("callsite", <<>>, <<>>, {}, met[cs])

\* Each execution takes the course that the graphs of its call site determine, and
\* a call site that has begun, but is not at work, has finished it.
OnCourse ==
    /\ at # "idle" => \E k \in Nat : Course(current)[k] = Config
    /\ \A cs \in CallSite : \/ cs \in Elems(pass) /\ met[cs] = {}
                            \/ cs = current
                            \/ \E k \in Nat : Finished(cs, Course(cs)[k])

LEMMA CourseStays ==
    ASSUME [Next]_vars
    PROVE  \A cs : UNCHANGED <<Course(cs), AllMet(cs)>>
  <1>1. UNCHANGED <<link, root>>
    BY CorrespondenceStays
  <1> QED
    BY <1>1 DEF Course, AllMet

\* The execution at work goes one step on.
LEMMA OneStepOn ==
    ASSUME TypeOK, OnCourse, [Next]_vars, at # "idle", at' # "idle", current' = current,
           UNCHANGED pass,
           \A cs \in CallSite : cs # current => met'[cs] = met[cs],
           Config' = Advance(link, Config) \/ Config' = Config
    PROVE  OnCourse'
  <1>1. current \in CallSite
    BY DEF TypeOK
  <1>2. PICK k \in Nat : Course(current)[k] = Config
    BY DEF OnCourse
  <1>3. Course(current)[k + 1] = Advance(link, Config) /\ k + 1 \in Nat
    BY <1>1, <1>2, CourseSteps
  <1>4. \E j \in Nat : CourseIn(link', root'[current'], current')[j] = Config'
    <2>1. UNCHANGED <<link, root>>
      BY CorrespondenceStays
    <2>2. \E j \in Nat : CourseIn(link, root[current], current)[j] = Config'
      BY <1>2, <1>3 DEF Course
    <2> QED
      BY <2>1, <2>2
  <1>5. ASSUME NEW cs \in CallSite, cs # current
        PROVE  \/ cs \in Elems(pass') /\ met'[cs] = {}
               \/ \E j \in Nat : Finished(cs, Course(cs)[j])'
    <2>1. CASE cs \in Elems(pass) /\ met[cs] = {}
      BY <1>5, <2>1
    <2>2. ASSUME NEW j \in Nat, Finished(cs, Course(cs)[j])
          PROVE  Finished(cs, Course(cs)[j])'
      BY <1>5, <2>2, CourseStays DEF Finished
    <2> QED
      BY <1>5, <2>1, <2>2 DEF OnCourse
  <1> QED
    BY <1>4, <1>5 DEF OnCourse, Course

LEMMA ExecuteOnCourse ==
    ASSUME TypeOK, OnCourse, [Next]_vars, at = "idle", NEW c \in CallSite, Execute(c),
           \A cs \in CallSite : cs # c /\ cs \in Elems(pass) => cs \in Elems(pass')
    PROVE  OnCourse'
  <1>1. /\ at' = "callsite" /\ current' = c /\ rest' = root[c]
        /\ met' = [met EXCEPT ![c] = {}]
    BY DEF Execute, fixed
  <1>2. /\ met'[c] = {} /\ \A cs \in CallSite : cs # c => met'[cs] = met[cs]
        /\ \A cs \in CallSite : cs # current
    BY <1>1, CallSiteAssumption DEF TypeOK
  <1>3. Config' = Conf("callsite", root[c], <<>>, {}, {})
    BY <1>1, <1>2 DEF Config
  <1>4. Course(c)[0] = Config'
    BY <1>3, CourseSteps
  <1>5. \E j \in Nat : CourseIn(link', root'[current'], current')[j] = Config'
    <2>1. UNCHANGED <<link, root>>
      BY CorrespondenceStays
    <2>2. \E j \in Nat : CourseIn(link, root[c], c)[j] = Config'
      BY <1>4 DEF Course
    <2> QED
      BY <1>1, <2>1, <2>2
  <1>6. ASSUME NEW cs \in CallSite, cs # c
        PROVE  \/ cs \in Elems(pass') /\ met'[cs] = {}
               \/ \E j \in Nat : Finished(cs, Course(cs)[j])'
    <2>1. CASE cs \in Elems(pass) /\ met[cs] = {}
      BY <1>2, <1>6, <2>1
    <2>2. ASSUME NEW j \in Nat, Finished(cs, Course(cs)[j])
          PROVE  Finished(cs, Course(cs)[j])'
      BY <1>2, <1>6, <2>2, CourseStays DEF Finished
    <2> QED
      BY <1>2, <1>6, <2>1, <2>2 DEF OnCourse
  <1> QED
    BY <1>1, <1>5, <1>6 DEF OnCourse, Course

LEMMA NextOnCourse == TypeOK /\ TypeOK' /\ OnCourse /\ [Next]_vars => OnCourse'
  <1> SUFFICES ASSUME TypeOK, TypeOK', OnCourse, [Next]_vars
               PROVE  OnCourse'
    OBVIOUS
  <1>1. CASE FirstPass
    <2>1. pass \in Seq(CallSite) /\ pass # <<>>
      BY <1>1 DEF FirstPass, TypeOK
    <2>2. Head(pass) \in CallSite
      BY <2>1, HeadTailProperties
    <2>3. Elems(pass) = {Head(pass)} \cup Elems(pass')
      BY <1>1, <2>1, ElemsOfTail DEF FirstPass
    <2> QED
      BY <1>1, <2>2, <2>3, ExecuteOnCourse DEF FirstPass
  <1>2. CASE Dequeue
    <2>1. Head(queue) \in CallSite
      BY <1>2, HeadTailProperties DEF Dequeue, TypeOK
    <2> QED
      BY <1>2, <2>1, ExecuteOnCourse DEF Dequeue
  <1>3. CASE RunOnCallSite
    <2>1. /\ at = "callsite" /\ at' = "merge" /\ rest # <<>>
          /\ todo' = <<Head(rest)>> /\ rest' = Tail(rest) /\ seen' = {}
          /\ UNCHANGED <<current, met, pass>>
      BY <1>3 DEF RunOnCallSite
    <2>2. Config' = Advance(link, Config)
      BY <2>1 DEF Config, Advance, Conf
    <2> QED
      BY <2>1, <2>2, OneStepOn
  <1>4. CASE NoSuchLink \/ AlreadySeen
    <2>1. /\ at = "merge" /\ todo # <<>> /\ todo' = Tail(todo)
          /\ UNCHANGED <<current, met, pass, rest, at, seen>>
          /\ Missing(Head(todo)) \/ Head(todo)[2].node \in seen
      BY <1>4 DEF NoSuchLink, AlreadySeen
    <2>2. Config' = Advance(link, Config)
      BY <2>1 DEF Config, Advance, Conf, Skipped
    <2> QED
      BY <2>1, <2>2, OneStepOn
  <1>5. CASE MergePair
    <2>1. PICK n1, n2 : n1 = Left /\ n2 = Right
      OBVIOUS
    <2>2. /\ at = "merge" /\ todo # <<>> /\ current \in CallSite
          /\ ~Missing(Head(todo)) /\ n2 \notin seen
          /\ todo' = LinkPairs(n1, n2) \o Tail(todo)
          /\ seen' = seen \cup {n2}
          /\ met' = [met EXCEPT ![current] = @ \cup {<<n1, n2>>}]
          /\ UNCHANGED <<current, pass, rest, at>>
      BY <1>5, <2>1 DEF MergePair, Left, Right, TypeOK
    <2>3. /\ met'[current] = met[current] \cup {<<n1, n2>>}
          /\ \A cs \in CallSite : cs # current => met'[cs] = met[cs]
      BY <2>2 DEF TypeOK
    <2>4. LinkPairs(n1, n2) = PairsIn(link, n1, n2)
      BY DEF LinkPairs, PairsIn
    <2>5. PICK c : c = Config
      OBVIOUS
    <2>6. /\ c.at = "merge" /\ c.rest = rest /\ c.todo = todo /\ c.seen = seen
          /\ c.met = met[current]
      BY <2>2, <2>5 DEF Config, Conf
    <2>7. ~Skipped(c)
      BY <2>1, <2>2, <2>6 DEF Skipped, Right
    <2>8. Advance(link, c) = Conf("merge", rest, PairsIn(link, n1, n2) \o Tail(todo),
                                  seen \cup {n2}, met[current] \cup {<<n1, n2>>})
      BY <2>1, <2>2, <2>6, <2>7 DEF Advance, Left, Right
    <2>9. Config' = Advance(link, Config)
      BY <2>2, <2>3, <2>4, <2>5, <2>8 DEF Config
    <2> QED
      BY <2>2, <2>3, <2>9, OneStepOn
  <1>6. CASE Notify
    <2>1. /\ at = "merge" /\ at' = "callsite" /\ todo = <<>>
          /\ UNCHANGED <<met, pass, current, rest>>
      BY <1>6 DEF Notify
    <2>2. Config' = Advance(link, Config)
      BY <2>1 DEF Config, Advance, Conf
    <2> QED
      BY <2>1, <2>2, OneStepOn
  <1>7. CASE CallSiteDone
    <2>1. /\ at = "callsite" /\ at' = "idle" /\ rest = <<>>
          /\ UNCHANGED <<met, pass>>
      BY <1>7 DEF CallSiteDone
    <2>2. PICK k \in Nat : Course(current)[k] = Config
      BY <2>1 DEF OnCourse
    <2>3. Finished(current, Course(current)[k])
      BY <2>1, <2>2 DEF Config, Finished
    <2>4. ASSUME NEW cs \in CallSite, NEW j \in Nat, Finished(cs, Course(cs)[j])
          PROVE  Finished(cs, Course(cs)[j])'
      BY <2>1, <2>4, CourseStays DEF Finished
    <2> QED
      BY <2>1, <2>3, <2>4 DEF OnCourse
  <1>8. CASE UNCHANGED vars
    <2>1. UNCHANGED <<met, pass, current, rest, todo, at, seen>>
      BY <1>8 DEF vars
    <2>2. Config' = Config
      BY <2>1 DEF Config
    <2>3. CASE at = "idle"
      <3>1. ASSUME NEW cs \in CallSite, NEW j \in Nat, Finished(cs, Course(cs)[j])
            PROVE  Finished(cs, Course(cs)[j])'
        BY <2>1, <3>1, CourseStays DEF Finished
      <3> QED
        BY <2>1, <2>3, <3>1 DEF OnCourse
    <2>4. CASE at # "idle"
      BY <2>1, <2>2, <2>4, OneStepOn
    <2> QED
      BY <2>3, <2>4
  <1> QED
    BY <1>1, <1>2, <1>3, <1>4, <1>5, <1>6, <1>7, <1>8 DEF Next

\* At the end every call site has compared all that its execution ever compares.
LEMMA AllComparedAtEnd ==
    ASSUME TypeOK, OnCourse, Done, NEW cs \in CallSite
    PROVE  met[cs] = AllMet(cs)
  <1>1. cs # current /\ cs \notin Elems(pass)
    BY CallSiteAssumption, ElemsOfEmpty DEF Done, TypeOK
  <1>2. PICK k \in Nat : Finished(cs, Course(cs)[k])
    BY <1>1 DEF OnCourse
  <1>3. /\ Course(cs)[k].at = "callsite" /\ Course(cs)[k].rest = <<>>
        /\ Course(cs)[k].met = met[cs]
    BY <1>2 DEF Finished, Conf
  <1> QED
    BY <1>3, CourseEnds

-----------------------------------------------------------------------------
(* Labels spread among the nodes that call sites compare, and no further.  *)

\* An execution of some call site compares the nodes.
Linked(m, n) == \E cs \in CallSite : <<m, n>> \in AllMet(cs) \/ <<n, m>> \in AllMet(cs)
Isolated(X) == \A m \in X, n \in Node : Linked(m, n) => n \in X

\* Nodes without a link to others get their labels from each other; a node keeps
\* its sites, and gets no scalar that it did not have.
SitesSpread ==
    op = "AllocaSite" =>
      /\ \A n \in Node : start[n] \subseteq label[n]
      /\ \A X \in SUBSET Node : Isolated(X) =>
           \A n \in X : label[n] \subseteq UNION {start[m] : m \in X}
ScalarsSpread ==
    op = "UniqueScalar" =>
      /\ \A n \in Node : label[n] \in {start[n], NoScalar}
      /\ \A X \in SUBSET Node : Isolated(X) =>
           \A v : (\A m \in X : start[m] = v) => \A m \in X : label[m] = v
LabelsSpread == SitesSpread /\ ScalarsSpread

\* What MergePair merges is linked.
LEMMA MergedLinked ==
    ASSUME TypeOK, OnCourse', [Next]_vars, MergePair
    PROVE  /\ Left \in Node /\ Right \in Node
           /\ Linked(Left, Right)
           /\ label' = [label EXCEPT ![Left] = Merged(label[Left], label[Right]),
                                     ![Right] = Merged(label[Left], label[Right])]
           /\ UNCHANGED <<op, start>>
  <1>1. PICK n1, n2 : n1 = Left /\ n2 = Right
    OBVIOUS
  <1>2. /\ at = "merge" /\ todo # <<>> /\ ~Missing(Head(todo)) /\ at' = at
        /\ met' = [met EXCEPT ![current] = @ \cup {<<n1, n2>>}]
        /\ label' = [label EXCEPT ![n1] = Merged(label[n1], label[n2]),
                                  ![n2] = Merged(label[n1], label[n2])]
        /\ current' = current /\ UNCHANGED <<op, start>>
    BY <1>1 DEF MergePair, Left, Right, fixed
  <1>3. /\ current \in CallSite /\ n1 \in NodesOf(Callee[current])
        /\ n2 \in NodesOf(Caller[current])
    BY <1>1, <1>2, MergedNodes
  <1>4. <<n1, n2>> \in met'[current]
    BY <1>2, <1>3 DEF TypeOK
  <1>5. UNCHANGED <<link, root>>
    BY CorrespondenceStays
  <1>6. PICK k \in Nat : Course(current)[k] = Config'
    <2>1. \E k \in Nat : CourseIn(link', root'[current'], current')[k] = Config'
      BY <1>2 DEF OnCourse, Course
    <2> QED
      BY <1>2, <1>5, <2>1 DEF Course
  <1>7. Config'.met = met'[current]
    BY <1>2 DEF Config, Conf
  <1>8. <<n1, n2>> \in AllMet(current)
    BY <1>4, <1>6, <1>7 DEF AllMet
  <1>9. n1 \in Node /\ n2 \in Node
    BY <1>3 DEF NodesOf
  <1> QED
    BY <1>1, <1>2, <1>3, <1>8, <1>9 DEF Linked

LEMMA IsolatedStays ==
    ASSUME [Next]_vars
    PROVE  \A X : Isolated(X)' <=> Isolated(X)
  <1>1. \A cs : AllMet(cs)' = AllMet(cs)
    BY CourseStays
  <1> QED
    BY <1>1 DEF Isolated, Linked

LEMMA LinkedBothWays == \A m, n : Linked(m, n) <=> Linked(n, m)
  BY DEF Linked

LEMMA MergeSpreads ==
    ASSUME TypeOK, OnCourse', [Next]_vars, MergePair, LabelsSpread
    PROVE  LabelsSpread'
  <1>1. PICK n1, n2, m : n1 = Left /\ n2 = Right /\ m = Merged(label[n1], label[n2])
    OBVIOUS
  <1>2. /\ n1 \in Node /\ n2 \in Node /\ Linked(n1, n2) /\ Linked(n2, n1)
        /\ label' = [label EXCEPT ![n1] = m, ![n2] = m]
        /\ UNCHANGED <<op, start>>
    BY <1>1, MergedLinked, LinkedBothWays
  <1>3. /\ \A n \in Node : label'[n] = IF n \in {n1, n2} THEN m ELSE label[n]
    BY <1>2 DEF TypeOK
  <1>4. \A X \in SUBSET Node : Isolated(X) => (n1 \in X <=> n2 \in X)
    BY <1>2 DEF Isolated
  <1>5. ASSUME op = "AllocaSite" PROVE SitesSpread'
    <2>1. m = label[n1] \cup label[n2]
      BY <1>1, <1>5 DEF Merged, MergedSites
    <2>2. ASSUME NEW n \in Node PROVE start'[n] \subseteq label'[n]
      <3>1. start[n] \subseteq label[n] /\ start'[n] = start[n]
        BY <1>2, <1>5 DEF LabelsSpread, SitesSpread
      <3>2. label[n] \subseteq label'[n]
        BY <1>3, <2>1
      <3> QED
        BY <3>1, <3>2
    <2>3. ASSUME NEW X \in SUBSET Node, Isolated(X), NEW n \in X
          PROVE  label'[n] \subseteq UNION {start'[k] : k \in X}
      <3>1. \A k \in X : label[k] \subseteq UNION {start[j] : j \in X}
        BY <1>5, <2>3 DEF LabelsSpread, SitesSpread
      <3>2. CASE n \in {n1, n2}
        <4>1. n1 \in X /\ n2 \in X
          BY <1>4, <2>3, <3>2
        <4>2. label'[n] = label[n1] \cup label[n2]
          BY <1>3, <2>1, <2>3, <3>2
        <4>3. label'[n] \subseteq UNION {start[j] : j \in X}
          BY <3>1, <4>1, <4>2
        <4> QED
          BY <1>2, <4>3
      <3>3. CASE n \notin {n1, n2}
        <4>1. label'[n] = label[n]
          BY <1>3, <2>3, <3>3
        <4> QED
          BY <1>2, <2>3, <3>1, <4>1
      <3> QED
        BY <3>2, <3>3
    <2> QED
      BY <2>2, <2>3, IsolatedStays DEF SitesSpread
  <1>6. ASSUME op = "UniqueScalar" PROVE ScalarsSpread'
    <2>1. m = IF label[n1] = label[n2] THEN label[n1] ELSE NoScalar
      BY <1>1, <1>6 DEF Merged, MergedScalar
    <2>2. ASSUME NEW n \in Node PROVE label'[n] \in {start'[n], NoScalar}
      <3>1. label[n] \in {start[n], NoScalar} /\ label'[n] \in {label[n], NoScalar}
        BY <1>3, <1>6, <2>1 DEF LabelsSpread, ScalarsSpread
      <3> QED
        BY <1>2, <3>1
    <2>3. ASSUME NEW X \in SUBSET Node, NEW v, Isolated(X),
                 \A k \in X : start'[k] = v, NEW n \in X
          PROVE  label'[n] = v
      <3>1. \A k \in X : label[k] = v
        BY <1>2, <1>6, <2>3 DEF LabelsSpread, ScalarsSpread
      <3>2. CASE n \in {n1, n2}
        <4>1. n1 \in X /\ n2 \in X
          BY <1>4, <2>3, <3>2
        <4> QED
          BY <1>3, <2>1, <3>1, <3>2, <4>1
      <3>3. CASE n \notin {n1, n2}
        BY <1>3, <2>3, <3>1, <3>3
      <3> QED
        BY <3>2, <3>3
    <2> QED
      BY <2>2, <2>3, IsolatedStays DEF ScalarsSpread
  <1>7. /\ op # "AllocaSite" => SitesSpread'
        /\ op # "UniqueScalar" => ScalarsSpread'
    BY <1>2 DEF SitesSpread, ScalarsSpread
  <1> QED
    BY <1>5, <1>6, <1>7 DEF LabelsSpread

LEMMA NextSpreads ==
    TypeOK /\ OnCourse' /\ LabelsSpread /\ [Next]_vars => LabelsSpread'
  <1> SUFFICES ASSUME TypeOK, OnCourse', LabelsSpread, [Next]_vars
               PROVE  LabelsSpread'
    OBVIOUS
  <1>1. CASE MergePair
    BY <1>1, MergeSpreads
  <1>2. CASE ~MergePair
    <2>1. UNCHANGED <<op, start, label>>
      BY <1>2 DEF Next, vars, FirstPass, Dequeue, Execute, RunOnCallSite, NoSuchLink,
                  AlreadySeen, Notify, CallSiteDone, fixed
    <2> QED
      BY <2>1, IsolatedStays DEF LabelsSpread, SitesSpread, ScalarsSpread
  <1> QED
    BY <1>1, <1>2

LEMMA InitOnCourse == Init => OnCourse /\ LabelsSpread
  <1> SUFFICES ASSUME Init PROVE OnCourse /\ LabelsSpread
    OBVIOUS
  <1>1. /\ at = "idle" /\ pass = CallOrder /\ start = label
        /\ met = [cs \in CallSite |-> {}]
    BY DEF Init
  <1>2. \A cs \in CallSite : cs \in Elems(pass) /\ met[cs] = {}
    BY <1>1, CallSiteAssumption DEF Elems
  <1> QED
    BY <1>1, <1>2 DEF OnCourse, LabelsSpread, SitesSpread, ScalarsSpread

\* Joining the nodes connected with some more of them.
Joined(known) == known \cup {k \in Node : \E m \in known : Compared(m, k)}
Reached(g, n) == g[0] = {n} /\ \A i \in Nat : g[i] \subseteq Node /\ g[i + 1] = Joined(g[i])

\* A group is reached from its node, and compared with no other.
LEMMA GroupReached ==
    ASSUME NEW n \in Node
    PROVE  \E g : /\ Reached(g, n) /\ Group(n) = g[Cardinality(Node)]
                  /\ Cardinality(Node) \in Nat /\ Joined(Group(n)) = Group(n)
  <1> DEFINE F == [V \in SUBSET Node |-> Joined(V)]
             upTo(f) == [i \in Nat |-> IF i = 0 THEN {n} ELSE Joined(f[i - 1])]
  <1>1. F \in [SUBSET Node -> SUBSET Node] /\ \A V \in SUBSET Node : V \subseteq F[V]
    BY DEF Joined
  <1>2. PICK f : Iterating(f, SUBSET Node, {n}, F)
    <2>1. {n} \in SUBSET Node
      OBVIOUS
    <2> HIDE DEF F
    <2> QED
      BY <1>1, <2>1, Iterates
  <1>3. f \in [Nat -> SUBSET Node] /\ f[0] = {n} /\ \A i \in Nat : f[i + 1] = Joined(f[i])
    BY <1>2 DEF Iterating
  <1>4. f = upTo(f)
    <2>1. ASSUME NEW i \in Nat, i # 0 PROVE f[i] = Joined(f[i - 1])
      <3>1. i - 1 \in Nat /\ i - 1 + 1 = i
        BY <2>1
      <3> QED
        BY <3>1, <1>3
    <2> QED
      BY <2>1, <1>3
  <1>5. PICK h : /\ h = upTo(h) /\ Group(n) = h[Cardinality(Node)]
    <2> DEFINE h == CHOOSE h : h = upTo(h)
    <2>1. h = upTo(h)
      BY <1>4
    <2>2. Group(n) = h[Cardinality(Node)]
      BY DEF Group, Joined
    <2> QED
      BY <2>1, <2>2
  <1>6. h[0] = {n} /\ \A i \in Nat : h[i + 1] = Joined(h[i])
    <2>1. h[0] = {n}
      BY <1>5
    <2>2. ASSUME NEW i \in Nat PROVE h[i + 1] = Joined(h[i])
      <3>1. i + 1 \in Nat /\ i + 1 # 0 /\ i + 1 - 1 = i
        OBVIOUS
      <3>2. PICK j : j = i + 1
        OBVIOUS
      <3>3. upTo(h)[j] = Joined(h[j - 1])
        BY <3>1, <3>2
      <3>4. h[j] = upTo(h)[j]
        BY <1>5
      <3> QED
        BY <3>1, <3>2, <3>3, <3>4
    <2> QED
      BY <2>1, <2>2
  <1>7. \A i \in Nat : h[i] \subseteq Node
    <2> DEFINE P == {i \in Nat : h[i] \subseteq Node}
    <2>1. 0 \in P
      BY <1>6
    <2>2. ASSUME NEW i \in P PROVE i + 1 \in P
      <3>1. i \in Nat /\ i + 1 \in Nat /\ h[i] \subseteq Node
        OBVIOUS
      <3>2. h[i + 1] = Joined(h[i])
        BY <1>6, <3>1
      <3>3. Joined(h[i]) \subseteq Node
        BY <3>1 DEF Joined
      <3> QED
        BY <3>1, <3>2, <3>3
    <2>3. P \in SUBSET Nat
      OBVIOUS
    <2> HIDE DEF P
    <2>4. P = Nat
      BY <2>1, <2>2, <2>3, SetInduction
    <2> QED
      BY <2>4 DEF P
  <1>8. Iterating(h, SUBSET Node, {n}, F)
    <2>1. h \in [Nat -> SUBSET Node]
      BY <1>5, <1>7
    <2>2. \A i \in Nat : h[i + 1] = F[h[i]]
      BY <1>6, <1>7
    <2> HIDE DEF F
    <2> QED
      BY <1>6, <2>1, <2>2 DEF Iterating
  <1>9. /\ Cardinality(Node) \in Nat
        /\ F[h[Cardinality(Node)]] = h[Cardinality(Node)]
    <2>1. IsFiniteSet(Node)
      BY ComponentsAssumption
    <2> HIDE DEF F
    <2> QED
      BY <1>1, <1>8, <2>1, Saturates
  <1>10. Joined(Group(n)) = Group(n)
    BY <1>5, <1>7, <1>9
  <1> HIDE DEF upTo, F
  <1>11. Reached(h, n)
    BY <1>6, <1>7 DEF Reached
  <1> QED
    BY <1>5, <1>9, <1>10, <1>11

\* The group of a node: the node itself, and all with which its nodes are linked;
\* its nodes agree.
LEMMA GroupAgrees ==
    ASSUME TypeOK, OnCourse, ComparedAgree, Done, NEW n \in Node
    PROVE  /\ n \in Group(n) /\ Group(n) \in SUBSET Node /\ Isolated(Group(n))
           /\ \A m \in Group(n) : label[m] = label[n]
  <1>1. PICK g : /\ Reached(g, n) /\ Group(n) = g[Cardinality(Node)]
                 /\ Cardinality(Node) \in Nat /\ Joined(Group(n)) = Group(n)
    BY GroupReached
  <1>2. g[0] = {n} /\ \A i \in Nat : g[i] \subseteq Node /\ g[i + 1] = Joined(g[i])
    BY <1>1 DEF Reached
  <1>3. \A m, k : Linked(m, k) => Compared(m, k)
    BY AllComparedAtEnd DEF Linked, Compared
  <1>4. Isolated(Group(n))
    BY <1>1, <1>3 DEF Joined, Isolated
  <1>5. \A m, k : Compared(m, k) => label[m] = label[k]
    <2> SUFFICES ASSUME NEW m, NEW k, NEW cs \in CallSite,
                        <<m, k>> \in met[cs] \/ <<k, m>> \in met[cs]
                 PROVE  label[m] = label[k]
      BY DEF Compared
    <2> QED
      BY DEF ComparedAgree, Agree
  <1> DEFINE P == {i \in Nat : n \in g[i] /\ \A m \in g[i] : label[m] = label[n]}
  <1>6. 0 \in P
    BY <1>2
  <1>7. ASSUME NEW i \in P PROVE i + 1 \in P
    <2>1. i \in Nat /\ i + 1 \in Nat /\ n \in g[i] /\ \A m \in g[i] : label[m] = label[n]
      OBVIOUS
    <2>2. g[i + 1] = Joined(g[i])
      BY <1>2, <2>1
    <2>3. n \in g[i + 1]
      BY <2>1, <2>2 DEF Joined
    <2>4. ASSUME NEW k \in g[i + 1] PROVE label[k] = label[n]
      BY <1>5, <2>1, <2>2 DEF Joined
    <2> QED
      BY <2>1, <2>3, <2>4
  <1>8. P \in SUBSET Nat
    OBVIOUS
  <1>9. P = Nat
    <2> HIDE DEF P
    <2> QED
      BY <1>6, <1>7, <1>8, SetInduction
  <1> QED
    BY <1>1, <1>2, <1>4, <1>9

LEMMA SpreadExactly ==
    ASSUME TypeOK, OnCourse, ComparedAgree, LabelsSpread
    PROVE  LabelsExact
  <1> SUFFICES ASSUME Done, NEW n \in Node
               PROVE  label[n] = IF op = "AllocaSite"
                                 THEN UNION {start[m] : m \in Group(n)}
                                 ELSE IF {start[m] : m \in Group(n)} = {start[n]}
                                      THEN start[n] ELSE NoScalar
    BY DEF LabelsExact
  <1>1. PICK X : X = Group(n)
    OBVIOUS
  <1>2. /\ n \in X /\ X \in SUBSET Node /\ Isolated(X)
        /\ \A m \in X : label[m] = label[n]
    BY <1>1, GroupAgrees
  <1>3. CASE op = "AllocaSite"
    <2>1. label[n] \subseteq UNION {start[m] : m \in X}
      BY <1>2, <1>3 DEF LabelsSpread, SitesSpread
    <2>2. \A m \in X : start[m] \subseteq label[n]
      BY <1>2, <1>3 DEF LabelsSpread, SitesSpread
    <2>3. label[n] = UNION {start[m] : m \in X}
      BY <2>1, <2>2
    <2> QED
      BY <1>1, <1>3, <2>3
  <1>4. CASE op = "UniqueScalar"
    <2>1. CASE {start[m] : m \in X} = {start[n]}
      <3>1. \A m \in X : start[m] = start[n]
        BY <2>1
      <3>2. label[n] = start[n]
        BY <1>2, <1>4, <3>1 DEF LabelsSpread, ScalarsSpread
      <3> QED
        BY <1>1, <1>4, <2>1, <3>2
    <2>2. CASE {start[m] : m \in X} # {start[n]}
      <3>1. PICK m \in X : start[m] # start[n]
        BY <1>2, <2>2
      <3>2. /\ label[n] \in {start[n], NoScalar} /\ label[m] \in {start[m], NoScalar}
            /\ label[m] = label[n]
        BY <1>2, <1>4 DEF LabelsSpread, ScalarsSpread
      <3>3. label[n] = NoScalar
        BY <3>1, <3>2
      <3> QED
        BY <1>1, <1>4, <2>2, <3>3
    <2> QED
      BY <2>1, <2>2
  <1> QED
    BY <1>3, <1>4 DEF TypeOK

\* A node ends with the sites of all the nodes that call sites connect it with, and
\* keeps its scalar exactly if all of them have it, in whichever order the worklist
\* runs and for every call graph: no execution adds or takes more, none is missing.
THEOREM ClosureExact == Spec => []LabelsExact
  <1>1. TypeOK /\ TypeOK' /\ OnCourse /\ LabelsSpread /\ [Next]_vars
          => OnCourse' /\ LabelsSpread'
    BY NextOnCourse, NextSpreads
  <1>2. TypeOK /\ OnCourse /\ ComparedAgree /\ LabelsSpread => LabelsExact
    BY SpreadExactly
  <1> QED
    BY <1>1, <1>2, InitOnCourse, ClosureTypeCorrect, ClosureForgetsNobody, PTL DEF Spec
=============================================================================
