---------------------------- MODULE CallSiteClosure ----------------------------
(* CallGraphClosure of the context-sensitive analysis (lib/seadsa/DsaGlobal.cc):
   once no graph needs to be cloned any more, unique scalars, and after them
   allocation sites, are propagated along the call sites until callers and
   callees agree.  The two closures touch different fields of the nodes, differ
   only in how two nodes are merged, and have an option each, so a behaviour is
   one of them: op says which, and label is the field it works on.

   Functions are represented by the components of the call graph: the functions
   of a component share a graph, their uses and their defs.  Field types, arrays
   and collapsed nodes are left out: a field is an offset.  *)
EXTENDS Naturals, Sequences, FiniteSets

CONSTANTS
    Component,          \* components of the call graph
    Node, GraphOf,      \* nodes, and the component whose graph a node is in
    CallSite,           \* call sites,
    Caller, Callee,     \*   the components they lead from and to,
    CallOrder,          \*   and the order in which scc_begin meets them
    MaxField,           \* fields are the offsets 0 .. MaxField
    Modified,           \* nodes with the flag modified
    Shape,              \* graphs with the nodes that call sites connect
    Site, Scalar,       \* allocation sites, scalars
    StartSites, StartScalars,   \* what nodes carry at the beginning
    NoLink, NoScalar, NoCall

Field == 0 .. MaxField
NodesOf(g) == {n \in Node : GraphOf[n] = g}
CellsOf(g) == [node : NodesOf(g), off : Field]
Links(g) == CellsOf(g) \cup {NoLink}

\* The two cells of a parameter, a global or a returned value at a call site:
\* the one in the graph of the callee, the one in the graph of the caller.
Parameters(cs) == CellsOf(Callee[cs]) \X CellsOf(Caller[cs])

\* Links stay in the graph of their node; call sites compare cells of the graphs
\* of their callee and of their caller.
LinksOK(links) ==
    /\ DOMAIN links = Node
    /\ \A n \in Node : links[n] \in [Field -> Links(GraphOf[n])]
RootsOK(roots) ==
    /\ DOMAIN roots = CallSite
    /\ \A cs \in CallSite : roots[cs] \in Seq(Parameters(cs))

ASSUME ComponentsAssumption ==
    /\ IsFiniteSet(Node)
    /\ GraphOf \in [Node -> Component]
    /\ Caller \in [CallSite -> Component]
    /\ Callee \in [CallSite -> Component]
\* Uses, defs and the first loop of runOnModule come from the same call records.
ASSUME CallSiteAssumption ==
    /\ IsFiniteSet(CallSite)
    /\ NoCall \notin CallSite
    /\ CallOrder \in Seq(CallSite)
    /\ \A cs \in CallSite : \E i \in 1 .. Len(CallOrder) : CallOrder[i] = cs
ASSUME FieldAssumption ==
    /\ MaxField \in Nat
    /\ \A g \in Component : NoLink \notin CellsOf(g)
ASSUME ShapeAssumption ==
    \A s \in Shape : LinksOK(s.link) /\ RootsOK(s.root)
ASSUME LabelAssumption ==
    /\ StartSites \subseteq [Node -> SUBSET Site]
    /\ StartScalars \subseteq [Node -> Scalar \cup {NoScalar}]

VARIABLES
    op,         \* "AllocaSite" or "UniqueScalar"
    link,       \* m_links of every node
    root,       \* the pairs of cells that exec_callsite compares, in order
    label,      \* m_alloca_sites or m_unique_scalar of every node
    start,      \* label at the beginning; read by properties only
    pass,       \* call sites that the first loop of runOnModule has ahead
    queue,      \* m_w
    at,         \* where the thread is: "idle", "callsite" or "merge"
    current,    \* the call site it executes
    rest,       \* the pairs of cells of it that remain
    todo,       \* recursive calls of the merge that remain
    seen,       \* nodes of the caller that the merge has met
    changed,    \* the bits it returns: subset of {"callee", "caller"}
    met         \* node pairs merged by the last execution of a call site;
                \* read by properties only

vars == <<op, link, root, label, start, pass, queue, at, current, rest, todo,
          seen, changed, met>>
fixed == <<op, link, root, start>>

Label == IF op = "AllocaSite" THEN SUBSET Site ELSE Scalar \cup {NoScalar}
Waiting == {queue[i] : i \in 1 .. Len(queue)}
-----------------------------------------------------------------------------
(* What the analysis has established before: at every call site, the nodes of
   the callee are simulated by the nodes of the caller.  A triple <<n1, n2, k>>
   says that the callee's n1 lies at offset k of the caller's n2. *)

SimulatedAt(c1, c2) ==
    IF c1.off <= c2.off THEN {<<c1.node, c2.node, c2.off - c1.off>>} ELSE {}

\* The nodes below a pair: the link of n1 at j corresponds to that of n2 at j + k.
Below(links, t) ==
    UNION {SimulatedAt(links[t[1]][j], links[t[2]][j + t[3]]) :
             j \in {f \in Field : /\ f + t[3] \in Field
                                 /\ links[t[1]][f] # NoLink
                                 /\ links[t[2]][f + t[3]] # NoLink}}

\* The nodes that pairs of cells lead to in a number of links.
SimulatedWithin(links, pairs) ==
    LET upTo[i \in Nat] ==
            IF i = 0 THEN UNION {SimulatedAt(pairs[k][1], pairs[k][2]) :
                                   k \in 1 .. Len(pairs)}
            ELSE LET known == upTo[i - 1]
                 IN  known \cup UNION {Below(links, t) : t \in known}
    IN  upTo

Simulation(cs) ==
    SimulatedWithin(link, root[cs])[Cardinality(Node) * Cardinality(Node)]

\* decidePropagation answers NONE: everything below is simulated, in one way
\* (isFunction), and no two nodes of the callee are in the same place of a
\* modified node of the caller (isInjective).
NoPropagation(cs) ==
    /\ \A i \in 1 .. Len(root[cs]) : root[cs][i][1].off <= root[cs][i][2].off
    /\ \A t \in Simulation(cs), j \in Field :
           link[t[1]][j] # NoLink =>
               /\ j + t[3] \in Field /\ link[t[2]][j + t[3]] # NoLink
               /\ link[t[1]][j].off <= link[t[2]][j + t[3]].off
    /\ \A t, u \in Simulation(cs) : t[1] = u[1] => t = u
    /\ \A t, u \in Simulation(cs) :
           t[2] = u[2] /\ t[3] = u[3] /\ t[2] \in Modified => t = u

\* Cloning a node to the other side of a call site and merging it there leaves
\* the scalar of the one or none (Node::pointTo).
ScalarsReconciled(cs) ==
    \A t \in Simulation(cs) :
        label[t[1]] # label[t[2]] => NoScalar \in {label[t[1]], label[t[2]]}

-----------------------------------------------------------------------------
\* Call sites that lead to a function of component g, and those inside it.
getUses(g) == {cs \in CallSite : Callee[cs] = g}
getDefs(g) == {cs \in CallSite : Caller[cs] = g}

\* mutant of Dependents: only the call sites above the component
DependentsAbove ==
    UNION {getUses(g) :
             g \in {IF side = "callee" THEN Callee[current] ELSE Caller[current] :
                      side \in changed}}

\* The call sites to execute again after runOnCallSite.
Dependents ==
    UNION {getUses(g) \cup getDefs(g) :
             g \in {IF side = "callee" THEN Callee[current] ELSE Caller[current] :
                      side \in changed}}

\* All orders of a set. Uses and defs are vectors, in the order in which the call
\* graph was walked; here the order is left open, so results hold for any.
Orders(S) == {s \in [1 .. Cardinality(S) -> S] :
                /\ \A x \in S : \E i \in 1 .. Cardinality(S) : s[i] = x
                /\ \A i, k \in 1 .. Cardinality(S) : s[i] = s[k] => i = k}

\* mutant of Enqueue: does not look for what is waiting already
EnqueueAgain(S) == \E order \in Orders(S) : queue' = queue \o order

\* WorkList::enqueue drops what is waiting already.
Enqueue(S) == \E order \in Orders(S \ Waiting) : queue' = queue \o order

\* mutant of MergedScalar: what one node lacks, the other gives
MergedScalarKept(a, b) == IF a = b \/ b = NoScalar THEN a ELSE b

\* A scalar survives where both nodes have it; sites are joined.
MergedScalar(a, b) == IF a = b THEN a ELSE NoScalar
MergedSites(a, b) == a \cup b
Merged(a, b) == IF op = "AllocaSite" THEN MergedSites(a, b) ELSE MergedScalar(a, b)

\* mutant of ChangedBits: says that both change even if neither does
ChangedBitsBoth(a, b) == {"callee", "caller"}

\* The bits that mergeUniqueScalar and mergeAllocSites return for one pair.
ChangedBits(a, b) == {side \in {"callee"} : a # Merged(a, b)}
                        \cup {side \in {"caller"} : b # Merged(a, b)}

\* mutant of LinkPairs: leaves out the last field
LinkPairsButLast(n1, n2) == [i \in 1 .. MaxField |-> <<link[n1][i - 1], link[n2][i - 1]>>]

\* The recursive calls for the links of n2 that n1 has too, field by field. The
\* fields are compared as they are, wherever n1 lies in n2.
LinkPairs(n1, n2) == [i \in 1 .. MaxField + 1 |-> <<link[n1][i - 1], link[n2][i - 1]>>]

Init ==
    /\ op \in {"AllocaSite", "UniqueScalar"}
    /\ \E s \in Shape : link = s.link /\ root = s.root
    /\ \A cs \in CallSite : NoPropagation(cs)
    /\ label \in IF op = "AllocaSite" THEN StartSites ELSE StartScalars
    /\ op = "UniqueScalar" => \A cs \in CallSite : ScalarsReconciled(cs)
    /\ start = label
    /\ pass = CallOrder /\ queue = <<>>
    /\ at = "idle" /\ current = NoCall /\ rest = <<>>
    /\ todo = <<>> /\ seen = {} /\ changed = {}
    /\ met = [cs \in CallSite |-> {}]

\* exec_callsite begins
Execute(cs) ==
    /\ at' = "callsite"
    /\ current' = cs
    /\ rest' = root[cs]
    /\ met' = [met EXCEPT ![cs] = {}]
    /\ UNCHANGED <<fixed, label, todo, seen, changed>>

FirstPass ==
    /\ at = "idle" /\ pass # <<>>
    /\ Execute(Head(pass))
    /\ pass' = Tail(pass)
    /\ UNCHANGED queue

Dequeue ==
    /\ at = "idle" /\ pass = <<>> /\ queue # <<>>
    /\ Execute(Head(queue))
    /\ queue' = Tail(queue)
    /\ UNCHANGED pass

\* Op::runOnCallSite on the next pair of cells; only their nodes are used.
RunOnCallSite ==
    /\ at = "callsite" /\ rest # <<>>
    /\ at' = "merge"
    /\ todo' = <<Head(rest)>> /\ rest' = Tail(rest)
    /\ seen' = {} /\ changed' = {}
    /\ UNCHANGED <<fixed, label, pass, queue, current, met>>

Missing(p) == p[1] = NoLink \/ p[2] = NoLink

\* hasLink(j) is false, or n2 has no link j
NoSuchLink ==
    /\ at = "merge" /\ todo # <<>>
    /\ Missing(Head(todo))
    /\ todo' = Tail(todo)
    /\ UNCHANGED <<fixed, label, pass, queue, at, current, rest, seen, changed, met>>

\* the recursive call finds its node of the caller in seen
AlreadySeen ==
    /\ at = "merge" /\ todo # <<>>
    /\ ~Missing(Head(todo)) /\ Head(todo)[2].node \in seen
    /\ todo' = Tail(todo)
    /\ UNCHANGED <<fixed, label, pass, queue, at, current, rest, seen, changed, met>>

\* mergeUniqueScalar or mergeAllocSites on one pair of nodes
MergePair ==
    /\ at = "merge" /\ todo # <<>>
    /\ ~Missing(Head(todo)) /\ Head(todo)[2].node \notin seen
    /\ LET n1 == Head(todo)[1].node
           n2 == Head(todo)[2].node
           m == Merged(label[n1], label[n2])
       IN  /\ label' = [label EXCEPT ![n1] = m, ![n2] = m]
           /\ changed' = changed \cup ChangedBits(label[n1], label[n2])
           /\ seen' = seen \cup {n2}
           /\ todo' = LinkPairs(n1, n2) \o Tail(todo)
           /\ met' = [met EXCEPT ![current] = @ \cup {<<n1, n2>>}]
    /\ UNCHANGED <<fixed, pass, queue, at, current, rest>>

\* runOnCallSite returns
Notify ==
    /\ at = "merge" /\ todo = <<>>
    /\ Enqueue(Dependents)
    /\ at' = "callsite"
    /\ changed' = {}
    /\ UNCHANGED <<fixed, label, pass, current, rest, todo, seen, met>>

\* exec_callsite returns
CallSiteDone ==
    /\ at = "callsite" /\ rest = <<>>
    /\ at' = "idle"
    /\ current' = NoCall
    /\ UNCHANGED <<fixed, label, pass, queue, rest, todo, seen, changed, met>>

Next == \/ FirstPass \/ Dequeue \/ RunOnCallSite
        \/ NoSuchLink \/ AlreadySeen \/ MergePair
        \/ Notify \/ CallSiteDone

Spec == Init /\ [][Next]_vars

\* One thread runs the closure to its end.
FairSpec == Spec /\ WF_vars(Next)
-----------------------------------------------------------------------------
Done == at = "idle" /\ pass = <<>> /\ queue = <<>>

\* Types; a call site is in the worklist at most once (WorkList keeps a set
\* beside its queue).
TypeOK ==
    /\ op \in {"AllocaSite", "UniqueScalar"}
    /\ LinksOK(link) /\ RootsOK(root)
    /\ label \in [Node -> Label]
    /\ pass \in Seq(CallSite)
    /\ queue \in Seq(CallSite)
    /\ \A i, k \in 1 .. Len(queue) : queue[i] = queue[k] => i = k
    /\ at \in {"idle", "callsite", "merge"}
    /\ current \in IF at = "idle" THEN {NoCall} ELSE CallSite
    /\ at # "idle" => rest \in Seq(Parameters(current))
    /\ at = "merge" => todo \in Seq(Links(Callee[current]) \X Links(Caller[current]))
    /\ seen \subseteq Node
    /\ changed \subseteq {"callee", "caller"}
    /\ DOMAIN met = CallSite
    /\ \A cs \in CallSite : met[cs] \subseteq NodesOf(Callee[cs]) \X NodesOf(Caller[cs])

Agree(n1, n2) == label[n1] = label[n2]

\* the nodes that correspond to each other at a call site agree
CorrespondingAgree(cs) == \A t \in Simulation(cs) : Agree(t[1], t[2])

\* No node of the callee lies inside one of the caller at an offset, and no two
\* correspond to the same node.
Aligned(cs) == /\ \A t \in Simulation(cs) : t[3] = 0
               /\ \A t, u \in Simulation(cs) : t[2] = u[2] => t = u

\* When the closure ends, the nodes that a call site compared last agree, though
\* later executions, of other call sites too, went on changing them: whoever
\* changes a node puts every call site that may have compared it back into the
\* worklist (UniqueScalar::runOnCallSite, AllocaSite::runOnCallSite).
ComparedAgree == Done => \A cs \in CallSite : \A p \in met[cs] : Agree(p[1], p[2])

\* The caller and the callee of a call site agree on all nodes that correspond to
\* each other, as the options sea-dsa-norm-alloca-sites and sea-dsa-norm-unique-scalar
\* promise (DsaGlobal.cc:36,41), where the call site is aligned: then the traversal
\* that mergeUniqueScalar and mergeAllocSites make of the two graphs, which compares
\* links at equal fields and visits a node of the caller once, meets every pair.
AlignedAgree == Done => \A cs \in CallSite : Aligned(cs) => CorrespondingAgree(cs)

\* The closure ends, though its call sites put each other back into the worklist
\* (CallGraphClosure::runOnModule), and on cyclic graphs.
ClosureEnds == <>Done
=============================================================================
