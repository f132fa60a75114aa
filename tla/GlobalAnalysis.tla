---------------------------- MODULE GlobalAnalysis ----------------------------
(* The analyses over a whole program (lib/seadsa/DsaBottomUp.cc, DsaTopDown.cc
   and DsaGlobal.cc), from the graphs that the local analysis has built:

     "cs"    ContextSensitiveGlobalAnalysis: the bottom-up pass clones callees
             into callers; then graphs are cloned down and up call sites until
             every caller simulates its callees, one node for one node
     "butd"  BottomUpTopDownGlobalAnalysis: one pass bottom-up, one top-down,
             with globals kept apart (flowSensitiveOpt)
     "bu"    BottomUpGlobalAnalysis: the bottom-up pass of the latter alone

   A step is one call of cloneAndResolveArguments with what its caller does
   around it; nothing runs concurrently.  What is open is the order of maps and
   sets that are sorted by address: which globals come first, which call sites
   the worklist returns.  Functions are represented by the components of the
   call graph, whose functions share a graph.  *)
EXTENDS Cloner, FiniteSetsExt

CONSTANTS
    Component, Var, VarOf,      \* components; pointer variables, their component
    CallSite, Caller, Callee,   \* call sites, the components at their ends
    Passes,                     \* pairs <<formal, actual>> of a call site, in order
    Returns,                    \* pairs <<ret cell, instruction>>: one or none
    UniqueReturn,               \* findUniqueReturnValue if a global, or NoSite
    BottomUpOrder, TopDownOrder,    \* call sites in the orders of the passes
    Analysis,                   \* the analyses of interest
    LocalGraphs                 \* heaps that the local analysis may leave

ASSUME ProgramAssumption ==
    /\ VarOf \in [Var -> Component]
    /\ Caller \in [CallSite -> Component] /\ Callee \in [CallSite -> Component]
    /\ UniqueReturn \in [CallSite -> GlobalVar \cup {NoSite}]
    /\ BottomUpOrder \in Seq(CallSite) /\ TopDownOrder \in Seq(CallSite)
    /\ NoSite \notin GlobalVar

VARIABLES
    analysis,
    heap,
    local,      \* the heap at the beginning; read by properties only
    phase,      \* "bu", "td" or "worklist", and "done"
    pending,    \* call sites that the pass has ahead
    queue,      \* call sites in the worklist
    summary,    \* m_bu_graphs: copies of the graphs as the bottom-up pass left them
    last        \* the propagation of the last step; read by properties only

vars == <<analysis, heap, local, phase, pending, queue, summary, last>>

flow == analysis \in {"butd", "bu"}
Slot(c, v) == <<c, v>>
CalleeSlot(cs, v) == <<Callee[cs], v>>
CallerSlot(cs, v) == <<Caller[cs], v>>
GlobalsOf(h, c) == {v \in GlobalVar : <<c, v>> \in Slots(h)}
-----------------------------------------------------------------------------
(* cloneAndResolveArguments *)

Kept(v) == IF flow THEN v ELSE NoSite

\* From the callee up: globals, the returned value, parameters, which the caller gave.
UpTransfers(h, cs, globals) ==
    LET returned == SelectSeq(Returns[cs], LAMBDA p : CalleeSlot(cs, p[1]) \in Slots(h))
        passed == SelectSeq(Passes[cs], LAMBDA p : CalleeSlot(cs, p[1]) \in Slots(h))
        only == Kept(UniqueReturn[cs])
        global(v) == Transfer(CalleeSlot(cs, v), <<CallerSlot(cs, v)>>, FALSE, Kept(v))
        return(p) == Transfer(CalleeSlot(cs, p[1]),
                              <<CallerSlot(cs, p[2])>> \o
                                  (IF only = NoSite THEN <<>> ELSE <<CallerSlot(cs, only)>>),
                              FALSE, only)
        actual(p) == [Transfer(CalleeSlot(cs, p[1]), <<CallerSlot(cs, p[2])>>, FALSE, NoSite)
                        EXCEPT !.known = TRUE]
    IN  [i \in 1 .. Len(globals) |-> global(globals[i])]
        \o [i \in 1 .. Len(returned) |-> return(returned[i])]
        \o [i \in 1 .. Len(passed) |-> actual(passed[i])]

\* From the caller down: globals that the callee knows, the value returned, and
\* actuals, whose objects on the stack come along (noescape).
DownTransfers(h, cs, globals) ==
    LET known(s) == s[2] \in GlobalVar \/ s \in Slots(h)
        here == SelectSeq(globals, LAMBDA v : CalleeSlot(cs, v) \in Slots(h))
        both(p) == known(CallerSlot(cs, p[2])) /\ CalleeSlot(cs, p[1]) \in Slots(h)
        returned == SelectSeq(Returns[cs], both)
        passed == SelectSeq(Passes[cs], both)
        only(p) == IF p[2] \in GlobalVar THEN Kept(p[2]) ELSE NoSite
        global(v) == Transfer(CallerSlot(cs, v), <<CalleeSlot(cs, v)>>, FALSE, Kept(v))
        return(p) == Transfer(CallerSlot(cs, p[2]), <<CalleeSlot(cs, p[1])>>, FALSE, NoSite)
        formal(p) == Transfer(CallerSlot(cs, p[2]),
                              <<CalleeSlot(cs, p[1])>> \o
                                  (IF only(p) = NoSite THEN <<>> ELSE <<CalleeSlot(cs, p[2])>>),
                              TRUE, only(p))
    IN  [i \in 1 .. Len(here) |-> global(here[i])]
        \o [i \in 1 .. Len(returned) |-> return(returned[i])]
        \o [i \in 1 .. Len(passed) |-> formal(passed[i])]

CloneUp(h, cs, globals, oldest) ==
    compress(BringAll(h, [into |-> Caller[cs], strip |-> TRUE, oldest |-> oldest],
                      UpTransfers(h, cs, globals)))
CloneDown(h, cs, globals, oldest) ==
    compress(BringAll(h, [into |-> Callee[cs], strip |-> TRUE, oldest |-> oldest],
                      DownTransfers(h, cs, globals)))

-----------------------------------------------------------------------------
(* decidePropagation *)

\* The cells that computeCalleeCallerMapping compares.
Compared(h, cs) ==
    LET both(p) == {CalleeSlot(cs, p[1]), CallerSlot(cs, p[2])} \subseteq Slots(h)
        pairs == {<<v, v>> : v \in GlobalsOf(h, Callee[cs])}
                 \cup {p \in Range(Returns[cs]) \cup Range(Passes[cs]) : both(p)}
    IN  {<<CellOf(h, CalleeSlot(cs, p[1])), CellOf(h, CallerSlot(cs, p[2]))>> : p \in pairs}

decidePropagation(h, cs) ==
    LET sim == Mapped(h, h, Compared(h, cs))
    IN  IF ~Simulated(h, h, Compared(h, cs)) \/ ~isFunction(sim) THEN "UP"
        ELSE IF isInjective(h, sim) THEN "NONE" ELSE "DOWN"

getUses(c) == {cs \in CallSite : Callee[cs] = c}
getDefs(c) == {cs \in CallSite : Caller[cs] = c}
\* checkNoMorePropagation
checkNoMorePropagation(h) == \A cs \in CallSite : decidePropagation(h, cs) = "NONE"

\* checkAllNodesAreMapped: what the callee reaches from parameters and globals
checkAllNodesAreMapped(h, cs) ==
    LET inputs == {CalleeSlot(cs, v) : v \in GlobalsOf(h, Callee[cs])}
                  \cup {CalleeSlot(cs, p[1]) : p \in Range(Passes[cs])}
    IN  Reach(h, {CellOf(h, s)[1] : s \in inputs \cap Slots(h)})
            \subseteq {t[1] : t \in Mapped(h, h, Compared(h, cs))}

-----------------------------------------------------------------------------
(* Graph::import, into an empty graph: cells one by one, of values, formals and
   returns alike *)

CopyOf(c) == <<"copy", c>>

import(h, c) ==
    LET slots == SetToSeq({s \in Slots(h) : s[1] = c})
        copies == [i \in DOMAIN slots |->
                      Transfer(slots[i], <<<<CopyOf(c), slots[i][2]>>>>, FALSE, NoSite)]
        g == BringAll(h, [into |-> CopyOf(c), strip |-> FALSE, oldest |-> TRUE], copies)
    IN  Keep(g, {s \in Slots(g) : s[1] = CopyOf(c)})

cloneGraphs(h) == [c \in Component |-> import(h, c)]

-----------------------------------------------------------------------------
(* The passes *)

\* Globals are visited in the order of their addresses.
GlobalOrders(h, c) == SetToSeqs(GlobalsOf(h, c))

BottomUpStep ==
    /\ phase = "bu" /\ pending # <<>>
    /\ \E order \in GlobalOrders(heap, Callee[Head(pending)]), oldest \in BOOLEAN :
           heap' = CloneUp(heap, Head(pending), order, oldest)
    /\ pending' = Tail(pending)
    /\ last' = <<"BU", Head(pending)>>
    /\ UNCHANGED <<analysis, local, phase, queue, summary>>

\* The first worklist: call sites with two nodes of the callee in one place.
StartWorklist ==
    /\ phase = "bu" /\ pending = <<>> /\ analysis = "cs"
    /\ phase' = "worklist"
    /\ queue' = {cs \in CallSite : ~isInjective(heap, Mapped(heap, heap, Compared(heap, cs)))}
    /\ summary' = cloneGraphs(heap)
    /\ UNCHANGED <<analysis, heap, local, pending, last>>

StartTopDown ==
    /\ phase = "bu" /\ pending = <<>> /\ analysis = "butd"
    /\ phase' = "td" /\ pending' = TopDownOrder
    /\ summary' = cloneGraphs(heap)
    /\ UNCHANGED <<analysis, heap, local, queue, last>>

\* Clones of the caller's nodes are removed again unless the callee has merged
\* them with a node of its own.
TopDownStep ==
    /\ phase = "td" /\ pending # <<>>
    /\ \E order \in GlobalOrders(heap, Caller[Head(pending)]), oldest \in BOOLEAN :
           LET h == CloneDown(heap, Head(pending), order, oldest)
           IN  heap' = removeNodes(h, {n \in h.foreign : n[1] = Callee[Head(pending)]})
    /\ pending' = Tail(pending)
    /\ last' = <<"TD", Head(pending)>>
    /\ UNCHANGED <<analysis, local, phase, queue, summary>>

\* mutant of Affected: after a propagation up only the callers are looked at again
AffectedAbove(cs, kind) ==
    CASE kind = "DOWN" -> getUses(Callee[cs]) \cup getDefs(Callee[cs])
      [] kind = "UP" -> getUses(Caller[cs])
      [] OTHER -> {}

\* mutant of Affected: also when nothing was propagated
AffectedAlways(cs, kind) ==
    IF kind = "DOWN" THEN getUses(Callee[cs]) \cup getDefs(Callee[cs])
    ELSE getUses(Caller[cs]) \cup getDefs(Caller[cs])

\* The call sites that may need a propagation after one at cs.
Affected(cs, kind) ==
    CASE kind = "DOWN" -> getUses(Callee[cs]) \cup getDefs(Callee[cs])
      [] kind = "UP" -> getUses(Caller[cs]) \cup getDefs(Caller[cs])
      [] OTHER -> {}

Propagate ==
    /\ phase = "worklist"
    /\ \E cs \in queue :
           LET kind == decidePropagation(heap, cs)
               from == IF kind = "DOWN" THEN Caller[cs] ELSE Callee[cs]
           IN  /\ \E order \in GlobalOrders(heap, from) :
                      heap' = CASE kind = "DOWN" -> CloneDown(heap, cs, order, TRUE)
                                [] kind = "UP" -> CloneUp(heap, cs, order, TRUE)
                                [] OTHER -> heap
               /\ queue' = (queue \ {cs}) \cup Affected(cs, kind)
               /\ last' = <<kind, cs>>
    /\ UNCHANGED <<analysis, local, phase, pending, summary>>

Finish ==
    /\ \/ phase = "worklist" /\ queue = {}
       \/ phase = "td" /\ pending = <<>>
       \/ phase = "bu" /\ pending = <<>> /\ analysis = "bu"
    /\ phase' = "done"
    /\ UNCHANGED <<analysis, heap, local, pending, queue, summary, last>>

Init ==
    /\ analysis \in Analysis
    /\ local \in LocalGraphs
    /\ heap = local
    /\ phase = "bu" /\ pending = BottomUpOrder
    /\ queue = {} /\ summary = <<>> /\ last = <<>>

Next == BottomUpStep \/ StartWorklist \/ StartTopDown \/ TopDownStep \/ Propagate \/ Finish

Spec == Init /\ [][Next]_vars

\* The program runs until it is done: WF_vars(Next), whose ENABLED is phase # "done".
FairSpec == Spec /\ ([]<>(phase = "done") \/ []<><<TRUE>>_vars)
-----------------------------------------------------------------------------
(* Properties *)

\* Every cell, link, flag and site is about a node of the heap; links stay in
\* the graph of their node, a field has one link, and no Cloner is at work.
TypeOK ==
    /\ heap.node \subseteq Component \X (1 .. MaxNodes)
    /\ \A p \in heap.cell : p[2][1] \in heap.node /\ p[2][1][1] = p[1][1]
    /\ \A p, q \in heap.cell : p[1] = q[1] => p = q
    /\ \A l \in heap.link : /\ {l[1], l[3][1]} \subseteq heap.node
                            /\ l[1][1] = l[3][1][1]
    /\ \A l, m \in heap.link : l[1] = m[1] /\ l[2] = m[2] => l = m
    /\ heap.folded \cup heap.foreign \subseteq heap.node
    /\ \A p \in heap.site \cup heap.mark : p[1] \in heap.node
    /\ heap.gone \cup heap.copy \cup heap.split = {}

\* The assertions of propagateTopDown and propagateBottomUp: after a graph was
\* propagated along a call site, the same propagation is not needed again.
PropagationSuffices ==
    phase = "worklist" /\ last # <<>> /\ last[1] \in {"DOWN", "UP"}
        => decidePropagation(heap, last[2]) # last[1]

\* The comment on the first simulation maps: after the bottom-up pass every node
\* of a callee is mapped to a single node in the caller.
SimulatedAfterBottomUp ==
    phase = "worklist" /\ last[1] = "BU" =>
        \A cs \in CallSite : decidePropagation(heap, cs) # "UP"

\* A call site needs a propagation only while it is in the worklist, although
\* the first worklist and every later entry rely on older graphs; at the end
\* this is checkNoMorePropagation, and the caller has a node for every node of
\* the callee.
WaitingOrSettled ==
    analysis = "cs" =>
        /\ phase = "worklist" =>
               \A cs \in CallSite \ queue : decidePropagation(heap, cs) = "NONE"
        /\ phase = "done" => /\ checkNoMorePropagation(heap)
                              /\ \A cs \in CallSite : checkAllNodesAreMapped(heap, cs)

\* Sites of objects follow the pointers that are passed: when the bottom-up pass
\* has visited a call site, objects that the callee reaches from a parameter have
\* no sites, stack objects apart, that the caller's do not have; when the top-down
\* pass has visited it, a parameter has all sites of the actual, those on the
\* stack as well.  This is so although clones are first made without sites on the
\* stack or, with flowSensitiveOpt, for single sites, and completed or merged later.
SitesFlow ==
    LET R(cs) == {<<CellOf(heap, CalleeSlot(cs, p[1])), CellOf(heap, CallerSlot(cs, p[2]))>> :
                    p \in {q \in Range(Passes[cs]) : /\ CalleeSlot(cs, q[1]) \in Slots(heap)
                                                    /\ CallerSlot(cs, q[2]) \in Slots(heap)}}
        visited == CallSite \ Range(pending)
    IN  /\ phase = "bu" =>
               \A cs \in visited : \A t \in Mapped(heap, heap, R(cs)) :
                   SitesOf(heap, t[1]) \ StackSite \subseteq SitesOf(heap, t[2])
        /\ phase = "td" =>
               \A cs \in visited : \A r \in R(cs) :
                   SitesOf(heap, r[2][1]) \subseteq SitesOf(heap, r[1][1])

\* Graph g of the slots that f gives has the links, merged values, sites and modified
\* objects of h.
Preserves(h, g, f(_)) ==
    /\ {f(s) : s \in Slots(h)} \subseteq Slots(g)
    /\ LET R == {<<CellOf(h, s), CellOf(g, f(s))>> : s \in Slots(h)}
       IN  /\ Simulated(h, g, R)
           /\ isFunction(Mapped(h, g, R))
           /\ \A t \in Mapped(h, g, R) :
                  /\ SitesOf(h, t[1]) \subseteq SitesOf(g, t[2])
                  /\ t[1] \in Marked(h, "modified") => t[2] \in Marked(g, "modified")

\* No propagation, and no removal of foreign nodes, takes away what the local
\* analysis has found: links, merged values, sites and modified objects.  Nor does
\* the copy of the graphs that is kept of the bottom-up pass.
LocalGraphsKept ==
    /\ Preserves(local, heap, LAMBDA s : s)
    /\ phase = "done" /\ analysis # "bu" =>
           \A c \in Component :
               Preserves(Keep(local, {s \in Slots(local) : s[1] = c}), summary[c],
                     LAMBDA s : <<CopyOf(c), s[2]>>)

\* ContextInsensitiveGlobalAnalysis: one graph for all functions, in which the
\* cells of every call site are unified.
UnifySlots(h, s, t) ==
    IF s \in Slots(h) THEN UnifySlot(h, t, CellOf(h, s)) ELSE h
Insensitive(h) ==
    LET globals == {s \in Slots(h) : s[2] \in GlobalVar}
        same == {e \in globals \X globals : e[1][2] = e[2][2]}
        calls(a, cs) == FoldLeft(LAMBDA b, p : UnifySlots(b, CalleeSlot(cs, p[1]), CallerSlot(cs, p[2])),
                                 a, Returns[cs] \o Passes[cs])
    IN  FoldLeft(calls, FoldSet(LAMBDA e, b : UnifySlots(b, e[1], e[2]), h, same), BottomUpOrder)

\* The graph of a function is never coarser than the one graph of the
\* context-insensitive analysis: what it merges is merged there.
FinerThanInsensitive ==
    phase = "done" =>
        LET flat == Insensitive(local)
            Home(s) == {t \in Slots(flat) : t[2] = s[2] /\ (t = s \/ s[2] \in GlobalVar)}
            R == UNION {{<<CellOf(heap, s), CellOf(flat, t)>> : t \in Home(s)} : s \in Slots(heap)}
        IN  /\ \A s \in Slots(heap) : Home(s) # {}
            /\ Simulated(heap, flat, R) /\ isFunction(Mapped(heap, flat, R))

\* The comment of checkNoMorePropagation: no two nodes of a callee are mapped to
\* the same node of the caller; at least not so that a field they both link from
\* is one field of a modified node of the caller.
NoFieldInTwoNodes ==
    analysis = "cs" /\ phase = "done" =>
        \A cs \in CallSite :
            LET sim == Mapped(heap, heap, Compared(heap, cs))
            IN  \A t, u \in {b \in sim : b[2] \in Marked(heap, "modified")} :
                    \A l \in LinksOf(heap, t[1]), m \in LinksOf(heap, u[1]) :
                        t[2] = u[2] /\ l[2] + t[3] = m[2] + u[3] => t[1] = u[1]

\* The analysis ends: the worklist empties although call sites return to it.
AnalysisEnds == <>(phase = "done")
=============================================================================
